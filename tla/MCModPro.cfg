SPECIFICATION Spec
CONSTANTS
  OwnPorts <- MCOwnPorts
  ForeignPorts <- MCForeignPorts
  Routes <- MCRoutes
  Setting = {"sample_rate", "buffer_size"}
  Capacity = 2
  MaxNotices = 1
INVARIANTS
  TypeOK
  NoLostRoute
  NoLostEnd
PROPERTIES
  EndsForAReason
