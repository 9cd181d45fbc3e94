SPECIFICATION Spec
CONSTANTS
  OwnPorts <- MCOwnPorts
  ForeignPorts = {}
  Routes = {}
  Setting = {}
  Capacity = 50
  MaxNotices = 1
INVARIANTS
  ListNeverFull
