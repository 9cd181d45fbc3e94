SPECIFICATION FairSpec
CONSTANTS
  OwnPorts <- MCOwnPorts
  ForeignPorts <- MCForeignPorts
  Routes <- MCRoutes
  Setting = {}
  Capacity = 2
  MaxNotices = 1
PROPERTIES
  Converges
  StopsWithJack
