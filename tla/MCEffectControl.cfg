SPECIFICATION FairSpec
CONSTANTS
  Effect <- MCEffect
  Type <- MCType
  TypeOf <- MCTypeOf
  Ports <- MCPorts
  Name <- MCName
  Configs <- MCConfigs
  Double <- MCDouble
  Rounded <- MCRounded
  Plus <- MCPlus
  Zero = 0
  None = None
INVARIANTS
  TypeOK
  StrangersArePortZero
PROPERTIES
  StableInRun
  ImplementsRegisters
  DiesOfWrongPort
  Answered
CHECK_DEADLOCK FALSE
