SPECIFICATION Spec
CONSTANTS
  Effect <- MCEffect
  InPort <- MCInPort
  OutPort <- MCOutPort
  Owner <- MCOwner
  PortName <- MCPortName
  JackIn <- MCJackIn
  JackOut <- MCJackOut
  Configs <- MCConfigs
  NULL = NULL
  MaxPeriods = 2
INVARIANTS
  ActivateRefusesUnconnected
CHECK_DEADLOCK FALSE
