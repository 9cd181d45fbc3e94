SPECIFICATION FairSpec
CONSTANTS
  Value <- MCValue
  Chains = 2
  MaxChanges = 2
INVARIANTS
  TypeOK
  PeriodsFit
  HandlersAlive
PROPERTIES
  StartsUp
CHECK_DEADLOCK FALSE
