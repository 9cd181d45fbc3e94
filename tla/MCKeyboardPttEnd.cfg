SPECIFICATION Spec
CONSTANTS
  AlarmTicks = 4
  PollTicks = 1
INVARIANTS
  PttOffAtEnd
