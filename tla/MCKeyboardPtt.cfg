SPECIFICATION Spec
CONSTANTS
  AlarmTicks = 4
  PollTicks = 1
INVARIANTS
  TypeOK
  AnswersMatch
  MemoTrue
  FollowsInTime
PROPERTIES
  KeepsPolling
  GoneEnds
