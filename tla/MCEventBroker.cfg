SPECIFICATION FairSpec
CONSTANTS
  Sender = {process, notify}
  Receiver = main
  Event = {audio_processed, audio_client_change}
  Capacity = 2
  MaxSends = 4
  Free = Free
INVARIANTS
  TypeOK
  PopFindsEvent
  NoLostWakeup
PROPERTIES
  ImplementsQueue
  Delivered
CHECK_DEADLOCK FALSE
