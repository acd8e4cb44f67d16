SPECIFICATION FairSpec
CONSTANTS
  MaxSent = 3
  Budgets <- Faulty
INVARIANTS
  TypeOK
  NoOrphanWait
  LagBounded
  RegistersNotBehind
  InterruptsReenabled
  WatchdogNeedsHost
PROPERTIES
  FeedbackMonotone
  AppliedMonotone
  HostUnblocks
CHECK_DEADLOCK FALSE
