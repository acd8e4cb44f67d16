SPECIFICATION FairSpec
CONSTANTS
  MaxSent = 12
  Budgets <- Clean
INVARIANT
  FeedbackOneBehind
PROPERTY
  ImplementsServoLoop
CHECK_DEADLOCK FALSE
