SPECIFICATION Spec
CONSTANTS
  MaxSent = 2
  Budgets <- Damaged
PROPERTY
  WrittenIfCorrect
CHECK_DEADLOCK FALSE
