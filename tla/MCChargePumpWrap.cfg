SPECIFICATION Spec
CONSTANTS
  Word = 16
  BiteLimit = 5
  PumpCounter = 3
  PumpCapture = 2
INVARIANT
  PumpHeldUntilRead
