SPECIFICATION MFairSpec
CONSTANTS
  Word = 8
  BiteLimit = 2
  PumpCounter = 1
  PumpCapture = 1
  Hold = 1
  ClockHz = 12
  Full = 4
  Frequencies = {2, 3, 6}
INVARIANTS
  MTypeOK
  PumpHeld
  DrivesOff
PROPERTIES
  DrivesStayOn
  DutyAsCommanded
  SpeedAsCommanded
  CyclesRecur
