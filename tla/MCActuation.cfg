SPECIFICATION AFairSpec
CONSTANTS
  Half = 4
  Periods <- MCPeriods
  MaxTravel = 5
  Clock = 16
  Scale = 1
  Threshold = 2
  Velocities <- MCVelocities
  MaxGap = 24
INVARIANTS
  ATypeOK
  LocationTracksMotor
  StraysAtNewRate
  PositionTrue
PROPERTIES
  StepRateBounded
  EnabledAxisSteps
  SteadyRate
  CreepBounded
CHECK_DEADLOCK FALSE
