SPECIFICATION Spec
CONSTANTS
  Half = 2
  MaxTravel = 10
INVARIANTS
  TypeOK
  CountSettles
