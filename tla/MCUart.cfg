SPECIFICATION FairSpec
CONSTANTS
  TxBits = 2
  TxDivisor = 4
  MaxWrites = 3
  RxBits = 3
  RxDivisor = 11
  Drift = 2
  MaxLine = 2
INVARIANT
  TypeOK
PROPERTIES
  ImplementsTxPort
  FramesSpaced
  ImplementsRxPort
  FramesArrive
