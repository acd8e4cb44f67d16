SPECIFICATION FairSpec
CONSTANTS
  b1 = b1
  b2 = b2
  Button <- MCButton
  Led = {0, 1}
  NoLed = NoLed
  DisplayEvery = 2
  Paces = {FALSE}
  MaxKeys <- MCKeys
  MaxFrames <- MCFrames
PROPERTY
  LevelOfItsOwnKey
