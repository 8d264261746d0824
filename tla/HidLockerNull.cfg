SPECIFICATION FairSpec
CONSTANTS
  Blocks = {b1, b2, b3}
  NoBlock = NoBlock
  BtnVals = {1, 255}
  MaxBleEvents = 1
  WriteMayFail = FALSE
PROPERTIES NullOnlyWhenCorrupted
