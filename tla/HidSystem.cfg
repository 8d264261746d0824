SPECIFICATION SysFairSpec
CONSTANTS
  Blocks = {b1, b2}
  NoBlock = NoBlock
  BtnVals = {1}
  MaxBleEvents = 1
  WriteMayFail = FALSE
  BleErrors = TRUE
INVARIANTS BleTypeOK
PROPERTIES FindsThingy ThingyPressLocks KeysReleased EventServed
CHECK_DEADLOCK FALSE
