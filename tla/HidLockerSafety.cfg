SPECIFICATION Spec
CONSTANTS
  Blocks = {b1, b2, b3, b4}
  NoBlock = NoBlock
  BtnVals <- MCBtnVals
  MaxBleEvents = 1
  WriteMayFail = TRUE
SYMMETRY BlockSymmetry
INVARIANTS TypeOK BlockOwnership NoLostWakeup UsbToken ReleasePending
PROPERTIES ImplementsKeyLock
