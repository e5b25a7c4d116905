SPECIFICATION Spec
CONSTANTS
  CHANNEL_BUF_LEN = 12
  Bodies <- MixedBodies
  Caps = {4}
  InitIndices <- Fresh
  InitByte = 0
  COUNT_MOD = 4
  MayCrash = FALSE
INVARIANTS GetNeverFatal
