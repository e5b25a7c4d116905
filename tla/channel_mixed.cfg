SPECIFICATION Spec
CONSTANTS
  CHANNEL_BUF_LEN = 12
  Bodies <- MixedBodies
  Caps = {2, 3}
  InitIndices <- Fresh
  InitByte = 0
  COUNT_MOD = 4
  MayCrash = TRUE
INVARIANTS IndicesInRange WritesOutsideUnread ReadsInsideUnread RefusesOnlyNearFull CountExact
PROPERTIES PublishKeepsNonEmpty FifoUntilWrap
