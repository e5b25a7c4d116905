SPECIFICATION FairSpec
CONSTANTS
  CHANNEL_BUF_LEN = 12
  Bodies <- HalfBodies
  Caps = {0, 3, 4}
  InitIndices <- FreshOrForeign
  InitByte = 9
  COUNT_MOD = 1
  MayCrash = FALSE
PROPERTIES RangeRecovered ReaderProgress WriterNotStarved ImplementsFifo
