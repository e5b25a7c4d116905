SPECIFICATION Spec
CONSTANTS
  STREAM_SIZE = 5
  ERR_LENGTH = 1000
  StreamLen = 8
  Lens = {1, 2, 3}
  CheckEmpty = TRUE
INVARIANTS SentOnce
