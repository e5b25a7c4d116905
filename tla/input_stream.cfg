SPECIFICATION Spec
CONSTANTS
  STREAM_SIZE = 4
  ERR_LENGTH = 1000
  StreamLen = 13
  Lens = {1, 2, 3}
  CheckEmpty = TRUE
INVARIANTS TypeOK NothingLost
PROPERTIES ImplementsStream
