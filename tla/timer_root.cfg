SPECIFICATION Spec
CONSTANTS
  a = a
  b = b
  Nodes <- TwoNodes
  NULL = NULL
  TVN_SIZE = 2
  TVR_SIZE = 8
  Word = 256
  MaxLag = 1
  Loads <- Short
INVARIANTS DueInRoot
