SPECIFICATION Spec
CONSTANTS
  NULL = NULL
  MISSING = MISSING
  Keys <- MCKeys
  Hash <- MCHash
  Words <- MCWords
  Marks = {";"}
  Quotes = {"'"}
  BACKSLASH = "backslash"
  NameWord = "k ="
  NullWord = "(null)"
  Lines <- MCLines
  UserKeys <- MCUserKeys
  UserValues <- MCUserValues
  DICTMINSZ = 4
  PTR = 2
  MaxLines = 3
  MaxCount = 4
INVARIANTS TypeOK ProbeEnds LoadedMeansFile SectionsListed SavedComesBack
PROPERTIES ImplementsStore GoodFileLoads
