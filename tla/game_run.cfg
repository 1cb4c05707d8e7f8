CONSTANTS
  Keys = {"x", "delete", "enter", "up", "insert", "quit"}
  MaxKeys = 2
  MAX_TYPED_LEN = 1
  SHOW = 2
  MaxSignals = 2
  MaxSpurious = 1
  Faults = TRUE
SPECIFICATION FairSpec
INVARIANTS RestoredAtExit InputCorrect
PROPERTIES ClearedInTime MessageGoes
