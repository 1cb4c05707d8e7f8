CONSTANTS
  Term = {0, 1}
  Chars = {"a"}
  Lens = {2, 4}
  KBUF_LEN = 5
  EchoTicks = FALSE
  EarlyKeys = FALSE
SPECIFICATION FairSpec
INVARIANT BufferSafe
PROPERTIES LineAsTyped TypedLineReturns
