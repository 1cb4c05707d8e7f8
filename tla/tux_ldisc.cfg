CONSTANTS
  TUXCTL_BUFSIZE = 5
  PACKETS = 4
  ROOM = 2
  MaxBytes = 10
  MaxChunk = 5
  MaxPut = 5
  MaxDropped = 2
  MaxOpens = 2
SPECIFICATION Spec
INVARIANTS PacketsCorrect BytesKept
PROPERTY LosesAtMostOne
CHECK_DEADLOCK FALSE
