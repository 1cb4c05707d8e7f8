CONSTANTS
  MAX_PROCESS = 4
  PreemptAt = {}
  Mappers = {3}
  MaxSpawns = 4
SPECIFICATION FairSpec
INVARIANT ConsoleInRange
PROPERTY NoStarvation
