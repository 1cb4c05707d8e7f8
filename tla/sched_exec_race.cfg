CONSTANTS
  MAX_PROCESS = 4
  PreemptAt = {"exec_copy"}
  Mappers = {}
  MaxSpawns = 3
SPECIFICATION Spec
INVARIANT CopiesToNewPage
