CONSTANTS
  MAX_PROCESS = 4
  PreemptAt = {"exec_enter", "exec_load", "halt_paging"}
  Mappers = {}
  MaxSpawns = 4
SPECIFICATION Spec
INVARIANTS TypeOK Coherent QueueExact SleepsForChild Isolation
PROPERTY PcbStable
