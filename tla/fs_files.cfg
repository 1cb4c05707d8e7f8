CONSTANTS
  NUM_FDS = 4
  BLOCK_SIZE = 2
  Dentries <- MCDentries
  Inodes <- MCInodes
  NumDataBlocks = 4
  Names = {".", "a", "b", "rtc", "odd", "missing"}
  Sizes = {1, 3, 4}
  ArgLengths = {2}
SPECIFICATION Spec
INVARIANTS FilesAsRead DirInOrder
PROPERTY OtherFdsUntouched
