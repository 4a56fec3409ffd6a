\* Two threads on two processors, which write a word of the bitmap at once.
CONSTANTS
  Users = {u1, u2}  StdHandles = 1  MaxObjects = 3  MaxFd = 3  FileSize = 1
  Seeks = {1}  MaxOffset = 2  Smp = TRUE
SPECIFICATION FilesSpec
INVARIANTS ReleaseIsClear
CHECK_DEADLOCK FALSE
