\* Two cores that map into the kernel's address space of three pages.
CONSTANTS
  Cores = {1, 2}  Mappers = {1, 2}  Kinds = {TRUE}
  NPages = 3  NFrames = 3  MaxRegion = 1  MaxPosts = 2
SPECIFICATION SpaceSpec
INVARIANTS MapFindsFree
CHECK_DEADLOCK FALSE
