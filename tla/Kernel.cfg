\* With migration: three threads started on one of two processors suspend, are
\* woken, preempted and moved to the other one; one of them is pinned, and
\* yields, terminates and is cancelled, too.  Two large frames of four small ones,
\* bitmaps of three levels, lists of four elements, four keystrokes, a screen of
\* three lines in two segments, tables of up to three entries.  Page tables of four
\* levels, the kernel's space and one cloned from it at a time.
CONSTANTS
  c1 = c1  c2 = c2
  idle1 = idle1  idle2 = idle2
  t1 = t1  t2 = t2  t3 = t3
  CPUs <- TwoCPUs
  Threads <- ThreeThreads
  IdleOf <- IdleThread
  Partner <- NextCPU
  Home <- FirstCPU
  Pinned <- SecondPinned
  Priority <- FirstTop
  Migrate = TRUE
  Ops <- PinnedDoAll
  None = None
  L = 2  S = 4  MaxHeld = 3  Sizes = {1, 2, 3, 4, 5}  Aligns = {1, 2, 4, 8}  Limits = {3, 6, 8}
  Words = 2  WordBits = 2  BitCount = 9
  Elems = {"a", "b", "c", "d"}
  Stores = {1, 2}  PageSize = 2  MaxPages = 3
  Keys = {"lshift", "rctrl", "ralt", "capslock", "letter", "delete", "f7"}
  MaxStrokes = 4  KeyLimit = 2
  XMax = 4  MaxText = 6
  Segments <- MCSegments
  TagLists <- MCTagLists
  Madts <- MCMadts
  PciTrees <- MCPciTrees
  MaxDevice = 2  MaxFunction = 2  MaxBus = 3
  BarBits = 6
  Page = 4  Wheres = {4, 7, 9}  Lengths = {1, 3, 6}  MaxMappings = 3
  MapBottom = 2  MapTop = 8
  PtLevels = 4  PtEntries = 5  RecIndex = 1  KernBIndex = 2  ImagePages = 2
  PtFrames = 50  MaxSpaces = 1  MaxForgotten = 1
  UserMaps <- MCUserMaps
  KernelMaps <- MCKernelMaps
SPECIFICATION KernelSpec
INVARIANTS OnePlace StackIsSaved NoSleepOnWork
INVARIANTS SavedIsRestored MemoryExact StructuresExact
INVARIANTS ConsoleExact FirmwareExact
