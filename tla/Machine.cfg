\* Two interrupt lines and drivers on two processors whose local APICs are not
\* numbered in the order of the table; three processors that start with up to
\* three Startup IPIs lost; three threads that open, read, seek and close
\* files, one at a time touching a bitmap word; three threads and a mutex and a
\* condition, one of which only tries to lock.
CONSTANTS
  Irqs = {1, 4}  Handlers = {"h1", "h2"}
  Processors = 2
  ApicID <- Swapped
  MaxWake = 1
  ProcessorCount = 3  Startups = 2  MaxLost = 3  MaxWasted = 2
  Users = {"u1", "u2", "u3"}  StdHandles = 1  MaxObjects = 4  MaxFd = 3  FileSize = 1
  Seeks = {1}  MaxOffset = 2  Smp = FALSE
  Lockers = {l1, l2, l3}  Triers = {l3}  MaxSurplus = 1
  c1 = c1  c2 = c2  idle1 = idle1  idle2 = idle2  t1 = t1  t2 = t2
  None = None
SPECIFICATION MachineSpec
INVARIANTS BootOrder BootIndexAgrees
INVARIANTS NoUseAfterDelete FilesExact
INVARIANTS MutexExclusive
PROPERTIES InterruptsServed
PROPERTIES AllProcessorsStart
PROPERTIES ClosesReturn
PROPERTIES LocksServed
PROPERTIES ReadyIsDispatched
PROPERTIES UnmappedReleased
CHECK_DEADLOCK FALSE
