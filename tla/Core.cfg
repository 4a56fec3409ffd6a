\* Three threads and one queue, which is waited on directly or by a semaphore
\* that starts without a token; one thread may exit and cancel the others.  Two
\* processors on which three threads nest locks, interrupts and system calls.  A
\* kernel or a user address space of three pages on two cores, with two frames.
CONSTANTS
  t1 = t1  t2 = t2  t3 = t3
  q1 = q1
  bLock = bLock
  threadLock = threadLock
  Threads <- ThreeThreads
  Queues <- OneQueue
  Locks <- BothLocks
  LockOf <- OneLock
  ThreadLock <- threadLock
  Exiting <- OneExiting
  Timer = Timer
  None = None
  MaxTime = 1
  InitCount = 0
  MaxCount = 1
  c1 = c1  c2 = c2
  CPUs <- TwoCPUs
  Tasks <- ThreeThreads
  NoTask = NoTask
  MaxNesting = 2  MaxFrames = 1
  Cores = {1, 2}  Mappers = {1}  Kinds = {TRUE, FALSE}
  NPages = 3  NFrames = 2  MaxRegion = 2  MaxPosts = 2
SPECIFICATION CoreSpec
INVARIANTS CoreTypeOK
INVARIANTS OneWaker NoStaleLinks BlockedIsLinked NoDeadlyEmbrace NoEarlyTimeout
INVARIANTS NoMissedWakeup
INVARIANTS LockCountExact
INVARIANTS StaleIsHarmless FrameHasOneOwner
PROPERTIES ImplementsSemaphore
