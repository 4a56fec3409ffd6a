\* Three threads on an OwnerLock of depth two; one may exit and cancel the others.
CONSTANTS
  t1 = t1  t2 = t2  t3 = t3
  m1 = m1
  mutexLock = mutexLock
  threadLock = threadLock
  Threads <- ThreeThreads
  Queues <- OneMutex
  Locks <- MutexLocks
  LockOf <- OwnLock
  ThreadLock <- threadLock
  Exiting <- OneExiting
  Timer = Timer
  None = None
  Fence = Fence
  MaxTime = 1
  Recursive <- IsOwnerLock
  MaxDepth = 2
SPECIFICATION MutexFairSpec
INVARIANTS OwnerReadExact
PROPERTIES WaitsEnd
