\* Three threads, the first of which creates the others and may call exit.  A
\* process ends: the threads may stop.  Two cores and one breakpoint.
CONSTANTS
  t1 = t1  t2 = t2  t3 = t3
  wait1 = wait1  wait2 = wait2  wait3 = wait3
  Elsewhere = Elsewhere
  ThreadLock = ThreadLock  semLock = semLock
  Threads <- ThreeThreads
  Main = t1
  WaitOf <- Conditions
  Queues <- AllQueues
  Locks <- AllLocks
  LockOf <- ProcessLocks
  Exiting <- MainExits
  Timer = Timer
  None = None
  Hole = Hole
  MaxTime = 0
  N = 2  Code = {10}  HookAddr = 10  Unmapped = 99  Probed = {10, 99}
SPECIFICATION DebugSpec
INVARIANTS StoreExact JoinExact NoOrphanedJoin
INVARIANTS OneSpeaker SessionConsistent
PROPERTIES StubGoesOn
CHECK_DEADLOCK FALSE
