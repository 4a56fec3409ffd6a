\* Two threads; one exits while the other one waits to be joined.
CONSTANTS
  t1 = t1  t2 = t2  t3 = t3
  wait1 = wait1  wait2 = wait2  wait3 = wait3
  Elsewhere = Elsewhere
  ThreadLock = ThreadLock  semLock = semLock
  Threads <- TwoThreads
  Main = t1
  WaitOf <- Conditions
  Queues <- AllQueues
  Locks <- AllLocks
  LockOf <- ProcessLocks
  Exiting <- MainExits
  Timer = Timer
  None = None
  Hole = Hole
  MaxTime = 0
SPECIFICATION PFairSpec
PROPERTY ExitEnds
CHECK_DEADLOCK FALSE
