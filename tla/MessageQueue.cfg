\* Three threads sending and receiving two messages through two places; one of
\* them may exit and cancel the others.
CONSTANTS
  t1 = t1  t2 = t2  t3 = t3
  m1 = m1  m2 = m2
  SendQueue = SendQueue  RecvQueue = RecvQueue
  MQLock = MQLock  threadLock = threadLock
  Threads <- ThreeThreads
  Queues <- SendRecv
  Locks <- MQLocks
  LockOf <- OneLock
  ThreadLock <- threadLock
  Exiting <- OneExiting
  Timer = Timer
  None = None
  Blank = Blank
  MaxTime = 1
  Size = 2
  Messages <- TwoMessages
SPECIFICATION MQSpec
INVARIANTS SlotsConserved
PROPERTIES ImplementsChannel
SYMMETRY Interchangeable
