\* With migration: a cancelled thread that has been moved.
CONSTANTS
  c1 = c1  c2 = c2
  idle1 = idle1  idle2 = idle2
  t1 = t1  t2 = t2  t3 = t3
  CPUs <- TwoCPUs
  Threads <- ThreeThreads
  IdleOf <- IdleThread
  Partner <- NextCPU
  Home <- FirstCPU
  Pinned <- NonePinned
  Priority <- Equal
  Migrate = TRUE
  Ops <- SuspendCancel
  None = None
SPECIFICATION SSpec
INVARIANT SuccessorFound
