\* With migration: a thread that yields and terminates.
CONSTANTS
  c1 = c1  c2 = c2
  idle1 = idle1  idle2 = idle2
  t1 = t1  t2 = t2  t3 = t3
  CPUs <- TwoCPUs
  Threads <- ThreeThreads
  IdleOf <- IdleThread
  Partner <- NextCPU
  Home <- FirstCPU
  Pinned <- NonePinned
  Priority <- Equal
  Migrate = TRUE
  Ops <- YieldTerminate
  None = None
SPECIFICATION SSpec
INVARIANT DestroyedOnce
