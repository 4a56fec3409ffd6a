------------------------------- MODULE MCCore -------------------------------
(***************************************************************************)
(* Small instances of blocking synchronisation, of the processors' lock    *)
(* counts and of an address space.  A behaviour is one of the blocking     *)
(* machinery with any client or of a semaphore, which share the threads,   *)
(* the queue and its lock, or of the processors or the address space, as   *)
(* the variable part says, while the others rest.                          *)
(***************************************************************************)
EXTENDS Semaphore, LocalProcessor, AddressSpace, TLC

CONSTANTS t1, t2, t3, q1, bLock, threadLock, c1, c2

VARIABLE part

ThreeThreads == {t1, t2, t3}
OneQueue == {q1}
BothLocks == {bLock, threadLock}
OneLock == [q \in Queues |-> bLock]
OneExiting == {t1}
TwoCPUs == {c1, c2}

CoreInit ==
  /\ part \in {"any", "semaphore", "processors", "memory"}
  /\ SemInit /\ CpuInit /\ SpaceInit
  /\ part # "processors" => currThread = [c \in CPUs |-> IF c = c1 THEN t1 ELSE t2]
  /\ part # "memory" => kernel

\* An address space may come to rest; the others may not.
CoreNext ==
  /\ UNCHANGED part
  /\ \/ part = "any" /\ BSNext /\ UNCHANGED <<semvars, cpuVars, spaceVars>>
     \/ part = "semaphore" /\ SemNext /\ UNCHANGED <<cpuVars, spaceVars>>
     \/ part = "processors" /\ CpuNext /\ UNCHANGED <<vars, spaceVars>>
     \/ part = "memory" /\ SpaceNext /\ UNCHANGED <<vars, cpuVars>>
     \/ part = "memory" /\ UNCHANGED <<vars, cpuVars, spaceVars>>

CoreSpec == CoreInit /\ [][CoreNext]_<<part, vars, cpuVars, spaceVars>>

\* Every variable has its type: the threads, queues and timer; the semaphore,
\* whose counter never goes below zero (BlockingSync.h:241); lock counts; page
\* tables and invalidation records.
CoreTypeOK == TypeOK /\ SemTypeOK /\ CpuTypeOK /\ SpaceTypeOK
=============================================================================
