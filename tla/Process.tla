------------------------------- MODULE Process ------------------------------
(***************************************************************************)
(* The threads of a user process (kernel/Process.cc, JoinableThread.h):    *)
(* createThread, exitThread, joinThread, exit and the destruction of       *)
(* finished threads, all under threadLock.  A thread that exits and the    *)
(* one that joins it meet at the former's wait condition: whoever comes    *)
(* first blocks there and publishes where the result goes or lies, the     *)
(* other one transfers it and signals.  Both block with threadLock as      *)
(* bLock.  The process is deleted with its last thread.                    *)
(*                                                                         *)
(* A thread's exit value is modelled by the thread itself.  Threads also   *)
(* block and wake each other on one queue of another object (Elsewhere),   *)
(* standing for the semaphores of the process.                             *)
(***************************************************************************)
EXTENDS BlockingSync, ManagedArray

CONSTANTS WaitOf,     \* WaitOf[t]: JoinableThread::wait of t
          Elsewhere,  \* a BlockingQueue of another object
          Main        \* the thread created by exec()

ASSUME ProcessAssumption ==
  /\ WaitOf \in [Threads -> Queues \ {Elsewhere}]
  /\ \A t, u \in Threads : WaitOf[t] = WaitOf[u] => t = u
  /\ \A t \in Threads : LockOf[WaitOf[t]] = ThreadLock
  /\ Elsewhere \in Queues /\ LockOf[Elsewhere] # ThreadLock
  /\ Main \in Threads
  /\ Hole \notin Threads \cup Nat

VARIABLES store,      \* threadStore
          slot,       \* UserThread::idx; Hole before createThread
          joinState,  \* JoinableThread::state
          result,     \* the thread whose variable JoinableThread::result points to
          got,        \* the value a join has obtained
          call,       \* the system call a thread is in
          tested,     \* finished threads for which postResume has read Finishing
          freed,      \* threads destroyed
          gone        \* the Process object has been deleted

procvars == <<store, slot, joinState, result, got, call, tested, freed, gone>>
vars == <<bsvars, procvars>>

Idle == [op |-> "none", arg |-> Hole]
Doing(t, op) == call[t].op = op
Begin(t, op, arg) == call' = [call EXCEPT ![t] = [op |-> op, arg |-> arg]]
Created(t) == slot[t] # Hole

\* exec(): the process starts with one thread.
PInit ==
  /\ BSInit
  /\ store = Put(EmptyArray, Main)
  /\ slot = [t \in Threads |-> IF t = Main THEN 1 ELSE Hole]
  /\ joinState = [t \in Threads |-> "Regular"]
  /\ result = [t \in Threads |-> Hole]
  /\ got = [t \in Threads |-> Hole]
  /\ call = [t \in Threads |-> Idle]
  /\ tested = {}
  /\ freed = {}
  /\ gone = FALSE

\* exitThread and exit end with terminate().
ToTerminate(t) == Begin(t, IF Doing(t, "exit") THEN "quit" ELSE "leave", Hole)
Leaves(t) == call' = [call EXCEPT ![t] = Idle] /\ got' = [got EXCEPT ![t] = Hole]

-----------------------------------------------------------------------------
\* createThread: one critical section; start() makes the thread ready.
CreateThread(t, w) ==
  /\ pc[t] = "run" /\ call[t] = Idle
  /\ ~Created(w)
  /\ lock[ThreadLock] = None
  /\ store' = Put(store, w)
  /\ slot' = [slot EXCEPT ![w] = ReserveIndex(store)]
  /\ UNCHANGED <<bsvars, joinState, result, got, call, tested, freed, gone>>

\* threadLock.acquire() of exitThread, joinThread and exit.
CallExitThread(t) ==
  /\ call[t] = Idle /\ Acquire(t, ThreadLock)
  /\ Begin(t, "exitThread", Hole)
  /\ UNCHANGED <<store, slot, joinState, result, got, tested, freed, gone>>

CallJoin(t, i) ==
  /\ call[t] = Idle /\ Acquire(t, ThreadLock)
  /\ Begin(t, "joinThread", i)
  /\ UNCHANGED <<store, slot, joinState, result, got, tested, freed, gone>>

CallExit(t) ==
  /\ t \in Exiting
  /\ call[t] = Idle /\ Acquire(t, ThreadLock)
  /\ Begin(t, "exit", 1)
  /\ UNCHANGED <<store, slot, joinState, result, got, tested, freed, gone>>

-----------------------------------------------------------------------------
(* exitThread and JoinableThread::post. *)

\* Mutant: a thread with one other thread left does not wait for it.
LastThread_OffByOne == ArraySize(store) <= 2

LastThread == ArraySize(store) <= 1

\* The last thread has nobody to wait for.
ExitLast(t) ==
  /\ Doing(t, "exitThread") /\ pc[t] = "held"
  /\ LastThread
  /\ Release(t, ThreadLock)
  /\ ToTerminate(t)
  /\ UNCHANGED <<store, slot, joinState, result, got, tested, freed, gone>>

\* Nobody joins yet: publish the result and wait; a cancelled thread does not.
PostWaits(t) ==
  /\ Doing(t, "exitThread") /\ pc[t] = "held"
  /\ ~LastThread /\ bq[WaitOf[t]] = <<>>
  /\ result' = [result EXCEPT ![t] = t]
  /\ Block(t, WaitOf[t])
  /\ IF MayBlock(t) THEN UNCHANGED call ELSE ToTerminate(t)
  /\ UNCHANGED <<store, slot, joinState, got, tested, freed, gone>>

\* Mutant: the joining thread is woken without the result.
PostSignals_NoResult(t) ==
  /\ Doing(t, "exitThread") /\ pc[t] = "held"
  /\ ~LastThread /\ bq[WaitOf[t]] # <<>>
  /\ StartResume(t, WaitOf[t])
  /\ UNCHANGED procvars

\* A thread waits in join(): hand over the result, signal.
PostSignals(t) ==
  /\ Doing(t, "exitThread") /\ pc[t] = "held"
  /\ ~LastThread /\ bq[WaitOf[t]] # <<>>
  /\ got' = [got EXCEPT ![result[t]] = t]
  /\ StartResume(t, WaitOf[t])
  /\ UNCHANGED <<store, slot, joinState, result, call, tested, freed, gone>>

-----------------------------------------------------------------------------
(* joinThread and JoinableThread::join. *)

Joinable(i) == Valid(store, i) /\ joinState[store.data[i]] = "Regular"

\* -ESRCH or -EINVAL.
JoinFails(t) ==
  /\ Doing(t, "joinThread") /\ pc[t] = "held"
  /\ ~Joinable(call[t].arg)
  /\ Release(t, ThreadLock)
  /\ Leaves(t)
  /\ UNCHANGED <<store, slot, joinState, result, tested, freed, gone>>

\* The thread has not exited: publish where the result goes, and wait.
JoinWaits(t) ==
  LET w == store.data[call[t].arg] IN
  /\ Doing(t, "joinThread") /\ pc[t] = "held"
  /\ Joinable(call[t].arg) /\ bq[WaitOf[w]] = <<>>
  /\ joinState' = [joinState EXCEPT ![w] = "Joining"]
  /\ result' = [result EXCEPT ![w] = t]
  /\ Block(t, WaitOf[w])
  /\ IF MayBlock(t) THEN Begin(t, "joining", w) /\ UNCHANGED got ELSE Leaves(t)
  /\ UNCHANGED <<store, slot, tested, freed, gone>>

\* The thread waits in post(): fetch the result, signal.
JoinSignals(t) ==
  LET w == store.data[call[t].arg] IN
  /\ Doing(t, "joinThread") /\ pc[t] = "held"
  /\ Joinable(call[t].arg) /\ bq[WaitOf[w]] # <<>>
  /\ joinState' = [joinState EXCEPT ![w] = "Joining"]
  /\ got' = [got EXCEPT ![t] = result[w]]
  /\ StartResume(t, WaitOf[w])
  /\ Begin(t, "joining", w)
  /\ UNCHANGED <<store, slot, result, tested, freed, gone>>

-----------------------------------------------------------------------------
(* exit: cancel all other threads of the store. *)

\* One iteration.  A thread that has terminated and is still in the store has
\* its state overwritten like any other.
ExitCancels(t) ==
  LET i == call[t].arg
      w == store.data[i]
  IN
  /\ Doing(t, "exit") /\ pc[t] = "held"
  /\ i <= Len(store.data)
  /\ \/ ~Valid(store, i) /\ UNCHANGED bsvars
     \/ Valid(store, i) /\ w = t /\ UNCHANGED bsvars
     \/ Valid(store, i) /\ Cancel(t, w)
     \/ /\ Valid(store, i) /\ pc[w] = "dead"
        /\ state' = [state EXCEPT ![w] = "Cancelled"]
        /\ UNCHANGED <<pc, lock, tlock, bq, tq, info, walk, victim, timer>>
  /\ Begin(t, "exit", i + 1)
  /\ UNCHANGED <<store, slot, joinState, result, got, tested, freed, gone>>

ExitDone(t) ==
  /\ Doing(t, "exit") /\ call[t].arg > Len(store.data)
  /\ Release(t, ThreadLock)
  /\ ToTerminate(t)
  /\ UNCHANGED <<store, slot, joinState, result, got, tested, freed, gone>>

-----------------------------------------------------------------------------
(* P and V elsewhere: the part that blocks and resumes. *)

CallElsewhere(t, op) ==
  /\ call[t] = Idle /\ Acquire(t, LockOf[Elsewhere])
  /\ Begin(t, op, Hole)
  /\ UNCHANGED <<store, slot, joinState, result, got, tested, freed, gone>>

BlockElsewhere(t) ==
  /\ Doing(t, "P") /\ Block(t, Elsewhere)
  /\ IF MayBlock(t) THEN UNCHANGED <<call, got>> ELSE Leaves(t)
  /\ UNCHANGED <<store, slot, joinState, result, tested, freed, gone>>

ResumeElsewhere(t) == Doing(t, "V") /\ StartResume(t, Elsewhere) /\ UNCHANGED procvars

-----------------------------------------------------------------------------
(* The ends of the calls. *)

\* A call that blocked or signalled is over: exitThread terminates the thread,
\* the others return.
CallOver(t) ==
  /\ IF Doing(t, "exitThread") THEN ToTerminate(t) /\ UNCHANGED got ELSE Leaves(t)
  /\ UNCHANGED <<store, slot, joinState, result, tested, freed, gone>>

Returns(t) ==
  /\ \/ Dispatch(t)
     \/ Wake(t, "resume", "run")
     \/ pc[t] = "missed" /\ Release(t, IF Doing(t, "V") THEN LockOf[Elsewhere] ELSE ThreadLock)
  /\ CallOver(t)

Inside(t) ==
  /\ TryUnblock(t) \/ ResumeMisses(t) \/ CancelBlocking(t) \/ Wake(t, "xResume", "held")
  /\ UNCHANGED procvars

\* Scheduler::terminate, or the end of switchThread for a cancelled thread.
Finishes(t) ==
  /\ \/ call[t].op \in {"leave", "quit"} /\ Terminate(t)
     \/ FinishCancelled(t)
  /\ IF Doing(t, "quit") THEN UNCHANGED <<call, got>> ELSE Leaves(t)
  /\ UNCHANGED <<store, slot, joinState, result, tested, freed, gone>>

\* postResume, on the processor that has switched away from t ...
PostResume(t) ==
  /\ Created(t) /\ pc[t] = "dead" /\ state[t] = "Finishing"
  /\ tested' = tested \cup {t}
  /\ UNCHANGED <<bsvars, store, slot, joinState, result, got, call, freed, gone>>

\* Mutant: the process is deleted with a thread left.
Deletes_Early(s) == ArraySize(s) <= 1

Deletes(s) == ArraySize(s) = 0

\* ... removes the thread from the store, deletes the process if it was the
\* last one, and destroys the thread.
DestroyThread(t) ==
  /\ t \in tested \ freed
  /\ lock[ThreadLock] = None
  /\ store' = ArrayRemove(store, slot[t])
  /\ gone' = Deletes(store')
  /\ freed' = freed \cup {t}
  /\ UNCHANGED <<bsvars, slot, joinState, result, got, call, tested>>

-----------------------------------------------------------------------------
CallStep(t) ==
  \/ ExitLast(t) \/ PostWaits(t) \/ PostSignals(t)
  \/ JoinFails(t) \/ JoinWaits(t) \/ JoinSignals(t)
  \/ ExitCancels(t) \/ ExitDone(t)
  \/ BlockElsewhere(t) \/ ResumeElsewhere(t)
  \/ Returns(t) \/ Inside(t) \/ Finishes(t)
  \/ PostResume(t) \/ DestroyThread(t)

UserStep(t) ==
  \/ \E w \in Threads : CreateThread(t, w)
  \/ CallExitThread(t)
  \/ \E i \in 1..Len(store.data) : CallJoin(t, i)
  \/ CallExit(t)
  \/ \E op \in {"P", "V"} : CallElsewhere(t, op)

PNext == \E t \in Threads : Created(t) /\ (UserStep(t) \/ CallStep(t))

PSpec == PInit /\ [][PNext]_vars

(***************************************************************************)
(* Fairness: processors keep executing the calls threads are in, and a     *)
(* processor that spins for a lock gets it if it is free again and again.  *)
(***************************************************************************)
PFairSpec ==
  /\ PSpec
  /\ \A t \in Threads :
       /\ WF_vars(Created(t) /\ CallStep(t))
       /\ SF_vars(CancelBlocking(t) /\ UNCHANGED procvars)
       /\ SF_vars(DestroyThread(t))

-----------------------------------------------------------------------------
(* Properties. *)

\* The valid entries of threadStore are the threads that were created and not
\* destroyed, each at its own idx, although indices are used again; the Process
\* object is deleted when none is left.
StoreExact ==
  /\ \A t \in Threads : Created(t) /\ t \notin freed => store.data[slot[t]] = t
  /\ \A i \in DOMAIN store.data : store.data[i] \notin freed
  /\ gone => \A t \in Threads : Created(t) => t \in freed

\* A join that has met its thread has that thread's exit value, not the one of
\* a thread that had the index before or of another join.
JoinExact ==
  \A t \in Threads :
    Doing(t, "joining") /\ (pc[t] \in {"walk", "resume", "ready"}) /\ state[t] = "Running"
      => got[t] = call[t].arg

ExitCalled == \E t \in Threads : call[t].op \in {"exit", "quit"}

\* No thread ends with another one at its wait condition, which would sleep on
\* freed memory for ever: exitThread skips post() only when there is no other
\* thread.  (After an exit() it happens, if a thread that is cancelled but
\* still runs creates another one: that thread is not cancelled.)
NoOrphanedJoin ==
  ~ExitCalled => \A w \in Threads : pc[w] = "dead" => bq[WaitOf[w]] = <<>>

\* Thread::destroy asserts that the thread is Finishing (Thread.cc:40).
DestroyedIsFinishing == \A t \in tested \ freed : state[t] = "Finishing"

\* exit() ends, with all threads cancelled ("detach all -> cancel all",
\* Process.cc:96).
ExitEnds == \A t \in Threads : Doing(t, "exit") ~> pc[t] = "dead"
=============================================================================
