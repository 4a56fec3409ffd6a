-------------------------------- MODULE Mutex -------------------------------
(***************************************************************************)
(* Mutex and OwnerLock (runtime/BlockingSync.h) on top of the blocking     *)
(* machinery; OwnerLock is the recursive variant.  Two things make them    *)
(* delicate: acquire() and release() read owner without the lock, and      *)
(* internalRelease() hands its owner field by reference to                 *)
(* BlockingQueue::resume as the loop variable of the walk, so that owner   *)
(* runs through the waiting threads, the list's fence included, and        *)
(* resume() keeps using it after the lock has been released.               *)
(***************************************************************************)
EXTENDS BlockingSync

CONSTANTS Recursive,  \* the queues that are OwnerLocks, the others are Mutexes
          Fence,      \* EmbeddedList::fence()
          MaxDepth    \* bound on nested acquisitions

VARIABLES owner,      \* Mutex::owner
          counter,    \* OwnerLock::counter
          call,       \* the call a thread is in
          depth       \* acquisitions a thread has made and not released

ASSUME MutexAssumption ==
  /\ Recursive \subseteq Queues
  /\ Fence \notin Threads \cup {None}
  /\ MaxDepth \in Nat \ {0}

mutexvars == <<owner, counter, call, depth>>
vars == <<bsvars, mutexvars>>

Idle == [op |-> "none", q |-> None, timeout |-> 0]
Timeouts == {None} \cup 0..MaxTime   \* None: limit<mword>(), wait for ever

MutexInit ==
  /\ BSInit
  /\ owner = [q \in Queues |-> None]
  /\ counter = [q \in Queues |-> 0]
  /\ call = [t \in Threads |-> Idle]
  /\ depth = [t \in Threads |-> [q \in Queues |-> 0]]

\* The thread at a position of the walk over the queue.
At(q, i) == IF i <= Len(bq[q]) THEN bq[q][i] ELSE Fence

Holds(t, op) == pc[t] \in {"held", "missed"} /\ call[t].op = op
Leaves(t) == call' = [call EXCEPT ![t] = Idle]

\* internalAcquire returned true; acquire() of an OwnerLock counts.
Acquired(t, q) ==
  /\ depth' = [depth EXCEPT ![t][q] = @ + 1]
  /\ counter' = IF q \in Recursive THEN [counter EXCEPT ![q] = @ + 1] ELSE counter
  /\ Leaves(t)

-----------------------------------------------------------------------------
(* acquire() and tryAcquire(). *)

\* The unlocked test owner == currThread.  A client does not acquire a Mutex
\* it holds (internalAcquire asserts it).
CallAcquire(t, q, timeout) ==
  /\ pc[t] = "run" /\ call[t] = Idle
  /\ IF q \in Recursive THEN depth[t][q] < MaxDepth ELSE depth[t][q] = 0
  /\ \/ owner[q] = t /\ Acquired(t, q)
     \/ /\ owner[q] # t
        /\ call' = [call EXCEPT ![t] = [op |-> "acquire", q |-> q, timeout |-> timeout]]
        /\ UNCHANGED <<counter, depth>>
  /\ UNCHANGED <<bsvars, owner>>

AcquireLock(t) ==
  /\ call[t].op = "acquire"
  /\ Acquire(t, LockOf[call[t].q])
  /\ UNCHANGED mutexvars

Take(t) ==
  LET q == call[t].q IN
  /\ Holds(t, "acquire")
  /\ owner[q] = None
  /\ owner' = [owner EXCEPT ![q] = t]
  /\ Release(t, LockOf[q])
  /\ Acquired(t, q)

\* Mutant: an expired wait counts as success.
Return_IgnoresTimeout(t) ==
  /\ Dispatch(t)
  /\ IF state[t] = "Cancelled"
     THEN Leaves(t) /\ UNCHANGED <<counter, depth>>
     ELSE Acquired(t, call[t].q)
  /\ UNCHANGED owner

\* BlockingQueue::block decides by the timeout.
Wait(t) ==
  LET q == call[t].q IN
  /\ Holds(t, "acquire")
  /\ owner[q] # None
  /\ \/ call[t].timeout = 0 /\ Release(t, LockOf[q]) /\ Leaves(t)
     \/ /\ call[t].timeout = None /\ Block(t, q)
        /\ IF MayBlock(t) THEN UNCHANGED call ELSE Leaves(t)
     \/ /\ call[t].timeout \notin {0, None}
        /\ StartTimedBlock(t, q, call[t].timeout)
        /\ UNCHANGED call
  /\ UNCHANGED <<owner, counter, depth>>

WaitTimed(t) ==
  /\ TimedBlock(t)
  /\ IF MayBlock(t) THEN UNCHANGED call ELSE Leaves(t)
  /\ UNCHANGED <<owner, counter, depth>>

Return(t) ==
  /\ Dispatch(t)
  /\ IF state[t] = "Cancelled" \/ timedOut[t]
     THEN Leaves(t) /\ UNCHANGED <<counter, depth>>
     ELSE Acquired(t, call[t].q)
  /\ UNCHANGED owner

-----------------------------------------------------------------------------
(* release(), by a thread that made the acquisition. *)

CallRelease(t, q) ==
  /\ call[t] = Idle
  /\ depth[t][q] > 0
  /\ Acquire(t, LockOf[q])
  /\ call' = [call EXCEPT ![t] = [op |-> "release", q |-> q, timeout |-> 0]]
  /\ depth' = [depth EXCEPT ![t][q] = @ - 1]
  /\ UNCHANGED <<owner, counter>>

\* OwnerLock::release of an inner acquisition.
ReleaseInner(t) ==
  LET q == call[t].q IN
  /\ Holds(t, "release") /\ pc[t] = "held"
  /\ q \in Recursive /\ counter[q] > 1
  /\ counter' = [counter EXCEPT ![q] = @ - 1]
  /\ Release(t, LockOf[q])
  /\ Leaves(t)
  /\ UNCHANGED <<owner, depth>>

\* Mutant: the test for the last acquisition is off by one.
ReleaseOuter_Early(t) ==
  LET q == call[t].q IN
  /\ Holds(t, "release") /\ pc[t] = "held"
  /\ q \in Recursive => counter[q] \in 1..2
  /\ counter' = IF q \in Recursive THEN [counter EXCEPT ![q] = @ - 1] ELSE counter
  /\ StartResume(t, q)
  /\ owner' = [owner EXCEPT ![q] = At(q, 1)]
  /\ UNCHANGED <<call, depth>>

\* internalRelease: owner becomes the loop variable of resume().
ReleaseOuter(t) ==
  LET q == call[t].q IN
  /\ Holds(t, "release") /\ pc[t] = "held"
  /\ q \in Recursive => counter[q] = 1
  /\ counter' = IF q \in Recursive THEN [counter EXCEPT ![q] = 0] ELSE counter
  /\ StartResume(t, q)
  /\ owner' = [owner EXCEPT ![q] = At(q, 1)]
  /\ UNCHANGED <<call, depth>>

\* Mutant: the owner field is given up as soon as the lock is released.
Walk_Clears(t) ==
  LET q == cur[t] IN
  /\ TryUnblock(t)
  /\ owner' = [owner EXCEPT ![q] = IF pc'[t] = "walk" THEN At(q, idx'[t]) ELSE None]
  /\ UNCHANGED <<counter, call, depth>>

\* One iteration of resume(): on success owner already is the thread won.
Walk(t) ==
  LET q == cur[t] IN
  /\ TryUnblock(t)
  /\ owner' = [owner EXCEPT ![q] = IF pc'[t] = "walk" THEN At(q, idx'[t]) ELSE @]
  /\ UNCHANGED <<counter, call, depth>>

\* Mutant: owner keeps the value the walk left in it.
ReleaseFree_KeepsFence(t) ==
  LET q == call[t].q IN
  /\ Holds(t, "release") /\ pc[t] = "missed"
  /\ Release(t, LockOf[q])
  /\ Leaves(t)
  /\ UNCHANGED <<owner, counter, depth>>

\* Baton not passed: the lock is free.
ReleaseFree(t) ==
  LET q == call[t].q IN
  /\ Holds(t, "release") /\ pc[t] = "missed"
  /\ owner' = [owner EXCEPT ![q] = None]
  /\ Release(t, LockOf[q])
  /\ Leaves(t)
  /\ UNCHANGED <<counter, depth>>

\* Baton passed: resume() returns once it has resumed *owner.
ReleaseWake(t) ==
  /\ call[t].op = "release"
  /\ Wake(t, "resume", "run")
  /\ Leaves(t)
  /\ UNCHANGED <<owner, counter, depth>>

-----------------------------------------------------------------------------
\* Steps of the machinery that return to no caller.
Inside(t) ==
  \/ AcquireTimeoutLock(t)
  \/ ResumeMisses(t)
  \/ CancelTimeout(t, "cancelTimeout", "resume")
  \/ CancelTimeout(t, "xCancelTimeout", AfterTimeout(victim[t]))
  \/ CancelBlocking(t)
  \/ Wake(t, "xResume", "held")

\* A client terminates by itself only when it holds nothing; a cancelled thread
\* finishes wherever it is.
Finishes(t) ==
  /\ \/ FinishCancelled(t)
     \/ Terminate(t) /\ call[t] = Idle /\ \A q \in Queues : depth[t][q] = 0
  /\ Leaves(t)
  /\ UNCHANGED <<owner, counter, depth>>

Working(t) ==
  \/ Take(t) \/ Wait(t) \/ WaitTimed(t) \/ Return(t)
  \/ ReleaseInner(t) \/ ReleaseOuter(t) \/ Walk(t)
  \/ ReleaseFree(t) \/ ReleaseWake(t)
  \/ Inside(t) /\ UNCHANGED mutexvars

MutexNext ==
  \/ \E t \in Threads :
       \/ \E q \in Queues : CallRelease(t, q) \/ \E d \in Timeouts : CallAcquire(t, q, d)
       \/ AcquireLock(t)
       \/ Working(t)
       \/ Finishes(t)
       \/ call[t] = Idle /\ ExitStep(t) /\ UNCHANGED mutexvars
  \/ (Tick \/ TimerStep) /\ UNCHANGED mutexvars

MutexSpec == MutexInit /\ [][MutexNext]_vars

(***************************************************************************)
(* Fairness: processors keep executing and spinning threads get the lock   *)
(* eventually, as in BlockingSync; in addition a client does not keep a    *)
(* lock for ever.                                                          *)
(***************************************************************************)
MutexFairSpec ==
  /\ MutexSpec
  /\ \A t \in Threads :
       /\ WF_vars(Working(t))
       /\ SF_vars(AcquireLock(t) \/ (Spinning(t) /\ UNCHANGED mutexvars))
       /\ \A q \in Queues : SF_vars(CallRelease(t, q))
  /\ WF_vars(Tick /\ UNCHANGED mutexvars)
  /\ WF_vars(TimerStep /\ UNCHANGED mutexvars)
  /\ SF_vars((ExpiryStart \/ CancelBlocking(Timer)) /\ UNCHANGED mutexvars)

-----------------------------------------------------------------------------
(* Properties. *)

\* The unlocked reads of owner in internalAcquire (line 179) and release (208,
\* 231) are exact: wherever a thread may execute them it finds itself in owner
\* if and only if it holds the lock, although the walks of other threads drive
\* the field through the waiting threads.  So at most one thread holds it, and
\* the recursion counter is that thread's.  A lock found free (183, 192) has a
\* zero counter and no waiting thread: no hand-over was missed.
OwnerReadExact ==
  \A t \in Threads, q \in Queues :
    /\ pc[t] \in Preemptible => (owner[q] = t <=> depth[t][q] > 0)
    /\ q \in Recursive /\ depth[t][q] > 0 /\ pc[t] = "run" => counter[q] = depth[t][q]
    /\ owner[q] = None => counter[q] = 0 /\ ~(t \in Range(bq[q]) /\ state[t] = "Blocked")

\* A thread that waits without a timeout gets the lock, provided holders
\* release it and the process does not exit: hand-over follows the queue, no
\* newcomer can overtake for ever.
WaiterIsServed ==
  \A t \in Threads, q \in Queues :
    pc[t] = "suspended" /\ where[t] = q /\ ~timed[t] ~> depth[t][q] > 0

\* Clients take a lock once, as they take a Mutex, and nobody exits.
Orderly ==
  /\ lock[ThreadLock] = None
  /\ \A t \in Threads, q \in Queues : depth[t][q] <= 1

\* Every wait ends, as long as clients are orderly: without a timeout with the
\* lock, and with one at the latest when it has expired (BlockingSync.h:85-137,
\* 173-237).
WaitsEnd == []Orderly => WaiterIsServed /\ TimedWaitEnds
=============================================================================
