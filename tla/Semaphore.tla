------------------------------ MODULE Semaphore -----------------------------
(***************************************************************************)
(* Counting semaphores (class Semaphore of runtime/BlockingSync.h) on top  *)
(* of the blocking machinery, one per element of Queues.  V passes its     *)
(* token directly to a waiting thread ("baton passing") and only counts it *)
(* when the walk over the queue finds nobody to give it to.                *)
(***************************************************************************)
EXTENDS BlockingSync

CONSTANTS InitCount,  \* constructor argument
          MaxCount    \* bound: no V is started above it

VARIABLES counter,    \* Semaphore::counter
          call,       \* the call a thread is in
          outcome     \* what its last P returned

ASSUME SemaphoreAssumption ==
  InitCount \in Nat /\ MaxCount \in Nat /\ IsFiniteSet(Threads)

semvars == <<counter, call, outcome>>
vars == <<bsvars, semvars>>

Idle == [op |-> "none", q |-> None, timeout |-> 0]
Timeouts == {None} \cup 0..MaxTime   \* None: limit<mword>(), wait for ever

SemInit ==
  /\ BSInit
  /\ counter = [q \in Queues |-> InitCount]
  /\ call = [t \in Threads |-> Idle]
  /\ outcome = [t \in Threads |-> FALSE]

Returns(t, b) ==
  /\ call' = [call EXCEPT ![t] = Idle]
  /\ outcome' = [outcome EXCEPT ![t] = b]

InP(t) == pc[t] = "held" /\ call[t].op = "P"
InV(t) == pc[t] \in {"held", "missed"} /\ call[t].op = "V"

-----------------------------------------------------------------------------
\* P() and tryP(): internalP takes the lock ...
CallP(t, q, timeout) ==
  /\ call[t] = Idle
  /\ Acquire(t, LockOf[q])
  /\ call' = [call EXCEPT ![t] = [op |-> "P", q |-> q, timeout |-> timeout]]
  /\ UNCHANGED <<counter, outcome>>

\* Mutant: P does not look at the counter.
PTake_Unchecked(t) ==
  LET q == call[t].q IN
  /\ InP(t)
  /\ counter' = [counter EXCEPT ![q] = @ - 1]
  /\ Release(t, LockOf[q])
  /\ Returns(t, TRUE)

\* ... and a token, if there is one.
PTake(t) ==
  LET q == call[t].q IN
  /\ InP(t)
  /\ counter[q] >= 1
  /\ counter' = [counter EXCEPT ![q] = @ - 1]
  /\ Release(t, LockOf[q])
  /\ Returns(t, TRUE)

\* Without one, BlockingQueue::block decides by the timeout.
PWait(t) ==
  LET q == call[t].q IN
  /\ InP(t)
  /\ counter[q] < 1
  /\ \/ call[t].timeout = 0 /\ Release(t, LockOf[q]) /\ Returns(t, FALSE)
     \/ /\ call[t].timeout = None /\ Block(t, q)
        /\ IF MayBlock(t) THEN UNCHANGED <<call, outcome>> ELSE Returns(t, FALSE)
     \/ /\ call[t].timeout \notin {0, None} /\ StartTimedBlock(t, q, call[t].timeout)
        /\ UNCHANGED <<call, outcome>>
  /\ UNCHANGED counter

PWaitTimed(t) ==
  /\ TimedBlock(t)
  /\ IF MayBlock(t) THEN UNCHANGED <<call, outcome>> ELSE Returns(t, FALSE)
  /\ UNCHANGED counter

\* block() returns !timedOut when the thread runs again.
PReturn(t) ==
  /\ Dispatch(t)
  /\ IF state[t] = "Cancelled"
     THEN call' = [call EXCEPT ![t] = Idle] /\ UNCHANGED outcome
     ELSE Returns(t, ~timedOut[t])
  /\ UNCHANGED counter

CallV(t, q) ==
  /\ call[t] = Idle
  /\ counter[q] < MaxCount
  /\ Acquire(t, LockOf[q])
  /\ call' = [call EXCEPT ![t] = [op |-> "V", q |-> q, timeout |-> 0]]
  /\ UNCHANGED <<counter, outcome>>

\* Mutant: V counts its token first and then looks for a waiter.
VWalk_CountsFirst(t) ==
  /\ InV(t)
  /\ StartResume(t, call[t].q)
  /\ counter' = [counter EXCEPT ![call[t].q] = @ + 1]
  /\ UNCHANGED <<call, outcome>>

VWalk(t) ==
  /\ InV(t)
  /\ StartResume(t, call[t].q)
  /\ UNCHANGED semvars

\* Mutant: the token is counted although it was passed on, too.
VWake_AlsoCounts(t) ==
  /\ call[t].op = "V"
  /\ Wake(t, "resume", "run")
  /\ counter' = [counter EXCEPT ![call[t].q] = @ + 1]
  /\ call' = [call EXCEPT ![t] = Idle]
  /\ UNCHANGED outcome

\* Baton not passed: count the token.
VMiss(t) ==
  LET q == call[t].q IN
  /\ InV(t) /\ pc[t] = "missed"
  /\ counter' = [counter EXCEPT ![q] = @ + 1]
  /\ Release(t, LockOf[q])
  /\ call' = [call EXCEPT ![t] = Idle]
  /\ UNCHANGED outcome

\* Baton passed: V returns once the thread is resumed.
VWake(t) ==
  /\ call[t].op = "V"
  /\ Wake(t, "resume", "run")
  /\ call' = [call EXCEPT ![t] = Idle]
  /\ UNCHANGED <<counter, outcome>>

-----------------------------------------------------------------------------
\* Steps of the machinery that return to no caller.
Inside(t) ==
  \/ AcquireTimeoutLock(t)
  \/ TryUnblock(t)
  \/ ResumeMisses(t)
  \/ CancelTimeout(t, "cancelTimeout", "resume")
  \/ CancelTimeout(t, "xCancelTimeout", AfterTimeout(victim[t]))
  \/ CancelBlocking(t)
  \/ Wake(t, "xResume", "held")

Finishes(t) ==
  /\ FinishCancelled(t) \/ (call[t] = Idle /\ Terminate(t))
  /\ call' = [call EXCEPT ![t] = Idle]
  /\ UNCHANGED <<counter, outcome>>

Working(t) ==
  \/ PTake(t) \/ PWait(t) \/ PWaitTimed(t) \/ PReturn(t)
  \/ VWalk(t) \/ VMiss(t) \/ VWake(t)
  \/ Inside(t) /\ UNCHANGED semvars

SemNext ==
  \/ \E t \in Threads :
       \/ \E q \in Queues : CallV(t, q) \/ \E d \in Timeouts : CallP(t, q, d)
       \/ Working(t)
       \/ Finishes(t)
       \/ call[t] = Idle /\ ExitStep(t) /\ UNCHANGED semvars
  \/ (Tick \/ TimerStep) /\ UNCHANGED semvars

SemSpec == SemInit /\ [][SemNext]_vars

-----------------------------------------------------------------------------
(* Properties. *)

\* Types; the counter of BlockingSync.h:241 (mword) never goes below zero.
SemTypeOK ==
  /\ counter \in [Queues -> Nat]
  /\ call \in [Threads -> [op : {"none", "P", "V"}, q : Queues \cup {None}, timeout : Timeouts]]
  /\ outcome \in [Threads -> BOOLEAN]

\* No missed wake-up: V counts a token only when nobody is left who could take
\* it, so a counted token and a Blocked thread never coexist
\* (BlockingSync.h:264-270).
NoMissedWakeup ==
  \A q \in Queues : counter[q] > 0 => \A t \in Range(bq[q]) : state[t] # "Blocked"

\* Threads that have been passed a token and have not yet returned from P.
Batons(q) ==
  {t \in Threads : /\ pc[t] \in {"suspended", "ready"} /\ call[t].op = "P"
                   /\ where[t] = q /\ ~OnQueue(q, t) /\ ~timedOut[t]}

\* What the abstract semaphore sees: tokens counted or handed over, the
\* semaphore a thread in V is about to give its token to, finished threads.
Tokens == [q \in Queues |-> counter[q] + Cardinality(Batons(q))]
Giving == [t \in Threads |-> IF call[t].op = "V" /\ pc[t] \in {"held", "walk", "missed"}
                             THEN call[t].q ELSE None]
Gone == {t \in Threads : pc[t] = "dead"}

Promised == INSTANCE SemaphoreSpec WITH value <- Tokens, giving <- Giving, gone <- Gone

\* Token conservation: P and V implement the abstract semaphore; a token leaves
\* the counter or a waker's hands exactly once, whatever the timer does, and P
\* returns true exactly for the thread that got it (BlockingSync.h:245-270).
ImplementsSemaphore == Promised!SSpec
=============================================================================
