---------------------------- MODULE BlockingSync ----------------------------
(***************************************************************************)
(* The blocking machinery of the kernel (runtime/BlockingSync.h): how a    *)
(* thread goes to sleep on a BlockingQueue, with or without a timeout, and *)
(* how it is woken by exactly one of                                       *)
(*   - another thread that calls BlockingQueue::resume,                    *)
(*   - the timer interrupt, which calls Timeout::checkExpiry,              *)
(*   - a thread that cancels it (Thread::cancel, from Process::exit).      *)
(* The three race for the thread's state word: whoever moves it away from  *)
(* Blocked owns the wake-up and must take the thread off the queues it is  *)
(* still linked on before handing it to the scheduler.                     *)
(*                                                                         *)
(* The module is "open": which queue a running thread locks, blocks on or  *)
(* resumes is left to the client.  Semaphore, Mutex and MessageQueue       *)
(* extend it and resolve those choices.                                    *)
(*                                                                         *)
(* Granularity.  Taking a spinlock is a step of its own whenever another   *)
(* lock is already held or several reads and writes follow; a critical     *)
(* section with one access to shared state is one step.  Threads run on as *)
(* many processors as needed; the scheduler proper is abstracted to        *)
(* "ready" threads being dispatched in any order.                          *)
(***************************************************************************)
EXTENDS Naturals, Sequences, FiniteSets, Functions

CONSTANTS Threads,     \* kernel threads
          Queues,      \* BlockingQueue objects
          Locks,       \* the BasicLocks that protect them (bLock)
          LockOf,      \* LockOf[q] is the lock callers of q pass as bLock
          ThreadLock,  \* Process::threadLock, held by the caller of cancel()
          Exiting,     \* the threads that may call Process::exit
          Timer,       \* the RTC interrupt handler
          None,        \* nullptr
          MaxTime      \* bound on the clock

ASSUME ConstantsAssumption ==
  /\ LockOf \in [Queues -> Locks]
  /\ ThreadLock \in Locks
  /\ Exiting \subseteq Threads
  /\ Timer \notin Threads
  /\ None \notin Threads \cup {Timer} \cup Queues
  /\ MaxTime \in Nat

Actors == Threads \cup {Timer}

VARIABLES state,     \* Thread::state
          pc,        \* where each actor is
          lock,      \* holder of each bLock
          tlock,     \* holder of Timeout::lock
          bq,        \* BlockingQueue::queue
          tq,        \* Timeout::queue: the threads with an entry ...
          deadline,  \* ... and the key of that entry
          now,       \* Clock::now()
          where,     \* unblockInfo: the queue the thread blocks on, or None
          timed,     \* unblockInfo has a timeout entry
          timedOut,  \* BlockingInfo::timedOut
          cur, idx,  \* queue and position of a thread walking or blocking
          victim,    \* the thread whose state word this actor has just won
          scan, fire \* checkExpiry: entries still to visit, and fireList

bsvars == <<state, pc, lock, tlock, bq, tq, deadline, now, where, timed,
            timedOut, cur, idx, victim, scan, fire>>

info == <<deadline, where, timed, timedOut>>
walk == <<cur, idx>>
timer == <<now, scan, fire>>

(***************************************************************************)
(* Control points.  "held" and "missed" are inside the client's critical   *)
(* section (missed: after resume() returned false), "resume" and below are *)
(* the wake-up sequences of a waker, of a canceller and of the timer.      *)
(***************************************************************************)
ThreadPC == {"run", "held", "missed", "spinTimeout", "held2", "walk",
             "cancelTimeout", "resume", "xCancelTimeout", "xCancelBlocking",
             "xResume", "suspended", "ready", "dead"}
TimerPC == {"run", "scan", "fire", "xCancelBlocking", "xResume"}
ThreadState == {"Running", "Blocked", "Cancelled", "Finishing"}

\* EmbeddedList::remove: an element leaves the list it is linked in.
Unlink(s, e) ==
  LET i == CHOOSE i \in 1..Len(s) : s[i] = e
  IN  IF e \in Range(s) THEN SubSeq(s, 1, i - 1) \o SubSeq(s, i + 1, Len(s)) ELSE s

OnQueue(q, t) == t \in Range(bq[q])
Linked(t) == t \in tq \/ \E q \in Queues : OnQueue(q, t)

-----------------------------------------------------------------------------
BSInit ==
  /\ state = [t \in Threads |-> "Running"]
  /\ pc = [a \in Actors |-> "run"]
  /\ lock = [l \in Locks |-> None]
  /\ tlock = None
  /\ bq = [q \in Queues |-> <<>>]
  /\ tq = {}
  /\ deadline = [t \in Threads |-> 0]
  /\ now = 0
  /\ where = [t \in Threads |-> None]
  /\ timed = [t \in Threads |-> FALSE]
  /\ timedOut = [t \in Threads |-> FALSE]
  /\ cur = [t \in Threads |-> None]
  /\ idx = [t \in Threads |-> 0]
  /\ victim = [a \in Actors |-> None]
  /\ scan = {}
  /\ fire = {}

Goto(a, label) == pc' = [pc EXCEPT ![a] = label]
Drop(l) == lock' = [lock EXCEPT ![l] = None]

-----------------------------------------------------------------------------
(* The client's critical section. *)

\* BasicLock::acquire by a thread that holds no lock.
Acquire(t, l) ==
  /\ pc[t] = "run"
  /\ lock[l] = None
  /\ lock' = [lock EXCEPT ![l] = t]
  /\ Goto(t, "held")
  /\ UNCHANGED <<state, tlock, bq, tq, info, walk, victim, timer>>

Release(t, l) ==
  /\ pc[t] \in {"held", "missed"}
  /\ lock[l] = t
  /\ Drop(l)
  /\ Goto(t, "run")
  /\ UNCHANGED <<state, tlock, bq, tq, info, walk, victim, timer>>

-----------------------------------------------------------------------------
(* Going to sleep. *)

\* Thread::block: compare-and-swap Running -> Blocked; it fails for a thread
\* that has been cancelled in the meantime.
MayBlock(t) == state[t] = "Running"

\* Mutant: a thread that blocks with a timeout is not put on the queue.
Suspend_NotQueued(t, q, withTimeout, d) ==
  /\ state' = [state EXCEPT ![t] = "Blocked"]
  /\ where' = [where EXCEPT ![t] = q]
  /\ timed' = [timed EXCEPT ![t] = withTimeout]
  /\ deadline' = [deadline EXCEPT ![t] = d]
  /\ timedOut' = [timedOut EXCEPT ![t] = FALSE]
  /\ bq' = IF withTimeout THEN bq ELSE [bq EXCEPT ![q] = Append(@, t)]
  /\ tq' = IF withTimeout THEN tq \cup {t} ELSE tq
  /\ Goto(t, "suspended")

\* Thread::block (success) together with what the three suspend() functions do
\* before Scheduler::suspend: link the thread, publish its UnblockInfo.
Suspend(t, q, withTimeout, d) ==
  /\ state' = [state EXCEPT ![t] = "Blocked"]
  /\ where' = [where EXCEPT ![t] = q]
  /\ timed' = [timed EXCEPT ![t] = withTimeout]
  /\ deadline' = [deadline EXCEPT ![t] = d]
  /\ timedOut' = [timedOut EXCEPT ![t] = FALSE]
  /\ bq' = IF q = None THEN bq ELSE [bq EXCEPT ![q] = Append(@, t)]
  /\ tq' = IF withTimeout THEN tq \cup {t} ELSE tq
  /\ Goto(t, "suspended")

\* BlockingInfo::suspend: the client holds bLock; both outcomes release it.
Block(t, q) ==
  /\ pc[t] = "held"
  /\ lock[LockOf[q]] = t
  /\ Drop(LockOf[q])
  /\ \/ MayBlock(t) /\ Suspend(t, q, FALSE, 0)
     \/ ~MayBlock(t) /\ Goto(t, "run") /\ UNCHANGED <<state, bq, tq, info>>
  /\ UNCHANGED <<tlock, walk, victim, timer>>

\* TimeoutBlockingInfo::suspend, up to the acquisition of Timeout::lock: the
\* thread spins for it while it holds bLock.
StartTimedBlock(t, q, d) ==
  /\ pc[t] = "held"
  /\ lock[LockOf[q]] = t
  /\ cur' = [cur EXCEPT ![t] = q]
  /\ deadline' = [deadline EXCEPT ![t] = d]
  /\ Goto(t, "spinTimeout")
  /\ UNCHANGED <<state, lock, tlock, bq, tq, where, timed, timedOut, idx,
                 victim, timer>>

AcquireTimeoutLock(t) ==
  /\ pc[t] = "spinTimeout"
  /\ tlock = None
  /\ tlock' = t
  /\ Goto(t, "held2")
  /\ UNCHANGED <<state, lock, bq, tq, info, walk, victim, timer>>

\* The rest of TimeoutBlockingInfo::suspend.
TimedBlock(t) ==
  /\ pc[t] = "held2"
  /\ Drop(LockOf[cur[t]])
  /\ tlock' = None
  /\ \/ MayBlock(t) /\ Suspend(t, cur[t], TRUE, deadline[t])
     \/ /\ ~MayBlock(t) /\ Goto(t, "run")
        /\ deadline' = [deadline EXCEPT ![t] = 0]
        /\ UNCHANGED <<state, bq, tq, where, timed, timedOut>>
  /\ cur' = [cur EXCEPT ![t] = None]
  /\ UNCHANGED <<idx, victim, timer>>

\* Timeout::sleep / TimeoutInfo::suspend.
Sleep(t, d) ==
  /\ pc[t] = "run"
  /\ tlock = None
  /\ MayBlock(t)
  /\ Suspend(t, None, TRUE, d)
  /\ UNCHANGED <<lock, tlock, walk, victim, timer>>

-----------------------------------------------------------------------------
(* BlockingQueue::resume: walk the queue, wake the first thread won. *)

\* Mutant: the walk starts at the fence in front of the first entry.
StartResume_AtFence(t, q) ==
  /\ pc[t] = "held"
  /\ lock[LockOf[q]] = t
  /\ cur' = [cur EXCEPT ![t] = q]
  /\ idx' = [idx EXCEPT ![t] = 0]
  /\ Goto(t, "walk")
  /\ UNCHANGED <<state, lock, tlock, bq, tq, info, victim, timer>>

StartResume(t, q) ==
  /\ pc[t] = "held"
  /\ lock[LockOf[q]] = t
  /\ cur' = [cur EXCEPT ![t] = q]
  /\ idx' = [idx EXCEPT ![t] = 1]
  /\ Goto(t, "walk")
  /\ UNCHANGED <<state, lock, tlock, bq, tq, info, victim, timer>>

\* One iteration: Thread::unblock is a compare-and-swap Blocked -> Running.
\* Success removes the thread from the queue and releases bLock; failure (the
\* timer or a canceller was faster) moves on to the next entry.
TryUnblock(t) ==
  LET q == cur[t]
      w == bq[q][idx[t]]
  IN /\ pc[t] = "walk"
     /\ idx[t] <= Len(bq[q])
     /\ \/ /\ state[w] = "Blocked"
           /\ state' = [state EXCEPT ![w] = "Running"]
           /\ bq' = [bq EXCEPT ![q] = Unlink(@, w)]
           /\ victim' = [victim EXCEPT ![t] = w]
           /\ Drop(LockOf[q])
           /\ Goto(t, IF timed[w] THEN "cancelTimeout" ELSE "resume")
           /\ cur' = [cur EXCEPT ![t] = None]
           /\ idx' = [idx EXCEPT ![t] = 0]
        \/ /\ state[w] # "Blocked"
           /\ idx' = [idx EXCEPT ![t] = @ + 1]
           /\ UNCHANGED <<state, bq, victim, lock, pc, cur>>
     /\ UNCHANGED <<tlock, tq, info, timer>>

\* The walk reaches the fence: resume() returns false with bLock still held.
ResumeMisses(t) ==
  /\ pc[t] = "walk"
  /\ idx[t] > Len(bq[cur[t]])
  /\ cur' = [cur EXCEPT ![t] = None]
  /\ idx' = [idx EXCEPT ![t] = 0]
  /\ Goto(t, "missed")
  /\ UNCHANGED <<state, lock, tlock, bq, tq, info, victim, timer>>

\* Mutant: the entry stays in Timeout::queue.
CancelTimeout_KeepsEntry(t, here, next) ==
  /\ pc[t] = here
  /\ tlock = None
  /\ Goto(t, next)
  /\ UNCHANGED <<state, lock, tlock, bq, tq, info, walk, victim, timer>>

\* UnblockInfo::cancelTimeout for the thread just won, by a waker ("resume"
\* follows) or by a canceller ("xCancelBlocking" follows).
CancelTimeout(t, here, next) ==
  /\ pc[t] = here
  /\ tlock = None
  /\ tq' = tq \ {victim[t]}
  /\ Goto(t, next)
  /\ UNCHANGED <<state, lock, tlock, bq, info, walk, victim, timer>>

\* Scheduler::resume: the thread goes to a ready queue.
Wake(a, here, next) ==
  /\ pc[a] = here
  /\ pc' = [pc EXCEPT ![a] = next, ![victim[a]] = "ready"]
  /\ victim' = [victim EXCEPT ![a] = None]
  /\ UNCHANGED <<state, lock, tlock, bq, tq, info, walk, timer>>

-----------------------------------------------------------------------------
(* Thread::cancel, called by Process::exit with threadLock held. *)

AfterTimeout(w) == IF where[w] = None THEN "xResume" ELSE "xCancelBlocking"

\* The exchange of the state word.  Only a thread found Blocked has to be
\* taken off its queues and resumed.
Cancel(c, w) ==
  /\ c \in Exiting /\ pc[c] = "held" /\ lock[ThreadLock] = c
  /\ w # c /\ pc[w] # "dead"
  /\ state' = [state EXCEPT ![w] = "Cancelled"]
  /\ \/ /\ state[w] = "Blocked"
        /\ victim' = [victim EXCEPT ![c] = w]
        /\ Goto(c, IF timed[w] THEN "xCancelTimeout" ELSE AfterTimeout(w))
     \/ /\ state[w] # "Blocked"
        /\ UNCHANGED <<victim, pc>>
  /\ UNCHANGED <<lock, tlock, bq, tq, info, walk, timer>>

\* Process::exit as far as it concerns other threads: take threadLock, cancel
\* threads, drop it.
ExitStep(t) ==
  \/ t \in Exiting /\ Acquire(t, ThreadLock)
  \/ \E w \in Threads : Cancel(t, w)
  \/ Release(t, ThreadLock)

\* BlockingInfo::cancelBlocking, by a canceller or by the timer.
CancelBlocking(a) ==
  LET w == victim[a]
      q == where[w]
  IN /\ pc[a] = "xCancelBlocking"
     /\ lock[LockOf[q]] = None
     /\ timedOut' = [timedOut EXCEPT ![w] = TRUE]
     /\ bq' = [bq EXCEPT ![q] = Unlink(@, w)]
     /\ Goto(a, "xResume")
     /\ UNCHANGED <<state, lock, tlock, tq, deadline, where, timed, walk,
                    victim, timer>>

-----------------------------------------------------------------------------
(* The clock and the RTC interrupt (Timeout::checkExpiry). *)

Tick ==
  /\ now < MaxTime
  /\ now' = now + 1
  /\ UNCHANGED <<state, pc, lock, tlock, bq, tq, info, walk, victim, scan, fire>>

\* Mutant: entries expire one tick early.
ExpiryStart_Early ==
  /\ pc[Timer] = "run"
  /\ tlock = None
  /\ tlock' = Timer
  /\ scan' = {t \in tq : deadline[t] <= now + 1}
  /\ Goto(Timer, "scan")
  /\ UNCHANGED <<state, lock, bq, tq, info, walk, victim, now, fire>>

\* lock.acquire(); the loop visits the entries with key <= now in key order.
ExpiryStart ==
  /\ pc[Timer] = "run"
  /\ tlock = None
  /\ tlock' = Timer
  /\ scan' = {t \in tq : deadline[t] <= now}
  /\ Goto(Timer, "scan")
  /\ UNCHANGED <<state, lock, bq, tq, info, walk, victim, now, fire>>

\* Mutant: the timer takes the thread without looking at its state.
ExpiryVisit_NoCAS(w) ==
  /\ pc[Timer] = "scan"
  /\ w \in scan
  /\ \A x \in scan : deadline[w] <= deadline[x]
  /\ scan' = scan \ {w}
  /\ state' = [state EXCEPT ![w] = "Running"]
  /\ tq' = tq \ {w}
  /\ fire' = fire \cup {w}
  /\ UNCHANGED <<pc, lock, tlock, bq, info, walk, victim, now>>

ExpiryVisit(w) ==
  /\ pc[Timer] = "scan"
  /\ w \in scan
  /\ \A x \in scan : deadline[w] <= deadline[x]
  /\ scan' = scan \ {w}
  /\ \/ /\ state[w] = "Blocked"
        /\ state' = [state EXCEPT ![w] = "Running"]
        /\ tq' = tq \ {w}
        /\ fire' = fire \cup {w}
     \/ /\ state[w] # "Blocked"
        /\ UNCHANGED <<state, tq, fire>>
  /\ UNCHANGED <<pc, lock, tlock, bq, info, walk, victim, now>>

\* Mutant: Timeout::lock is held while the fired threads are unlinked.
ExpiryUnlock_Late ==
  /\ pc[Timer] = "scan"
  /\ scan = {}
  /\ tlock' = IF fire = {} THEN None ELSE Timer
  /\ Goto(Timer, "fire")
  /\ UNCHANGED <<state, lock, bq, tq, info, walk, victim, timer>>

ExpiryUnlock ==
  /\ pc[Timer] = "scan"
  /\ scan = {}
  /\ tlock' = None
  /\ Goto(Timer, "fire")
  /\ UNCHANGED <<state, lock, bq, tq, info, walk, victim, timer>>

\* Next element of fireList; a sleeping thread has no cancelBlocking to do.
ExpiryFire(w) ==
  /\ pc[Timer] = "fire"
  /\ w \in fire
  /\ fire' = fire \ {w}
  /\ victim' = [victim EXCEPT ![Timer] = w]
  /\ Goto(Timer, AfterTimeout(w))
  /\ UNCHANGED <<state, lock, tlock, bq, tq, info, walk, now, scan>>

\* Mutant: the loop over fireList may stop before its end.
ExpiryDone_Short ==
  /\ pc[Timer] = "fire"
  /\ Goto(Timer, "run")
  /\ fire' = {}
  /\ UNCHANGED <<state, lock, tlock, bq, tq, info, walk, victim, now, scan>>

ExpiryDone ==
  /\ pc[Timer] = "fire"
  /\ fire = {}
  /\ Goto(Timer, "run")
  /\ UNCHANGED <<state, lock, tlock, bq, tq, info, walk, victim, timer>>

-----------------------------------------------------------------------------
(* The scheduler, as far as it decides what becomes of a thread. *)

\* A ready thread is switched to.  It returns from suspend() unless it finds
\* itself cancelled (end of Scheduler::switchThread); its UnblockInfo, a local
\* variable of the suspending function, is gone either way.
Dispatch(t) ==
  /\ pc[t] = "ready"
  /\ \/ /\ state[t] = "Cancelled"
        /\ state' = [state EXCEPT ![t] = "Finishing"]
        /\ Goto(t, "dead")
     \/ /\ state[t] # "Cancelled"
        /\ Goto(t, "run")
        /\ UNCHANGED state
  /\ where' = [where EXCEPT ![t] = None]
  /\ timed' = [timed EXCEPT ![t] = FALSE]
  /\ deadline' = [deadline EXCEPT ![t] = 0]
  /\ timedOut' = [timedOut EXCEPT ![t] = FALSE]
  /\ UNCHANGED <<lock, tlock, bq, tq, walk, victim, timer>>

\* A cancelled thread finishes when it is switched back in after a preemption,
\* which can happen wherever it holds no spinlock.
Preemptible == {"run", "cancelTimeout", "resume"}

FinishCancelled(t) ==
  /\ state[t] = "Cancelled"
  /\ pc[t] \in Preemptible
  /\ state' = [state EXCEPT ![t] = "Finishing"]
  /\ Goto(t, "dead")
  /\ UNCHANGED <<lock, tlock, bq, tq, info, walk, victim, timer>>

\* Scheduler::terminate.
Terminate(t) ==
  /\ pc[t] = "run"
  /\ state' = [state EXCEPT ![t] = "Finishing"]
  /\ Goto(t, "dead")
  /\ UNCHANGED <<lock, tlock, bq, tq, info, walk, victim, timer>>

-----------------------------------------------------------------------------
\* Steps a thread takes by itself once a client call has started them.
ThreadStep(t) ==
  \/ AcquireTimeoutLock(t)
  \/ TimedBlock(t)
  \/ TryUnblock(t)
  \/ ResumeMisses(t)
  \/ CancelTimeout(t, "cancelTimeout", "resume")
  \/ Wake(t, "resume", "run")
  \/ CancelTimeout(t, "xCancelTimeout", AfterTimeout(victim[t]))
  \/ CancelBlocking(t)
  \/ Wake(t, "xResume", "held")

TimerStep ==
  \/ ExpiryStart
  \/ \E w \in Threads : ExpiryVisit(w) \/ ExpiryFire(w)
  \/ ExpiryUnlock
  \/ ExpiryDone
  \/ CancelBlocking(Timer)
  \/ Wake(Timer, "xResume", "fire")

\* What a client may do: enter a critical section; inside it, leave, block or
\* resume somebody; outside it, sleep or terminate.
CriticalSection(t) ==
  \/ \E l \in Locks : Release(t, l)
  \/ \E q \in Queues : Block(t, q) \/ StartResume(t, q)
  \/ \E q \in Queues, d \in 1..MaxTime : StartTimedBlock(t, q, d)
  \/ \E w \in Threads : Cancel(t, w)

ClientStep(t) ==
  \/ \E l \in Locks : Acquire(t, l)
  \/ CriticalSection(t)
  \/ \E d \in 1..MaxTime : Sleep(t, d)
  \/ Terminate(t)

SchedStep(t) == Dispatch(t) \/ FinishCancelled(t)

BSNext ==
  \/ \E t \in Threads : ThreadStep(t) \/ ClientStep(t) \/ SchedStep(t)
  \/ Tick
  \/ TimerStep

BSSpec == BSInit /\ [][BSNext]_bsvars

(***************************************************************************)
(* Fairness, for the clients that state it.  Every processor keeps         *)
(* executing, critical sections are left, ready threads are dispatched     *)
(* (the ready queues are FIFO) and the clock and RTC interrupts keep       *)
(* coming: weak fairness.  The steps that spin for a lock other actors     *)
(* take again and again get strong fairness: a processor in                *)
(* BinaryLock::acquire tests the lock continuously, and is assumed to get  *)
(* hold of it eventually if it is free infinitely often (the lock itself   *)
(* keeps no order).                                                        *)
(***************************************************************************)
Spinning(a) ==
  \/ AcquireTimeoutLock(a)
  \/ CancelTimeout(a, "cancelTimeout", "resume")
  \/ CancelTimeout(a, "xCancelTimeout", AfterTimeout(victim[a]))
  \/ CancelBlocking(a)

-----------------------------------------------------------------------------
(* Properties. *)

\* Types of the shared state and of what an actor keeps across its steps; a
\* walk over a queue starts behind the list's fence.
TypeOK ==
  /\ state \in [Threads -> ThreadState]
  /\ pc \in [Actors -> ThreadPC \cup TimerPC]
  /\ pc[Timer] \in TimerPC
  /\ \A t \in Threads : pc[t] \in ThreadPC
  /\ lock \in [Locks -> Threads \cup {None}]
  /\ tlock \in Actors \cup {None}
  /\ bq \in [Queues -> Seq(Threads)]
  /\ tq \in SUBSET Threads
  /\ deadline \in [Threads -> Nat]
  /\ now \in Nat
  /\ where \in [Threads -> Queues \cup {None}]
  /\ timed \in [Threads -> BOOLEAN]
  /\ timedOut \in [Threads -> BOOLEAN]
  /\ cur \in [Threads -> Queues \cup {None}]
  /\ idx \in [Threads -> Nat]
  /\ \A t \in Threads : pc[t] = "walk" => idx[t] >= 1
  /\ \A t \in Threads : pc[t] \in {"spinTimeout", "held2", "walk"} => cur[t] \in Queues
  /\ victim \in [Actors -> Threads \cup {None}]
  /\ scan \in SUBSET Threads
  /\ fire \in SUBSET Threads

Claimed(w) == w \in fire \/ \E a \in Actors : victim[a] = w

\* However resume(), checkExpiry() and cancel() interleave, exactly one of them
\* wins a blocked thread's state word: a suspended thread that is no longer
\* Blocked is claimed by one actor, and nobody claims any other thread (a second
\* claim would enqueue the thread twice and use a dead UnblockInfo).
OneWaker ==
  \A w \in Threads :
    /\ Claimed(w) <=> pc[w] = "suspended" /\ state[w] # "Blocked"
    /\ \A a, b \in Actors : victim[a] = w /\ victim[b] = w => a = b
    /\ w \in fire => \A a \in Actors : victim[a] # w

\* A thread handed to Scheduler::resume is linked nowhere (EmbeddedList asserts
\* it on push_back), and a thread that runs or is ready never left an entry in
\* a BlockingQueue or in Timeout::queue: entries point to UnblockInfo objects
\* on the stack of a suspended thread, each at most once.
NoStaleLinks ==
  /\ \A a \in Actors : pc[a] \in {"resume", "xResume"} => ~Linked(victim[a])
  /\ \A t \in tq : pc[t] = "suspended" /\ timed[t]
  /\ \A q \in Queues :
       /\ IsInjective(bq[q])
       /\ \A t \in Range(bq[q]) : pc[t] = "suspended" /\ where[t] = q

\* A Blocked thread can be found by whoever should wake it: it is on its queue
\* and, if it gave a timeout, in Timeout::queue.
BlockedIsLinked ==
  \A t \in Threads : state[t] = "Blocked" =>
    /\ pc[t] = "suspended"
    /\ where[t] # None => OnQueue(where[t], t)
    /\ timed[t] => t \in tq
    /\ where[t] # None \/ timed[t]

\* The actor an actor spins for, None if it does not spin.
Blocker(a) ==
  IF pc[a] \in {"spinTimeout", "cancelTimeout", "xCancelTimeout"} THEN tlock
  ELSE IF pc[a] = "xCancelBlocking" THEN lock[LockOf[where[victim[a]]]]
  ELSE None

\* No set of processors spins on locks held within the set: bLock is taken
\* before Timeout::lock, and checkExpiry drops Timeout::lock before it takes
\* any bLock.
NoDeadlyEmbrace ==
  ~ \E S \in (SUBSET Actors) \ {{}} : \A a \in S : Blocker(a) \in S

\* A wait reported as timed out, to a thread that was not cancelled, lasted at
\* least until its deadline.
NoEarlyTimeout ==
  \A t \in Threads :
    timedOut[t] /\ state[t] # "Cancelled" => timed[t] /\ deadline[t] <= now

\* A thread suspended with a timeout (usleep, a timed P, recv or acquire) is
\* eventually made ready, whatever races for it, if the process does not exit.
TimedWaitEnds ==
  \A t \in Threads :
    pc[t] = "suspended" /\ timed[t] ~> pc[t] = "ready"
=============================================================================
