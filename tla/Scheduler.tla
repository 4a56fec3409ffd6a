------------------------------ MODULE Scheduler -----------------------------
(***************************************************************************)
(* The scheduler (runtime/Scheduler.cc with RuntimeImpl.h and the IPI      *)
(* handlers of machine/Machine.cc): per processor, ready queues by         *)
(* priority class, a running thread and an idle thread that halts the      *)
(* processor.  Threads suspend, resume each other, yield, terminate, are   *)
(* preempted, cancelled and moved to the partner processor.                *)
(*                                                                         *)
(* switchThread is split where other processors can see the difference:    *)
(*   "pick"     the next thread is taken from a ready queue, the current   *)
(*              thread's nextScheduler is set and its bLock released;      *)
(*   "switch"   stackSwitch saves the old stack pointer; postSwitch puts a *)
(*              preempted thread on a ready queue;                         *)
(*   "post"     postResume looks at the old thread's state ...             *)
(*   "destroy"  ... and destroys it if it has finished;                    *)
(*   "run"      the new thread returns from its own, older switchThread.   *)
(* Interrupts are enabled at "thread" only.                                *)
(***************************************************************************)
EXTENDS Naturals, Sequences, FiniteSets, Functions

CONSTANTS CPUs,
          Threads,   \* threads other than the idle threads
          IdleOf,    \* IdleOf[c]: the idle thread created by c's Scheduler
          Partner,   \* Scheduler::partner
          Home,      \* the processor a thread is started on
          Pinned,    \* threads with setAffinity(Home)
          Priority,  \* topPriority or defPriority
          Migrate,   \* ~TESTING_NEVER_MIGRATE
          Ops,       \* Ops[t]: which operations t performs (cancel: undergoes)
          None

Idlers == {IdleOf[c] : c \in CPUs}
All == Threads \cup Idlers

idlePriority == 2
maxPriority == 3
Class(t) == IF t \in Idlers THEN idlePriority ELSE Priority[t]

ASSUME SchedulerAssumption ==
  /\ IsFiniteSet(CPUs) /\ IsFiniteSet(Threads)
  /\ IdleOf \in [CPUs -> Idlers] /\ Idlers \cap Threads = {}
  /\ \A c, d \in CPUs : IdleOf[c] = IdleOf[d] => c = d
  /\ Partner \in [CPUs -> CPUs]
  /\ Home \in [Threads -> CPUs]
  /\ Pinned \subseteq Threads
  /\ Priority \in [Threads -> 0..idlePriority - 1]
  /\ Migrate \in BOOLEAN
  /\ Ops \in [Threads -> SUBSET {"suspend", "yield", "terminate", "cancel"}]
  /\ None \notin CPUs \cup All

VARIABLES curr,        \* Processor::currThread
          cpc,         \* control point of each processor
          this,        \* the Scheduler object switchThread runs on
          target,      \* its argument (None: nullptr)
          prev,        \* the thread being switched away from
          ready,       \* readyQueue[]
          readyCount,
          resumed,     \* resumption # halt, as the idle loop compares them
          ipc,         \* position in the idle loop
          ipi,         \* WakeIPI or PreemptIPI pending
          state,       \* Thread::state; Freed: destroyed
          next,        \* Thread::nextScheduler
          frame,       \* "this" of the switchThread call a thread is inside of
          saved,       \* the thread's stack pointer is saved, nobody runs on it
          fresh,       \* threads that have not run yet
          pend,        \* yield() or terminate() about to run on a Scheduler*
          owe          \* wakeUp() a thread has still to call for a processor

cpuvars == <<curr, cpc, this, target, prev>>
queues == <<ready, readyCount>>
idle == <<resumed, ipc>>
threadvars == <<state, next, frame, saved, fresh, pend, owe>>
vars == <<cpuvars, queues, idle, ipi, threadvars>>

NoCall == [op |-> "none", on |-> None]

StartQueue(c, p) ==
  LET started == {t \in Threads : Home[t] = c /\ Priority[t] = p}
  IN CHOOSE q \in Bijection(1..Cardinality(started), started) : TRUE

\* Every processor runs its idle thread, the threads have just been started.
SInit ==
  /\ curr = IdleOf
  /\ cpc = [c \in CPUs |-> "thread"]
  /\ this = [c \in CPUs |-> c]
  /\ target = [c \in CPUs |-> None]
  /\ prev = [c \in CPUs |-> None]
  /\ ready = [c \in CPUs |-> [p \in 0..idlePriority |->
                IF p = idlePriority THEN <<>> ELSE StartQueue(c, p)]]
  /\ readyCount = [c \in CPUs |-> Len(ready[c][0]) + Len(ready[c][1])]
  /\ resumed = [c \in CPUs |-> FALSE]
  /\ ipc = [c \in CPUs |-> "spin"]
  /\ ipi = [c \in CPUs |-> FALSE]
  /\ state = [t \in All |-> "Running"]
  /\ next = [t \in All |-> IF t \in Threads THEN Home[t]
                           ELSE CHOOSE c \in CPUs : IdleOf[c] = t]
  /\ frame = [t \in All |-> None]
  /\ saved = [t \in All |-> t \in Threads]
  /\ fresh = Threads
  /\ pend = [t \in All |-> NoCall]
  /\ owe = [t \in All |-> None]

-----------------------------------------------------------------------------
\* A thread that executes its own code on c, interrupts enabled.
Executes(c, t) == cpc[c] = "thread" /\ curr[c] = t
Free(c, t) == Executes(c, t) /\ t \in Threads /\ pend[t] = NoCall /\ owe[t] = None

\* switchThread is called on Scheduler s by the thread that runs on c.
CallSwitch(c, s, tgt) ==
  /\ cpc' = [cpc EXCEPT ![c] = "pick"]
  /\ this' = [this EXCEPT ![c] = s]
  /\ target' = [target EXCEPT ![c] = tgt]
  /\ UNCHANGED <<curr, prev>>

\* Scheduler::enqueue, without the wake-up.
Enqueue(c, t) ==
  /\ ready' = [ready EXCEPT ![c][Class(t)] = Append(@, t)]
  /\ readyCount' = [readyCount EXCEPT ![c] = @ + 1]

\* Mutant: the idle thread is thought to be queued.
WakeNeeded_One(c) == readyCount[c] = 1

WakeNeeded(c) == readyCount[c] = 0

\* Scheduler::preempt on s: the target processor.
PreemptTarget(t, s) ==
  IF ~Migrate THEN s
  ELSE IF t \in Pinned \cup Idlers THEN next[t]
  ELSE IF readyCount[Partner[s]] + 2 < readyCount[s] THEN Partner[s] ELSE s

-----------------------------------------------------------------------------
(* What threads and interrupts do. *)

\* Scheduler::suspend, after Thread::block succeeded; bLock is held.
Suspend(c) ==
  LET t == curr[c] IN
  /\ Free(c, t) /\ "suspend" \in Ops[t] /\ state[t] = "Running"
  /\ state' = [state EXCEPT ![t] = "Blocked"]
  /\ CallSwitch(c, c, None)
  /\ UNCHANGED <<queues, idle, ipi, next, frame, saved, fresh, pend, owe>>

\* A blocked thread can be woken once its bLock has been released.
Wakeable(t) ==
  /\ state[t] = "Blocked"
  /\ \A c \in CPUs : ~(curr[c] = t /\ cpc[c] = "pick")

\* Scheduler::resume from a thread: enqueue, then wakeUp outside the lock.
Resume(c, t) ==
  LET u == curr[c] IN
  /\ Free(c, u) /\ Wakeable(t)
  /\ state' = [state EXCEPT ![t] = "Running"]
  /\ Enqueue(next[t], t)
  /\ owe' = [owe EXCEPT ![u] = IF WakeNeeded(next[t]) THEN next[t] ELSE None]
  /\ UNCHANGED <<cpuvars, idle, ipi, next, frame, saved, fresh, pend>>

WakeUp(c) ==
  LET t == curr[c] IN
  /\ Executes(c, t) /\ owe[t] # None
  /\ ipi' = [ipi EXCEPT ![owe[t]] = TRUE]
  /\ owe' = [owe EXCEPT ![t] = None]
  /\ UNCHANGED <<cpuvars, queues, idle, state, next, frame, saved, fresh, pend>>

\* Scheduler::resume from an interrupt handler (checkExpiry, V) on c.
InterruptResume(c, t) ==
  /\ cpc[c] = "thread" /\ Wakeable(t)
  /\ state' = [state EXCEPT ![t] = "Running"]
  /\ Enqueue(next[t], t)
  /\ ipi' = [ipi EXCEPT ![next[t]] = @ \/ WakeNeeded(next[t])]
  /\ UNCHANGED <<cpuvars, idle, next, frame, saved, fresh, pend, owe>>

\* Thread::cancel.
Cancel(c, t) ==
  LET u == curr[c] IN
  /\ Free(c, u) /\ t # u /\ "cancel" \in Ops[t]
  /\ state' = [state EXCEPT ![t] = "Cancelled"]
  /\ \/ /\ Wakeable(t)
        /\ Enqueue(next[t], t)
        /\ owe' = [owe EXCEPT ![u] = IF WakeNeeded(next[t]) THEN next[t] ELSE None]
     \/ state[t] = "Running" /\ UNCHANGED <<queues, owe>>
  /\ UNCHANGED <<cpuvars, idle, ipi, next, frame, saved, fresh, pend>>

\* LocalProcessor::getScheduler() is read with interrupts enabled ...
ReadScheduler(c, op) ==
  LET t == curr[c] IN
  /\ Free(c, t) /\ op \in Ops[t]
  /\ pend' = [pend EXCEPT ![t] = [op |-> op, on |-> c]]
  /\ UNCHANGED <<cpuvars, queues, idle, ipi, state, next, frame, saved, fresh, owe>>

\* ... and used after RealLock has disabled them.
Yield(c) ==
  LET t == curr[c] IN
  /\ Executes(c, t) /\ pend[t].op = "yield"
  /\ CallSwitch(c, pend[t].on, PreemptTarget(t, pend[t].on))
  /\ pend' = [pend EXCEPT ![t] = NoCall]
  /\ UNCHANGED <<queues, idle, ipi, state, next, frame, saved, fresh, owe>>

Terminate(c) ==
  LET t == curr[c] IN
  /\ Executes(c, t) /\ pend[t].op = "terminate"
  /\ state' = [state EXCEPT ![t] = "Finishing"]
  /\ CallSwitch(c, pend[t].on, None)
  /\ pend' = [pend EXCEPT ![t] = NoCall]
  /\ UNCHANGED <<queues, idle, ipi, next, frame, saved, fresh, owe>>

\* The RTC handler's rrPreemptIPI.
PreemptIPI(c) ==
  /\ ~ipi[c]
  /\ ipi' = [ipi EXCEPT ![c] = TRUE]
  /\ UNCHANGED <<cpuvars, queues, idle, threadvars>>

\* Handlers of WakeIPI and PreemptIPI.  An interrupt that ends a hlt resumes
\* the idle loop behind it; one that came just before does not.
Interrupt(c) ==
  /\ cpc[c] = "thread" /\ ipi[c]
  /\ ipi' = [ipi EXCEPT ![c] = FALSE]
  /\ CallSwitch(c, c, PreemptTarget(curr[c], c))
  /\ \/ UNCHANGED ipc
     \/ curr[c] = IdleOf[c] /\ ipc[c] = "halt" /\ ipc' = [ipc EXCEPT ![c] = "test"]
  /\ UNCHANGED <<queues, resumed, threadvars>>

-----------------------------------------------------------------------------
(* Scheduler::switchThread. *)

Candidates(s, limit) == {p \in 0..limit - 1 : ready[s][p] # <<>>}

\* Mutant: a thread is preempted only in favour of a better class.
Limit_Better(c) == IF target[c] = this[c] THEN Class(curr[c]) ELSE maxPriority

Limit(c) == IF target[c] = this[c] THEN idlePriority ELSE maxPriority

\* No other thread: return to the current one.
PickNone(c) ==
  /\ cpc[c] = "pick"
  /\ Candidates(this[c], Limit(c)) = {}
  /\ target[c] # None
  /\ cpc' = [cpc EXCEPT ![c] = "thread"]
  /\ target' = [target EXCEPT ![c] = None]
  /\ UNCHANGED <<curr, this, prev, queues, idle, ipi, threadvars>>

\* Mutant: a suspending thread keeps its old nextScheduler, the partner's say.
Pick_OtherScheduler(c) ==
  LET s == this[c]
      P == Candidates(s, Limit(c))
      p == CHOOSE i \in P : \A j \in P : i <= j
  IN
  /\ cpc[c] = "pick" /\ P # {}
  /\ ready' = [ready EXCEPT ![s][p] = Tail(@)]
  /\ readyCount' = [readyCount EXCEPT ![s] = @ - 1]
  /\ resumed' = [resumed EXCEPT ![s] = TRUE]
  /\ next' = [next EXCEPT ![curr[c]] = IF target[c] # None THEN target[c] ELSE Partner[s]]
  /\ frame' = [frame EXCEPT ![curr[c]] = s]
  /\ prev' = [prev EXCEPT ![c] = curr[c]]
  /\ curr' = [curr EXCEPT ![c] = Head(ready[s][p])]
  /\ cpc' = [cpc EXCEPT ![c] = "switch"]
  /\ UNCHANGED <<this, target, ipc, ipi, state, saved, fresh, pend, owe>>

\* The first thread of the best non-empty class; then nextScheduler is set,
\* the bLocks are released and currThread changes.
Pick(c) ==
  LET s == this[c]
      P == Candidates(s, Limit(c))
      p == CHOOSE i \in P : \A j \in P : i <= j
  IN
  /\ cpc[c] = "pick" /\ P # {}
  /\ ready' = [ready EXCEPT ![s][p] = Tail(@)]
  /\ readyCount' = [readyCount EXCEPT ![s] = @ - 1]
  /\ resumed' = [resumed EXCEPT ![s] = TRUE]
  /\ next' = [next EXCEPT ![curr[c]] = IF target[c] # None THEN target[c] ELSE s]
  /\ frame' = [frame EXCEPT ![curr[c]] = s]
  /\ prev' = [prev EXCEPT ![c] = curr[c]]
  /\ curr' = [curr EXCEPT ![c] = Head(ready[s][p])]
  /\ cpc' = [cpc EXCEPT ![c] = "switch"]
  /\ UNCHANGED <<this, target, ipc, ipi, state, saved, fresh, pend, owe>>

\* Mutant: postSwitch enqueues whatever thread it comes from.
Switch_AlwaysEnqueues(c) ==
  LET t == prev[c] IN
  /\ cpc[c] = "switch"
  /\ saved' = [saved EXCEPT ![t] = TRUE, ![curr[c]] = FALSE]
  /\ Enqueue(next[t], t)
  /\ ipi' = [ipi EXCEPT ![next[t]] = @ \/ WakeNeeded(next[t])]
  /\ cpc' = [cpc EXCEPT ![c] = "post"]
  /\ UNCHANGED <<curr, this, target, prev, idle, state, next, frame, fresh, pend, owe>>

\* stackSwitch and postSwitch, which resumes a preempted thread.
Switch(c) ==
  LET t == prev[c] IN
  /\ cpc[c] = "switch"
  /\ saved' = [saved EXCEPT ![t] = TRUE, ![curr[c]] = FALSE]
  /\ \/ target[c] = None /\ UNCHANGED <<queues, ipi>>
     \/ /\ target[c] # None
        /\ Enqueue(next[t], t)
        /\ ipi' = [ipi EXCEPT ![next[t]] = @ \/ WakeNeeded(next[t])]
  /\ cpc' = [cpc EXCEPT ![c] = "post"]
  /\ UNCHANGED <<curr, this, target, prev, idle, state, next, frame, fresh, pend, owe>>

\* postResume: is the old thread finished?
PostResume(c) ==
  /\ cpc[c] = "post"
  /\ cpc' = [cpc EXCEPT ![c] = IF state[prev[c]] = "Finishing" THEN "destroy" ELSE "run"]
  /\ UNCHANGED <<curr, this, target, prev, queues, idle, ipi, threadvars>>

\* Thread::destroy.
Destroy(c) ==
  /\ cpc[c] = "destroy"
  /\ state' = [state EXCEPT ![prev[c]] = "Freed"]
  /\ cpc' = [cpc EXCEPT ![c] = "run"]
  /\ UNCHANGED <<curr, this, target, prev, queues, idle, ipi, next, frame, saved,
                 fresh, pend, owe>>

\* The new thread starts (invokeThread) or returns from its own switchThread,
\* where it finds out that it has been cancelled: it leaves on the Scheduler
\* object of that older call.
Return(c) ==
  LET t == curr[c] IN
  /\ cpc[c] = "run"
  /\ prev' = [prev EXCEPT ![c] = None]
  /\ fresh' = fresh \ {t}
  /\ frame' = [frame EXCEPT ![t] = None]
  /\ target' = [target EXCEPT ![c] = None]
  /\ IF t \notin fresh /\ state[t] = "Cancelled"
     THEN /\ state' = [state EXCEPT ![t] = "Finishing"]
          /\ cpc' = [cpc EXCEPT ![c] = "pick"]
          /\ this' = [this EXCEPT ![c] = frame[t]]
          /\ pend' = [pend EXCEPT ![t] = NoCall]
          /\ owe' = [owe EXCEPT ![t] = None]
     ELSE /\ cpc' = [cpc EXCEPT ![c] = "thread"]
          /\ this' = [this EXCEPT ![c] = c]
          /\ UNCHANGED <<state, pend, owe>>
  /\ UNCHANGED <<curr, queues, idle, ipi, next, saved>>

-----------------------------------------------------------------------------
(* Runtime::idleLoop, run by the idle thread of s on processor c. *)

\* The spin loop ends when readyCount is seen or after three preemptions; then
\* halt = resumption.
IdleSpin(c, s) ==
  /\ Executes(c, IdleOf[s]) /\ ipc[s] = "spin"
  /\ resumed' = [resumed EXCEPT ![s] = FALSE]
  /\ ipc' = [ipc EXCEPT ![s] = "try"]
  /\ UNCHANGED <<cpuvars, queues, ipi, threadvars>>

IdlePreempt(c, s) ==
  /\ Executes(c, IdleOf[s]) /\ ipc[s] = "try"
  /\ CallSwitch(c, s, PreemptTarget(IdleOf[s], s))
  /\ ipc' = [ipc EXCEPT ![s] = "test"]
  /\ UNCHANGED <<queues, resumed, ipi, threadvars>>

IdleTest(c, s) ==
  /\ Executes(c, IdleOf[s]) /\ ipc[s] = "test"
  /\ ipc' = [ipc EXCEPT ![s] = IF resumed[s] THEN "spin" ELSE "halt"]
  /\ UNCHANGED <<cpuvars, queues, resumed, ipi, threadvars>>

-----------------------------------------------------------------------------
SwitchStep(c) ==
  PickNone(c) \/ Pick(c) \/ Switch(c) \/ PostResume(c) \/ Destroy(c) \/ Return(c)

IdleStep(c, s) == IdleSpin(c, s) \/ IdlePreempt(c, s) \/ IdleTest(c, s)

ThreadStep(c) ==
  \/ Suspend(c) \/ WakeUp(c) \/ Yield(c) \/ Terminate(c)
  \/ \E op \in {"yield", "terminate"} : ReadScheduler(c, op)
  \/ \E t \in Threads : Resume(c, t) \/ Cancel(c, t)

SNext ==
  \E c \in CPUs :
    \/ SwitchStep(c)
    \/ \E s \in CPUs : IdleStep(c, s)
    \/ ThreadStep(c)
    \/ PreemptIPI(c)
    \/ Interrupt(c)
    \/ \E t \in Threads : InterruptResume(c, t)

SSpec == SInit /\ [][SNext]_vars

-----------------------------------------------------------------------------
(* Properties. *)

ThreadState == {"Running", "Blocked", "Cancelled", "Finishing", "Freed"}

Queued(t, c) == t \in Range(ready[c][Class(t)])

\* The places where a thread is: running somewhere, on its way from there back
\* to a ready queue, or in one.
Places(t) ==
  {<<"runs", c>> : c \in {d \in CPUs : curr[d] = t}}
    \cup {<<"leaves", c>> : c \in {d \in CPUs : /\ prev[d] = t /\ cpc[d] = "switch"
                                               /\ target[d] # None}}
    \cup {<<"queued", c>> : c \in {d \in CPUs : Queued(t, d)}}

\* A thread is in one place at most, once per queue: however suspension,
\* wake-up, preemption and migration interleave, no thread is ready twice or
\* runs on two processors.
OnePlace ==
  \A t \in All :
    /\ Cardinality(Places(t)) <= 1
    /\ \A c \in CPUs : IsInjective(ready[c][Class(t)])
    /\ state[t] \in {"Running", "Cancelled"} => Cardinality(Places(t)) = 1

\* switchThread releases a suspending thread's bLock before its stack pointer
\* is saved ("thus can unlock now", Scheduler.cc:68-69); still no processor
\* switches to a stack that another one has not left yet.
StackIsSaved ==
  \A c \in CPUs : cpc[c] = "switch" => saved[curr[c]]

\* A suspending or terminating thread always finds a successor, since the idle
\* thread is queued whenever another thread runs: GENASSERT0(target) at
\* Scheduler.cc:57 holds.
SuccessorFound ==
  \A c \in CPUs :
    cpc[c] = "pick" /\ target[c] = None => Candidates(this[c], Limit(c)) # {}

\* No processor goes to sleep on a ready thread: when it halts with a thread
\* in its queues, the IPI is pending or a thread is about to send it, although
\* the idle loop looks at the queues, and enqueue() at readyCount, at times of
\* their own.  (A thread that is cancelled may take a wake-up it owes with it;
\* the next PreemptIPI makes up for it.)
NoSleepOnWork ==
  (\A t \in Threads : state[t] \in {"Running", "Blocked"}) =>
    \A c \in CPUs :
      Executes(c, IdleOf[c]) /\ ipc[c] = "halt" /\ readyCount[c] > 0 =>
        ipi[c] \/ \E t \in Threads : owe[t] = c

\* Thread::destroy asserts that the thread is Finishing (Thread.cc:40): no
\* thread is destroyed twice.
DestroyedOnce ==
  \A c \in CPUs : cpc[c] = "destroy" => state[prev[c]] = "Finishing"

\* A ready thread is dispatched if there is no thread of a better class: the
\* queues are first-in first-out, and preempt() gives the processor away.
ReadyIsDispatched ==
  \A t \in Threads, c \in CPUs : Queued(t, c) ~> curr[c] = t
=============================================================================
