--------------------------- MODULE ProcessProofs ---------------------------
(***************************************************************************)
(* The threads of a process, for any number of them: threadStore holds the *)
(* threads that live, a join obtains the value of the thread it has met,   *)
(* and no thread ends with another one at its wait condition.              *)
(***************************************************************************)
EXTENDS Process, BlockingSyncProofs

\* pop_front takes the first entry and moves the others up.
LEMMA SeqTail ==
  ASSUME NEW T, NEW q \in Seq(T), q # <<>>
  PROVE  /\ Head(q) \in T /\ Tail(q) \in Seq(T) /\ Len(Tail(q)) = Len(q) - 1
         /\ \A k \in 1..Len(Tail(q)) : Tail(q)[k] = q[k + 1]
OBVIOUS

\* A field of an array is replaced.
LEMMA SeqUpdate ==
  ASSUME NEW T, NEW q \in Seq(T), NEW n \in 1..Len(q), NEW e \in T
  PROVE  /\ [q EXCEPT ![n] = e] \in Seq(T) /\ Len([q EXCEPT ![n] = e]) = Len(q)
         /\ \A k \in 1..Len(q) : [q EXCEPT ![n] = e][k] = IF k = n THEN e ELSE q[k]
OBVIOUS

-----------------------------------------------------------------------------
(* threadStore. *)

Live(t) == Created(t) /\ t \notin freed

\* The fields of the store and the free stack agree with the indices that the
\* threads know; what has been tested by postResume never runs again.
StoreCore ==
  /\ store \in [data : Seq(Threads \cup {Hole}), free : Seq(Nat)]
  /\ slot \in [Threads -> Nat \cup {Hole}]
  /\ IsInjective(store.free)
  /\ \A k \in DOMAIN store.free : store.free[k] \in DOMAIN store.data /\ store.data[store.free[k]] = Hole
  /\ \A t \in Threads : Live(t) => slot[t] \in DOMAIN store.data /\ store.data[slot[t]] = t
  /\ \A i \in DOMAIN store.data, t \in Threads : store.data[i] = t => Live(t) /\ slot[t] = i
  /\ freed \subseteq tested /\ tested \subseteq Threads
  /\ \A t \in tested : Created(t) /\ pc[t] = "dead"

\* The process is deleted with its last thread.
StoreInv == StoreCore /\ (gone => \A t \in Threads : ~Live(t))

\* size() counts at least the fields that are in use: those that are not on the
\* free stack.
SizeCounts ==
  \A d \in Seq(Threads \cup {Hole}), f \in Seq(Nat) :
    (\A k, l \in DOMAIN f : f[k] = f[l] => k = l) /\ (\A k \in DOMAIN f : f[k] \in DOMAIN d /\ d[f[k]] = Hole) =>
      /\ \A i \in DOMAIN d : d[i] # Hole => Len(d) - Len(f) >= 1
      /\ \A i, j \in DOMAIN d : i # j /\ d[i] # Hole /\ d[j] # Hole => Len(d) - Len(f) >= 2

\* What the free stack and the fields look like.
LEMMA StoreShape ==
  ASSUME StoreCore
  PROVE  /\ store.data \in Seq(Threads \cup {Hole}) /\ store.free \in Seq(Nat)
         /\ Len(store.data) \in Nat /\ DOMAIN store.data = 1..Len(store.data)
         /\ Len(store.free) \in Nat /\ DOMAIN store.free = 1..Len(store.free)
         /\ store = [data |-> store.data, free |-> store.free]
<1>1. /\ store.data \in Seq(Threads \cup {Hole}) /\ store.free \in Seq(Nat)
      /\ store = [data |-> store.data, free |-> store.free]
  BY DEF StoreCore
<1>2. /\ Len(store.data) \in Nat /\ DOMAIN store.data = 1..Len(store.data)
      /\ Len(store.free) \in Nat /\ DOMAIN store.free = 1..Len(store.free)
  BY <1>1, SeqLength
<1> QED
  BY Zenon, <1>1, <1>2

\* What size() says of the threads that live.
LEMMA SizeShape ==
  ASSUME SizeCounts, StoreCore
  PROVE  \A t, u \in Threads : Live(t) /\ Live(u) /\ t # u => ArraySize(store) >= 2
<1>1. store.data \in Seq(Threads \cup {Hole}) /\ store.free \in Seq(Nat)
  BY Zenon, StoreShape
<1>2. /\ IsInjective(store.free)
      /\ \A k \in DOMAIN store.free : store.free[k] \in DOMAIN store.data /\ store.data[store.free[k]] = Hole
      /\ \A t \in Threads : Live(t) => slot[t] \in DOMAIN store.data /\ store.data[slot[t]] = t
  BY Zenon DEF StoreCore
<1>3. \A i, j \in DOMAIN store.data : i # j /\ store.data[i] # Hole /\ store.data[j] # Hole => ArraySize(store) >= 2
  BY Zenon, <1>1, <1>2 DEF ArraySize, SizeCounts, IsInjective
<1>4. SUFFICES ASSUME NEW t \in Threads, NEW u \in Threads, Live(t), Live(u), t # u
               PROVE  ArraySize(store) >= 2
  BY Zenon
<1>5. /\ slot[t] \in DOMAIN store.data /\ store.data[slot[t]] = t /\ t # Hole
      /\ slot[u] \in DOMAIN store.data /\ store.data[slot[u]] = u /\ u # Hole
  BY Zenon, <1>2, <1>4, ProcessAssumption
<1>6. slot[t] # slot[u]
  BY Zenon, <1>4, <1>5
<1> QED
  BY Zenon, <1>3, <1>5, <1>6

-----------------------------------------------------------------------------
(* Where the threads are. *)

\* No call of this module gives a timeout, so the timer has nothing to do.
Untimed ==
  /\ tq = {} /\ scan = {} /\ fire = {}
  /\ \A t \in Threads : ~timed[t]
  /\ pc[Timer] = "run" /\ victim[Timer] = None

\* The queue that the call of a thread blocks on or resumes.
Place(t) ==
  IF Doing(t, "exitThread") THEN WaitOf[t]
  ELSE IF Doing(t, "joining") THEN WaitOf[call[t].arg]
  ELSE Elsewhere

\* The control points of each call.
CallInv(t) ==
  /\ call[t].op \in {"none", "leave", "quit"} => pc[t] \in {"run", "dead"}
  /\ Doing(t, "exitThread") => pc[t] \in {"held", "walk", "missed", "resume", "suspended", "ready"}
  /\ Doing(t, "joinThread") => pc[t] = "held"
  /\ Doing(t, "joining") =>
       pc[t] \in {"walk", "missed", "resume", "suspended", "ready"} /\ call[t].arg \in Threads
  /\ Doing(t, "exit") => pc[t] \in {"held", "xCancelBlocking", "xResume"} /\ call[t].arg \in Nat
  /\ Doing(t, "P") => pc[t] \in {"held", "suspended", "ready"}
  /\ Doing(t, "V") => pc[t] \in {"held", "walk", "missed", "resume"}
  /\ pc[t] \in {"suspended", "ready"} => where[t] = Place(t)
  /\ pc[t] = "walk" => cur[t] = Place(t)
  /\ ~Created(t) => call[t] = Idle /\ pc[t] = "run"

\* A thread that is joined is marked, by one join; who waits at a wait condition
\* is the thread that result names; a join has its value before it is resumed.
JoinInv ==
  /\ \A t \in Threads : Doing(t, "joining") => joinState[call[t].arg] = "Joining"
  /\ \A t, u \in Threads :
       Doing(t, "joining") /\ Doing(u, "joining") /\ call[t].arg = call[u].arg => t = u
  /\ \A w \in Threads : \A x \in Range(bq[WaitOf[w]]) : result[w] = x
  /\ \A t \in Threads : Doing(t, "joining") /\ state[t] = "Running" => got[t] = call[t].arg
  /\ \A w \in Threads : Doing(w, "exitThread") /\ pc[w] = "walk" =>
       \A x \in Range(bq[WaitOf[w]]) : got[x] = w

\* exitThread has met the thread that joins.
Met(w) ==
  /\ Doing(w, "exitThread")
  /\ pc[w] \in {"resume", "ready"} \/ (pc[w] = "suspended" /\ state[w] # "Blocked")

Ending(w) == Doing(w, "leave") \/ pc[w] = "dead"

\* A thread that ends is joined or alone.
EndOf(w) ==
  /\ state[w] # "Cancelled" /\ (state[w] = "Finishing" => pc[w] = "dead")
  /\ pc[w] = "dead" => victim[w] = None
  /\ Doing(w, "exitThread") => pc[w] # "missed"
  /\ Doing(w, "exitThread") /\ pc[w] = "walk" => idx[w] = 1 /\ bq[WaitOf[w]] # <<>>
  /\ Met(w) => joinState[w] = "Joining" /\ bq[WaitOf[w]] = <<>>
  /\ Ending(w) =>
       /\ bq[WaitOf[w]] = <<>>
       /\ joinState[w] = "Joining" \/ \A u \in Threads : Live(u) => u = w

\* Nothing is known of the threads that exit() has cancelled.
EndInv == ~ExitCalled => \A w \in Threads : EndOf(w)

Ops == {"none", "leave", "quit", "exitThread", "joinThread", "joining", "exit", "P", "V"}

PTypeOK ==
  /\ joinState \in [Threads -> {"Regular", "Joining"}]
  /\ result \in [Threads -> Threads \cup {Hole}]
  /\ got \in [Threads -> Threads \cup {Hole}]
  /\ call \in [Threads -> [op : Ops, arg : Threads \cup Nat \cup {Hole}]]

PInv ==
  /\ IInv /\ LockInv /\ Untimed /\ PTypeOK /\ StoreInv
  /\ (\A t \in Threads : CallInv(t)) /\ JoinInv /\ EndInv

-----------------------------------------------------------------------------
(* The steps of the module as steps of the blocking machinery. *)

\* exit() overwrites the state of a thread that has terminated.
DeadCancel ==
  /\ \E w \in Threads : pc[w] = "dead" /\ state' = [state EXCEPT ![w] = "Cancelled"]
  /\ UNCHANGED <<pc, lock, tlock, bq, tq, info, walk, victim, timer>>

\* The steps of the blocking machinery that the calls of a process are made of.
UsedStep(t) ==
  \/ \E l \in Locks : Acquire(t, l) \/ Release(t, l)
  \/ \E q \in Queues : Block(t, q) \/ StartResume(t, q)
  \/ \E w \in Threads : Cancel(t, w)
  \/ TryUnblock(t) \/ ResumeMisses(t) \/ CancelBlocking(t)
  \/ Wake(t, "xResume", "held") \/ Wake(t, "resume", "run")
  \/ Dispatch(t) \/ FinishCancelled(t) \/ Terminate(t)

\* A valid entry of threadStore is a thread.
LEMMA ValidThread ==
  ASSUME StoreInv, NEW i, Valid(store, i)
  PROVE  store.data[i] \in Threads
<1>1. store.data \in Seq(Threads \cup {Hole})
  BY DEF StoreInv, StoreCore
<1> QED
  BY <1>1 DEF Valid

\* Every step of a thread is one of the blocking machinery, or leaves it alone,
\* or is the store of exit() to a dead thread's state.
LEMMA BlockingSteps ==
  ASSUME StoreInv, NEW t \in Threads, UserStep(t) \/ CallStep(t)
  PROVE  UNCHANGED bsvars \/ UsedStep(t) \/ DeadCancel
<1>1. /\ \A w \in Threads : WaitOf[w] \in Queues
      /\ Elsewhere \in Queues /\ ThreadLock \in Locks /\ LockOf[Elsewhere] \in Locks
  BY Zenon, ProcessAssumption, ConstantsAssumption
<1>2. \A l \in Locks : Acquire(t, l) \/ Release(t, l) => UsedStep(t)
  BY Zenon DEF UsedStep
<1>3. \A q \in Queues : Block(t, q) \/ StartResume(t, q) => UsedStep(t)
  BY Zenon DEF UsedStep
<1>4. \A w \in Threads : Cancel(t, w) => UsedStep(t)
  BY Zenon DEF UsedStep
<1>5. TryUnblock(t) \/ ResumeMisses(t) \/ CancelBlocking(t) \/ Wake(t, "xResume", "held") \/ Wake(t, "resume", "run")
        => UsedStep(t)
  BY Zenon DEF UsedStep
<1>6. Dispatch(t) \/ FinishCancelled(t) \/ Terminate(t) => UsedStep(t)
  BY Zenon DEF UsedStep
<1>7. CASE UserStep(t)
  <2>1. (\E w \in Threads : CreateThread(t, w)) => UNCHANGED bsvars
    BY Zenon DEF CreateThread
  <2>2. CallExitThread(t) \/ (\E i \in 1..Len(store.data) : CallJoin(t, i)) \/ CallExit(t) => Acquire(t, ThreadLock)
    BY Zenon DEF CallExitThread, CallJoin, CallExit
  <2>3. (\E op \in {"P", "V"} : CallElsewhere(t, op)) => Acquire(t, LockOf[Elsewhere])
    BY Zenon DEF CallElsewhere
  <2> QED
    BY Zenon, <1>1, <1>2, <1>7, <2>1, <2>2, <2>3 DEF UserStep
<1>8. CASE CallStep(t)
  <2>1. ExitLast(t) \/ JoinFails(t) \/ ExitDone(t) => Release(t, ThreadLock)
    BY Zenon DEF ExitLast, JoinFails, ExitDone
  <2>2. PostWaits(t) \/ PostSignals(t) => Block(t, WaitOf[t]) \/ StartResume(t, WaitOf[t])
    BY Zenon DEF PostWaits, PostSignals
  <2>3. JoinWaits(t) \/ JoinSignals(t) => \E w \in Threads : Block(t, WaitOf[w]) \/ StartResume(t, WaitOf[w])
    BY Zenon, ValidThread DEF JoinWaits, JoinSignals, Joinable
  <2>4. ExitCancels(t) => UNCHANGED bsvars \/ UsedStep(t) \/ DeadCancel
    BY Zenon, <1>4, ValidThread DEF ExitCancels, DeadCancel
  <2>5. BlockElsewhere(t) \/ ResumeElsewhere(t) => Block(t, Elsewhere) \/ StartResume(t, Elsewhere)
    BY Zenon DEF BlockElsewhere, ResumeElsewhere
  <2>6. Returns(t) => \/ Dispatch(t) \/ Wake(t, "resume", "run")
                      \/ Release(t, LockOf[Elsewhere]) \/ Release(t, ThreadLock)
    BY DEF Returns
  <2>7. Inside(t) => TryUnblock(t) \/ ResumeMisses(t) \/ CancelBlocking(t) \/ Wake(t, "xResume", "held")
    BY Zenon DEF Inside
  <2>8. Finishes(t) => Terminate(t) \/ FinishCancelled(t)
    BY Zenon DEF Finishes
  <2>9. PostResume(t) \/ DestroyThread(t) => UNCHANGED bsvars
    BY Zenon DEF PostResume, DestroyThread
  <2> QED
    BY Zenon, <1>1, <1>2, <1>3, <1>5, <1>6, <1>8, <2>1, <2>2, <2>3, <2>4, <2>5, <2>6, <2>7, <2>8, <2>9 DEF CallStep
<1> QED
  BY Zenon, <1>7, <1>8

\* A dead thread is linked nowhere and claimed by nobody: its state word matters
\* to no queue.
LEMMA DeadCancelIsHarmless ==
  ASSUME IInv, LockInv, DeadCancel
  PROVE  IInv' /\ LockInv'
<1>1. PICK w \in Threads : pc[w] = "dead" /\ state' = [state EXCEPT ![w] = "Cancelled"]
  BY Zenon DEF DeadCancel
<1>2. /\ UNCHANGED <<pc, lock, tlock, bq, tq, deadline, where, timed, timedOut, cur, idx, victim, now, scan, fire>>
  BY Zenon DEF DeadCancel, info, walk, timer
<1>3. state \in [Threads -> ThreadState] /\ state' \in [Threads -> ThreadState]
  BY <1>1 DEF IInv, TypeOK, ThreadState
<1>4. state'[w] = "Cancelled" /\ \A x \in Threads : x # w => state'[x] = state[x]
  BY <1>1, <1>3
<1>5. /\ \A a \in Actors : victim[a] # w
      /\ state[w] # "Blocked" /\ ~timedOut[w] /\ w \notin fire
  <2>1. pc[w] # "suspended" /\ pc[w] # "ready"
    BY Zenon, <1>1
  <2> QED
    BY Zenon, <2>1, RunningIsFree
<1>6. TypeOK'
  BY <1>2, <1>3 DEF IInv, TypeOK
<1>7. TimerInv'
  BY Zenon, <1>2 DEF IInv, TimerInv
<1>8. ClaimInv'
  <2>1. SUFFICES ASSUME NEW b \in Actors PROVE ClaimInv!(b)'
    BY Zenon DEF ClaimInv, Actors
  <2>2. \A x \in Threads : victim[b] = x => state'[x] = state[x]
    BY Zenon, <1>4, <1>5
  <2> QED
    BY Zenon, <1>2, <2>2, ClaimStands
<1>9. FireInv' /\ TimedOutInv' /\ NoStaleLinks'
  BY Zenon, <1>2 DEF IInv, Core, FireInv, TimedOutInv, NoStaleLinks, StillQueued, OnQueue, Linked
<1>10. \A x \in Threads : state'[x] = "Blocked" <=> state[x] = "Blocked"
  BY Zenon, <1>4, <1>5
<1>11. OneWaker'
  <2>1. OneWaker
    BY Zenon DEF IInv, Core
  <2>2. \A x \in Threads : Claimed(x)' <=> Claimed(x)
    BY Zenon, <1>2 DEF Claimed
  <2> QED
    BY Zenon, <1>2, <1>10, <2>1, <2>2 DEF OneWaker
<1>12. BlockedIsLinked'
  BY Zenon, <1>2, <1>10 DEF IInv, Core, BlockedIsLinked, OnQueue
<1>13. NoEarlyTimeout'
  BY Zenon, <1>2, <1>4, <1>5 DEF IInv, Core, NoEarlyTimeout
<1>14. LockInv'
  BY Zenon, <1>2 DEF LockInv
<1> QED
  BY Zenon, <1>6, <1>7, <1>8, <1>9, <1>11, <1>12, <1>13, <1>14 DEF IInv, Core

\* They are steps of the blocking machinery.
LEMMA UsedSteps ==
  ASSUME NEW t \in Threads, UsedStep(t)
  PROVE  (ThreadStep(t) \/ ClientStep(t) \/ SchedStep(t)) /\ BSNext
<1>1. (\E l \in Locks : Acquire(t, l)) \/ Terminate(t) => ClientStep(t)
  BY Zenon DEF ClientStep
<1>2. (\E l \in Locks : Release(t, l)) \/ (\E q \in Queues : Block(t, q) \/ StartResume(t, q))
        \/ (\E w \in Threads : Cancel(t, w)) => ClientStep(t)
  BY Zenon DEF ClientStep, CriticalSection
<1>3. TryUnblock(t) \/ ResumeMisses(t) \/ CancelBlocking(t) \/ Wake(t, "xResume", "held") \/ Wake(t, "resume", "run")
        => ThreadStep(t)
  BY Zenon DEF ThreadStep
<1>4. Dispatch(t) \/ FinishCancelled(t) => SchedStep(t)
  BY Zenon DEF SchedStep
<1>5. ThreadStep(t) \/ ClientStep(t) \/ SchedStep(t)
  BY Zenon, <1>1, <1>2, <1>3, <1>4 DEF UsedStep
<1> QED
  BY Zenon, <1>5 DEF BSNext

\* The invariants of the blocking machinery hold of the process.
LEMMA BlockingInvStep ==
  ASSUME IInv, LockInv, StoreInv, NEW t \in Threads, UserStep(t) \/ CallStep(t)
  PROVE  IInv' /\ LockInv'
<1>1. CASE DeadCancel
  BY Zenon, <1>1, DeadCancelIsHarmless
<1>2. CASE UNCHANGED bsvars \/ UsedStep(t)
  <2>1. [BSNext]_bsvars
    BY Zenon, <1>2, UsedSteps
  <2> QED
    BY Zenon, <2>1, InductiveStep, LockInvStep
<1> QED
  BY Zenon, <1>1, <1>2, BlockingSteps

\* What a step of t does to another thread: it may wake it, win it or cancel it.
LEMMA OtherThread ==
  ASSUME IInv, StoreInv, NEW t \in Threads, UserStep(t) \/ CallStep(t), NEW x \in Threads, x # t
  PROVE  /\ pc'[x] = pc[x] \/ (pc[x] = "suspended" /\ pc'[x] = "ready")
         /\ cur'[x] = cur[x] /\ idx'[x] = idx[x] /\ where'[x] = where[x]
         /\ state'[x] = "Blocked" => state[x] = "Blocked"
<1>1. CASE DeadCancel
  <2>1. PICK w \in Threads : pc[w] = "dead" /\ state' = [state EXCEPT ![w] = "Cancelled"]
    BY Zenon, <1>1 DEF DeadCancel
  <2>2. UNCHANGED <<pc, where, cur, idx>>
    BY Zenon, <1>1 DEF DeadCancel, info, walk
  <2>3. state \in [Threads -> ThreadState]
    BY Zenon DEF IInv, TypeOK
  <2>4. state'[x] = state[x] \/ state'[x] = "Cancelled"
    BY <2>1, <2>3
  <2> QED
    BY <2>2, <2>4
<1>2. CASE UNCHANGED bsvars
  BY Zenon, <1>2 DEF bsvars
<1>3. CASE UsedStep(t)
  <2>1. ThreadStep(t) \/ ClientStep(t) \/ SchedStep(t)
    BY Zenon, <1>3, UsedSteps
  <2> QED
    BY Zenon, <2>1, Bystander
<1> QED
  BY Zenon, <1>1, <1>2, <1>3, BlockingSteps

\* No call of a process gives a timeout.
LEMMA UntimedStep ==
  ASSUME IInv, StoreInv, Untimed, NEW t \in Threads, UserStep(t) \/ CallStep(t)
  PROVE  Untimed'
<1>1. t # Timer /\ Timer \in Actors /\ t \in Actors
  BY Zenon, ConstantsAssumption DEF Actors
<1>2. timed \in [Threads -> BOOLEAN] /\ pc \in [Actors -> ThreadPC \cup TimerPC] /\ victim \in [Actors -> Threads \cup {None}]
  BY Zenon DEF IInv, TypeOK
<1>3. CASE UNCHANGED <<tq, scan, fire, timed>> /\ pc'[Timer] = pc[Timer] /\ victim'[Timer] = victim[Timer]
  BY Zenon, <1>3 DEF Untimed
<1>4. CASE UNCHANGED bsvars \/ DeadCancel
  BY Zenon, <1>3, <1>4 DEF bsvars, DeadCancel, info, timer
<1>5. ASSUME NEW l \in Locks, Acquire(t, l) \/ Release(t, l) PROVE Untimed'
  <2>1. UNCHANGED <<tq, scan, fire, timed, victim>> /\ \E p : pc' = [pc EXCEPT ![t] = p]
    BY Zenon, <1>5 DEF Acquire, Release, Goto, info, timer
  <2> QED
    BY <1>1, <1>2, <1>3, <2>1
<1>6. ASSUME NEW q \in Queues, Block(t, q) \/ StartResume(t, q) PROVE Untimed'
  <2>1. UNCHANGED <<scan, fire, victim>> /\ \E p : pc' = [pc EXCEPT ![t] = p]
    BY Zenon, <1>6 DEF Block, StartResume, Suspend, Goto, timer
  <2>2. UNCHANGED <<tq, timed>> \/ (UNCHANGED tq /\ timed' = [timed EXCEPT ![t] = FALSE])
    BY <1>6 DEF Block, StartResume, Suspend, info
  <2> QED
    BY <1>1, <1>2, <2>1, <2>2 DEF Untimed
<1>7. ASSUME NEW w \in Threads, Cancel(t, w) PROVE Untimed'
  <2>1. /\ UNCHANGED <<tq, scan, fire, timed>>
        /\ pc' = pc \/ \E p : pc' = [pc EXCEPT ![t] = p]
        /\ victim' = victim \/ victim' = [victim EXCEPT ![t] = w]
    BY Zenon, <1>7 DEF Cancel, Goto, info, timer
  <2> QED
    BY <1>1, <1>2, <1>3, <2>1
<1>8. CASE TryUnblock(t)
  <2>1. /\ UNCHANGED <<tq, scan, fire, timed>>
        /\ pc' = pc \/ \E p : pc' = [pc EXCEPT ![t] = p]
        /\ victim' = victim \/ \E w : victim' = [victim EXCEPT ![t] = w]
    BY Zenon, <1>8 DEF TryUnblock, Goto, info, timer
  <2> QED
    BY <1>1, <1>2, <1>3, <2>1
<1>9. CASE ResumeMisses(t) \/ CancelBlocking(t) \/ FinishCancelled(t) \/ Terminate(t)
  <2>1. UNCHANGED <<tq, scan, fire, timed, victim>> /\ \E p : pc' = [pc EXCEPT ![t] = p]
    BY Zenon, <1>9 DEF ResumeMisses, CancelBlocking, FinishCancelled, Terminate, Goto, info, timer
  <2> QED
    BY <1>1, <1>2, <1>3, <2>1
<1>10. CASE Wake(t, "xResume", "held") \/ Wake(t, "resume", "run")
  <2>1. /\ UNCHANGED <<tq, scan, fire, timed>> /\ pc[t] \in WakePC
        /\ \E p : pc' = [pc EXCEPT ![t] = p, ![victim[t]] = "ready"]
        /\ victim' = [victim EXCEPT ![t] = None]
    BY Zenon, <1>10 DEF Wake, info, timer, WakePC, CancelPC
  <2>2. victim[t] \in Threads
    BY Zenon, <1>1, <2>1, WonThread
  <2>3. victim[t] # Timer
    BY Zenon, <2>2, ConstantsAssumption
  <2> QED
    BY <1>1, <1>2, <1>3, <2>1, <2>3
<1>11. CASE Dispatch(t)
  <2>1. UNCHANGED <<tq, scan, fire, victim>> /\ timed' = [timed EXCEPT ![t] = FALSE] /\ \E p : pc' = [pc EXCEPT ![t] = p]
    BY Zenon, <1>11 DEF Dispatch, Goto, timer
  <2> QED
    BY <1>1, <1>2, <2>1 DEF Untimed
<1> QED
  BY Zenon, <1>4, <1>5, <1>6, <1>7, <1>8, <1>9, <1>10, <1>11, BlockingSteps DEF UsedStep

-----------------------------------------------------------------------------
(* The calls. *)

\* A call that begins or changes is that of the thread itself.
LEMMA Begins ==
  ASSUME PTypeOK, NEW t \in Threads, NEW op, NEW arg, Begin(t, op, arg)
  PROVE  /\ call'[t].op = op /\ call'[t].arg = arg
         /\ \A x \in Threads : x # t => call'[x] = call[x]
  BY DEF PTypeOK, Begin

\* Leaving a call forgets what it obtained.
LEMMA LeavesCall ==
  ASSUME PTypeOK, NEW t \in Threads, Leaves(t)
  PROVE  /\ call'[t] = Idle /\ call'[t].op = "none"
         /\ got'[t] = Hole
         /\ \A x \in Threads : x # t => call'[x] = call[x] /\ got'[x] = got[x]
  BY DEF PTypeOK, Leaves, Idle

\* The variables of the calls keep their types.
LEMMA PTypeStep ==
  ASSUME StoreInv, PTypeOK, NEW t \in Threads, CallInv(t), UserStep(t) \/ CallStep(t)
  PROVE  PTypeOK'
<1>1. /\ joinState \in [Threads -> {"Regular", "Joining"}]
      /\ result \in [Threads -> Threads \cup {Hole}]
      /\ got \in [Threads -> Threads \cup {Hole}]
      /\ call \in [Threads -> [op : Ops, arg : Threads \cup Nat \cup {Hole}]]
  BY Zenon DEF PTypeOK
<1>2. ASSUME NEW op \in Ops, NEW arg \in Threads \cup Nat \cup {Hole}, Begin(t, op, arg)
      PROVE  call' \in [Threads -> [op : Ops, arg : Threads \cup Nat \cup {Hole}]]
  BY <1>1, <1>2 DEF Begin
<1>3. ASSUME Leaves(t)
      PROVE  /\ call' \in [Threads -> [op : Ops, arg : Threads \cup Nat \cup {Hole}]]
             /\ got' \in [Threads -> Threads \cup {Hole}]
  BY <1>1, <1>3 DEF Leaves, Idle, Ops
<1>4. ASSUME ToTerminate(t)
      PROVE  call' \in [Threads -> [op : Ops, arg : Threads \cup Nat \cup {Hole}]]
  <2>1. Begin(t, "quit", Hole) \/ Begin(t, "leave", Hole)
    BY <1>4 DEF ToTerminate
  <2> QED
    BY Zenon, <1>2, <2>1 DEF Ops
<1>5. ASSUME NEW w \in Threads, joinState' = [joinState EXCEPT ![w] = "Joining"]
      PROVE  joinState' \in [Threads -> {"Regular", "Joining"}]
  BY <1>1, <1>5
<1>6. CASE UserStep(t)
  <2>1. UNCHANGED <<joinState, result, got>>
    BY Zenon, <1>6 DEF UserStep, CreateThread, CallExitThread, CallJoin, CallExit, CallElsewhere
  <2>2. /\ 1 \in Nat
        /\ \A i \in 1..Len(store.data) : i \in Nat
    BY StoreShape DEF StoreInv
  <2>3. \/ UNCHANGED call
        \/ \E op \in Ops, arg \in Threads \cup Nat \cup {Hole} : Begin(t, op, arg)
    <3>1. CASE \E w \in Threads : CreateThread(t, w)
      BY Zenon, <3>1 DEF CreateThread
    <3>2. CASE CallExitThread(t)
      BY Zenon, <3>2 DEF CallExitThread, Ops
    <3>3. CASE \E i \in 1..Len(store.data) : CallJoin(t, i)
      BY Zenon, <3>3, <2>2 DEF CallJoin, Ops
    <3>4. CASE CallExit(t)
      BY Zenon, <3>4, <2>2 DEF CallExit, Ops
    <3>5. CASE \E op \in {"P", "V"} : CallElsewhere(t, op)
      BY Zenon, <3>5 DEF CallElsewhere, Ops
    <3> QED
      BY Zenon, <1>6, <3>1, <3>2, <3>3, <3>4, <3>5 DEF UserStep
  <2> QED
    BY Zenon, <1>1, <1>2, <2>1, <2>3 DEF PTypeOK
<1>7. CASE CallStep(t)
  <2>1. CASE ExitLast(t) \/ ExitDone(t)
    BY Zenon, <1>1, <1>4, <2>1 DEF ExitLast, ExitDone, PTypeOK
  <2>2. CASE PostWaits(t)
    <3>1. UNCHANGED <<joinState, got>> /\ result' = [result EXCEPT ![t] = t] /\ (UNCHANGED call \/ ToTerminate(t))
      BY Zenon, <2>2 DEF PostWaits
    <3>2. result' \in [Threads -> Threads \cup {Hole}]
      BY <1>1, <3>1
    <3> QED
      BY Zenon, <1>1, <1>4, <3>1, <3>2 DEF PTypeOK
  <2>3. CASE PostSignals(t)
    <3>1. UNCHANGED <<joinState, result, call>> /\ got' = [got EXCEPT ![result[t]] = t]
      BY Zenon, <2>3 DEF PostSignals
    <3>2. got' \in [Threads -> Threads \cup {Hole}]
      BY Zenon, <1>1, <3>1
    <3> QED
      BY Zenon, <1>1, <3>1, <3>2 DEF PTypeOK
  <2>4. CASE JoinFails(t)
    BY Zenon, <1>1, <1>3, <2>4 DEF JoinFails, PTypeOK
  <2>5. CASE JoinWaits(t)
    <3>1. PICK w \in Threads :
            /\ joinState' = [joinState EXCEPT ![w] = "Joining"] /\ result' = [result EXCEPT ![w] = t]
            /\ (Begin(t, "joining", w) /\ UNCHANGED got) \/ Leaves(t)
      BY Zenon, <2>5, ValidThread DEF JoinWaits, Joinable
    <3>2. result' \in [Threads -> Threads \cup {Hole}]
      BY <1>1, <3>1
    <3>3. "joining" \in Ops /\ w \in Threads \cup Nat \cup {Hole}
      BY Zenon DEF Ops
    <3> QED
      BY Zenon, <1>1, <1>2, <1>3, <1>5, <3>1, <3>2, <3>3 DEF PTypeOK
  <2>6. CASE JoinSignals(t)
    <3>1. PICK w \in Threads :
            /\ joinState' = [joinState EXCEPT ![w] = "Joining"] /\ UNCHANGED result
            /\ Begin(t, "joining", w) /\ got' = [got EXCEPT ![t] = result[w]]
      BY Zenon, <2>6, ValidThread DEF JoinSignals, Joinable
    <3>2. got' \in [Threads -> Threads \cup {Hole}]
      BY <1>1, <3>1
    <3>3. "joining" \in Ops /\ w \in Threads \cup Nat \cup {Hole}
      BY Zenon DEF Ops
    <3> QED
      BY Zenon, <1>1, <1>2, <1>5, <3>1, <3>2, <3>3 DEF PTypeOK
  <2>7. CASE ExitCancels(t)
    <3>1. UNCHANGED <<joinState, result, got>> /\ Begin(t, "exit", call[t].arg + 1) /\ Doing(t, "exit")
      BY Zenon, <2>7 DEF ExitCancels
    <3>2. call[t].arg \in Nat
      BY Zenon, <3>1 DEF CallInv
    <3>3. "exit" \in Ops /\ call[t].arg + 1 \in Threads \cup Nat \cup {Hole}
      BY <3>2 DEF Ops
    <3> QED
      BY Zenon, <1>1, <1>2, <3>1, <3>3 DEF PTypeOK
  <2>8. CASE BlockElsewhere(t)
    BY Zenon, <1>1, <1>3, <2>8 DEF BlockElsewhere, PTypeOK
  <2>9. CASE ResumeElsewhere(t) \/ Inside(t)
    BY Zenon, <1>1, <2>9 DEF ResumeElsewhere, Inside, procvars, PTypeOK
  <2>10. CASE Returns(t)
    <3>1. UNCHANGED <<joinState, result>> /\ (Leaves(t) \/ (ToTerminate(t) /\ UNCHANGED got))
      BY Zenon, <2>10 DEF Returns, CallOver
    <3> QED
      BY Zenon, <1>1, <1>3, <1>4, <3>1 DEF PTypeOK
  <2>11. CASE Finishes(t)
    <3>1. UNCHANGED <<joinState, result>> /\ (Leaves(t) \/ UNCHANGED <<call, got>>)
      BY Zenon, <2>11 DEF Finishes
    <3> QED
      BY Zenon, <1>1, <1>3, <3>1 DEF PTypeOK
  <2>12. CASE PostResume(t) \/ DestroyThread(t)
    BY Zenon, <1>1, <2>12 DEF PostResume, DestroyThread, PTypeOK
  <2> QED
    BY Zenon, <1>7, <2>1, <2>2, <2>3, <2>4, <2>5, <2>6, <2>7, <2>8, <2>9, <2>10, <2>11, <2>12 DEF CallStep
<1> QED
  BY Zenon, <1>6, <1>7

-----------------------------------------------------------------------------
(* The store. *)

\* A dead thread takes no step and is not moved.
LEMMA DeadStays ==
  ASSUME IInv, StoreInv, NEW t \in Threads, UserStep(t) \/ CallStep(t), NEW x \in Threads, pc[x] = "dead"
  PROVE  pc'[x] = "dead"
<1>1. CASE x # t
  BY Zenon, <1>1, OtherThread
<1>2. CASE x = t
  <2>1. ~UsedStep(t)
    <3>1. pc[t] = "dead"
      BY Zenon, <1>2
    <3> QED
      BY Zenon, <3>1
      DEF UsedStep, Acquire, Release, Block, StartResume, Cancel, TryUnblock, ResumeMisses, CancelBlocking,
          Wake, Dispatch, FinishCancelled, Preemptible, Terminate
  <2>2. UNCHANGED bsvars \/ DeadCancel
    BY Zenon, <2>1, BlockingSteps
  <2>3. UNCHANGED pc
    BY Zenon, <2>2 DEF bsvars, DeadCancel
  <2> QED
    BY Zenon, <2>3
<1> QED
  BY Zenon, <1>1, <1>2

\* A thread that has not terminated is still in the store.
LEMMA NotDeadIsLive ==
  ASSUME StoreInv, NEW t \in Threads, Created(t), pc[t] # "dead"
  PROVE  Live(t) /\ t \notin tested
  BY Zenon DEF StoreInv, StoreCore, Live

\* reserveIndex() takes the top of the free stack.
LEMMA PopIndex ==
  ASSUME NEW f \in Seq(Nat), IsInjective(f), f # <<>>
  PROVE  /\ Tail(f) \in Seq(Nat) /\ IsInjective(Tail(f)) /\ 1 \in DOMAIN f /\ f[1] \in Nat
         /\ \A k \in DOMAIN Tail(f) : \E l \in DOMAIN f : f[l] # f[1] /\ Tail(f)[k] = f[l]
<1>1. /\ Tail(f) \in Seq(Nat) /\ Len(Tail(f)) = Len(f) - 1
      /\ \A k \in 1..Len(Tail(f)) : Tail(f)[k] = f[k + 1]
  BY SeqTail
<1>2. DOMAIN f = 1..Len(f) /\ Len(f) \in Nat /\ DOMAIN Tail(f) = 1..Len(Tail(f)) /\ Len(f) # 0 /\ f \in [1..Len(f) -> Nat]
  BY <1>1, SeqLength, SeqEmpty
<1>3. \A k \in DOMAIN Tail(f) : k + 1 \in DOMAIN f /\ k + 1 # 1 /\ Tail(f)[k] = f[k + 1]
  BY <1>1, <1>2
<1>4. IsInjective(Tail(f))
  <2>1. SUFFICES ASSUME NEW k \in DOMAIN Tail(f), NEW l \in DOMAIN Tail(f), Tail(f)[k] = Tail(f)[l] PROVE k = l
    BY Zenon DEF IsInjective
  <2>2. k + 1 = l + 1
    BY Zenon, <1>3, <2>1 DEF IsInjective
  <2> QED
    BY <1>1, <1>2, <2>2
<1>5. 1 \in DOMAIN f /\ f[1] \in Nat
  BY <1>2
<1>6. \A k \in DOMAIN Tail(f) : f[k + 1] # f[1]
  BY Zenon, <1>3, <1>5 DEF IsInjective
<1> QED
  BY Zenon, <1>1, <1>3, <1>4, <1>5, <1>6

\* internalRemove() puts a new index on the free stack.
LEMMA PushIndex ==
  ASSUME NEW f \in Seq(Nat), IsInjective(f), NEW i \in Nat, \A k \in DOMAIN f : f[k] # i
  PROVE  /\ <<i>> \o f \in Seq(Nat) /\ IsInjective(<<i>> \o f)
         /\ \A k \in DOMAIN (<<i>> \o f) : (<<i>> \o f)[k] = i \/ \E l \in DOMAIN f : (<<i>> \o f)[k] = f[l]
<1>1. PICK g \in Seq(Nat) : g = <<i>> \o f /\ Len(g) = Len(f) + 1 /\ g[1] = i /\ \A k \in 2..(Len(f) + 1) : g[k] = f[k - 1]
  <2>1. <<i>> \in Seq(Nat) /\ Len(<<i>>) = 1 /\ <<i>>[1] = i
    OBVIOUS
  <2>2. /\ <<i>> \o f \in Seq(Nat) /\ Len(<<i>> \o f) = Len(f) + 1
        /\ (<<i>> \o f)[1] = i /\ \A k \in 2..(Len(f) + 1) : (<<i>> \o f)[k] = f[k - 1]
    BY <2>1, SeqConcat
  <2> QED
    BY Zenon, <2>2
<1>2. DOMAIN g = 1..(Len(f) + 1) /\ DOMAIN f = 1..Len(f) /\ Len(f) \in Nat
  BY <1>1, SeqLength
<1>3. \A k \in DOMAIN g : k = 1 \/ (k - 1 \in DOMAIN f /\ g[k] = f[k - 1])
  BY <1>1, <1>2
<1>4. IsInjective(g)
  <2>1. SUFFICES ASSUME NEW k \in DOMAIN g, NEW l \in DOMAIN g, g[k] = g[l] PROVE k = l
    BY Zenon DEF IsInjective
  <2>2. CASE k = 1
    BY <1>1, <1>3, <2>1, <2>2
  <2>3. CASE l = 1
    BY <1>1, <1>3, <2>1, <2>3
  <2>4. CASE k # 1 /\ l # 1
    <3>1. k - 1 \in DOMAIN f /\ l - 1 \in DOMAIN f /\ f[k - 1] = f[l - 1]
      BY <1>3, <2>1, <2>4
    <3>2. k - 1 = l - 1
      BY Zenon, <3>1 DEF IsInjective
    <3> QED
      BY <1>2, <3>2
  <2> QED
    BY Zenon, <2>2, <2>3, <2>4
<1>5. \A k \in DOMAIN g : g[k] = i \/ \E l \in DOMAIN f : g[k] = f[l]
  BY Zenon, <1>1, <1>3
<1> QED
  BY Zenon, <1>1, <1>4, <1>5

\* createThread: the new thread takes a hole, or a new field at the end.
LEMMA PutStep ==
  ASSUME StoreInv, NEW t \in Threads, NEW w \in Threads, Created(t), CreateThread(t, w)
  PROVE  StoreInv'
<1>0. store.data \in Seq(Threads \cup {Hole}) /\ store.free \in Seq(Nat)
  BY Zenon, StoreShape DEF StoreInv
<1>1. PICK d \in Seq(Threads \cup {Hole}), f \in Seq(Nat), i \in {ReserveIndex(store)} :
        /\ d = store.data /\ f = store.free /\ i = ReserveIndex(store)
        /\ DOMAIN d = 1..Len(d) /\ Len(d) \in Nat /\ DOMAIN f = 1..Len(f) /\ Len(f) \in Nat
  BY <1>0, SeqLength
<1>2. /\ pc[t] = "run" /\ ~Created(w)
      /\ store' = Put(store, w) /\ slot' = [slot EXCEPT ![w] = i]
      /\ UNCHANGED <<pc, tested, freed, gone>>
  BY Zenon, <1>1 DEF CreateThread, bsvars
<1>3. /\ IsInjective(f)
      /\ \A k \in DOMAIN f : f[k] \in DOMAIN d /\ d[f[k]] = Hole
      /\ \A x \in Threads : Live(x) => slot[x] \in DOMAIN d /\ d[slot[x]] = x
      /\ \A j \in DOMAIN d, x \in Threads : d[j] = x => Live(x) /\ slot[x] = j
      /\ freed \subseteq tested /\ tested \subseteq Threads
      /\ \A x \in tested : Created(x) /\ pc[x] = "dead"
      /\ slot \in [Threads -> Nat \cup {Hole}]
  BY Zenon, <1>1 DEF StoreInv, StoreCore
<1>4. Hole \notin Threads /\ Hole \notin Nat
  BY Zenon, ProcessAssumption
<1>5. ~gone
  <2>1. Live(t)
    BY <1>2, NotDeadIsLive
  <2> QED
    BY Zenon, <2>1 DEF StoreInv
<1>6. /\ store' \in [data : Seq(Threads \cup {Hole}), free : Seq(Nat)]
      /\ i \in Nat /\ i \in DOMAIN store'.data /\ store'.data[i] = w
      /\ \A j \in DOMAIN d : j \in DOMAIN store'.data /\ (j # i => store'.data[j] = d[j])
      /\ \A j \in DOMAIN store'.data : j \in DOMAIN d \/ j = i
      /\ i \in DOMAIN d => d[i] = Hole
      /\ IsInjective(store'.free)
      /\ \A k \in DOMAIN store'.free : store'.free[k] \in DOMAIN d /\ d[store'.free[k]] = Hole /\ store'.free[k] # i
  <2>1. CASE f = <<>>
    <3>1. store' = [data |-> Append(d, w), free |-> f] /\ i = Len(d) + 1
      <4>1. store = [data |-> d, free |-> f]
        BY <1>1, StoreShape DEF StoreInv
      <4> QED
        BY Zenon, <1>1, <1>2, <2>1, <4>1 DEF Put, ReserveIndex
    <3>2. /\ Append(d, w) \in Seq(Threads \cup {Hole}) /\ DOMAIN Append(d, w) = 1..(Len(d) + 1)
          /\ Append(d, w)[Len(d) + 1] = w /\ \A j \in 1..Len(d) : Append(d, w)[j] = d[j]
      BY <1>1, SeqAppend, SeqLength
    <3>3. store'.data = Append(d, w) /\ store'.free = f /\ store' \in [data : Seq(Threads \cup {Hole}), free : Seq(Nat)]
      BY <1>1, <3>1, <3>2
    <3>4. DOMAIN f = {}
      BY <2>1
    <3>5. DOMAIN Append(d, w) = DOMAIN d \cup {i} /\ i \notin DOMAIN d /\ i \in Nat
      BY <1>1, <3>1, <3>2
    <3> QED
      BY Zenon, <1>1, <1>3, <3>1, <3>2, <3>3, <3>4, <3>5
  <2>2. CASE f # <<>>
    <3>1. store' = [data |-> [d EXCEPT ![i] = w], free |-> Tail(f)] /\ i = f[1]
      BY Zenon, <1>1, <1>2, <2>2 DEF Put, ReserveIndex
    <3>2. /\ Tail(f) \in Seq(Nat) /\ IsInjective(Tail(f)) /\ 1 \in DOMAIN f /\ i \in Nat
          /\ \A k \in DOMAIN Tail(f) : \E l \in DOMAIN f : f[l] # i /\ Tail(f)[k] = f[l]
      BY <1>3, <2>2, <3>1, PopIndex
    <3>3. i \in DOMAIN d /\ d[i] = Hole
      BY Zenon, <1>3, <3>1, <3>2
    <3>7. [d EXCEPT ![i] = w] \in Seq(Threads \cup {Hole}) /\ DOMAIN [d EXCEPT ![i] = w] = DOMAIN d
      BY <1>1, <3>3, SeqUpdate
    <3>4. store'.data = [d EXCEPT ![i] = w] /\ store'.free = Tail(f) /\ store' \in [data : Seq(Threads \cup {Hole}), free : Seq(Nat)]
      BY <3>1, <3>2, <3>7
    <3>5. store'.data[i] = w /\ \A j \in DOMAIN d : j # i => store'.data[j] = d[j]
      BY <1>1, <3>3, <3>4
    <3>6. \A k \in DOMAIN Tail(f) : Tail(f)[k] \in DOMAIN d /\ d[Tail(f)[k]] = Hole /\ Tail(f)[k] # i
      <4>1. SUFFICES ASSUME NEW k \in DOMAIN Tail(f)
                     PROVE  Tail(f)[k] \in DOMAIN d /\ d[Tail(f)[k]] = Hole /\ Tail(f)[k] # i
        BY Zenon
      <4>2. PICK l \in DOMAIN f : f[l] # i /\ Tail(f)[k] = f[l]
        BY Zenon, <3>2
      <4>3. f[l] \in DOMAIN d /\ d[f[l]] = Hole
        BY Zenon, <1>3
      <4> QED
        BY Zenon, <4>2, <4>3
    <3> QED
      BY Zenon, <3>2, <3>3, <3>4, <3>5, <3>6, <3>7
  <2> QED
    BY Zenon, <2>1, <2>2
<1>7. slot' \in [Threads -> Nat \cup {Hole}] /\ slot'[w] = i /\ i # Hole /\ \A x \in Threads : x # w => slot'[x] = slot[x]
  BY <1>2, <1>3, <1>4, <1>6
<1>8. w \notin freed /\ ~Live(w)
  BY Zenon, <1>2, <1>3 DEF Live
<1>9. Live(w)' /\ \A x \in Threads : x # w => (Live(x)' <=> Live(x)) /\ (Created(x)' <=> Created(x))
  BY Zenon, <1>2, <1>7, <1>8 DEF Live, Created
<1>11. \A k \in DOMAIN store'.free : store'.free[k] \in DOMAIN store'.data /\ store'.data[store'.free[k]] = Hole
  BY Zenon, <1>6
<1>12. \A x \in Threads : Live(x)' => slot'[x] \in DOMAIN store'.data /\ store'.data[slot'[x]] = x
  <2>1. SUFFICES ASSUME NEW x \in Threads, Live(x)', x # w
                 PROVE  slot'[x] \in DOMAIN store'.data /\ store'.data[slot'[x]] = x
    <3>1. slot'[w] \in DOMAIN store'.data /\ store'.data[slot'[w]] = w
      BY Zenon, <1>6, <1>7
    <3> QED
      BY Zenon, <3>1
  <2>2. slot[x] \in DOMAIN d /\ d[slot[x]] = x /\ slot'[x] = slot[x]
    BY Zenon, <1>3, <1>7, <1>9, <2>1
  <2>3. x # Hole
    BY Zenon, <1>4
  <2> QED
    BY Zenon, <1>6, <2>2, <2>3
<1>13. \A j \in DOMAIN store'.data, x \in Threads : store'.data[j] = x => Live(x)' /\ slot'[x] = j
  <2>1. SUFFICES ASSUME NEW j \in DOMAIN store'.data, NEW x \in Threads, store'.data[j] = x
                 PROVE  Live(x)' /\ slot'[x] = j
    BY Zenon
  <2>2. CASE j = i
    BY Zenon, <1>6, <1>7, <1>9, <2>1, <2>2
  <2>3. CASE j # i
    <3>1. j \in DOMAIN d /\ d[j] = x
      BY Zenon, <1>6, <2>1, <2>3
    <3>2. Live(x) /\ slot[x] = j
      BY Zenon, <1>3, <3>1
    <3>3. x # w
      BY Zenon, <1>8, <3>2
    <3> QED
      BY Zenon, <1>7, <1>9, <3>2, <3>3
  <2> QED
    BY Zenon, <2>2, <2>3
<1>14. freed' \subseteq tested' /\ tested' \subseteq Threads /\ \A x \in tested' : Created(x)' /\ pc'[x] = "dead"
  BY Zenon, <1>2, <1>3, <1>9
<1>15. store' \in [data : Seq(Threads \cup {Hole}), free : Seq(Nat)] /\ IsInjective(store'.free) /\ ~gone'
  BY Zenon, <1>2, <1>5, <1>6
<1>16. slot' \in [Threads -> Nat \cup {Hole}]
  BY Zenon, <1>7
<1> QED
  BY Zenon, <1>11, <1>12, <1>13, <1>14, <1>15, <1>16 DEF StoreInv, StoreCore

\* postResume's destruction: the field becomes a hole, the index is stacked.
LEMMA RemoveStep ==
  ASSUME SizeCounts, StoreInv, NEW t \in Threads, DestroyThread(t)
  PROVE  StoreInv'
<1>0. store.data \in Seq(Threads \cup {Hole}) /\ store.free \in Seq(Nat)
  BY Zenon, StoreShape DEF StoreInv
<1>1. PICK d \in Seq(Threads \cup {Hole}), f \in Seq(Nat), i \in {slot[t]} :
        /\ d = store.data /\ f = store.free /\ i = slot[t]
        /\ DOMAIN d = 1..Len(d) /\ Len(d) \in Nat /\ DOMAIN f = 1..Len(f) /\ Len(f) \in Nat
  BY <1>0, SeqLength
<1>2. /\ t \in tested /\ t \notin freed
      /\ store' = [data |-> [d EXCEPT ![i] = Hole], free |-> <<i>> \o f]
      /\ gone' = (ArraySize(store') = 0) /\ freed' = freed \cup {t}
      /\ UNCHANGED <<pc, slot, tested>>
  BY Zenon, <1>1 DEF DestroyThread, bsvars, ArrayRemove, Deletes
<1>3. /\ IsInjective(f)
      /\ \A k \in DOMAIN f : f[k] \in DOMAIN d /\ d[f[k]] = Hole
      /\ \A x \in Threads : Live(x) => slot[x] \in DOMAIN d /\ d[slot[x]] = x
      /\ \A j \in DOMAIN d, x \in Threads : d[j] = x => Live(x) /\ slot[x] = j
      /\ freed \subseteq tested /\ tested \subseteq Threads
      /\ \A x \in tested : Created(x) /\ pc[x] = "dead"
      /\ slot \in [Threads -> Nat \cup {Hole}]
  BY Zenon, <1>1 DEF StoreInv, StoreCore
<1>4. Hole \notin Threads /\ Hole \notin Nat
  BY Zenon, ProcessAssumption
<1>5. i \in DOMAIN d /\ d[i] = t /\ i \in Nat
  <2>1. Live(t)
    BY Zenon, <1>2, <1>3 DEF Live
  <2>2. i \in DOMAIN d /\ d[i] = t
    BY Zenon, <1>3, <2>1
  <2> QED
    BY <1>1, <2>2
<1>6. /\ \A x \in Threads : Live(x)' <=> Live(x) /\ x # t
      /\ \A x \in Threads : Created(x)' <=> Created(x)
  BY Zenon, <1>2 DEF Live, Created
<1>7. \A k \in DOMAIN f : f[k] # i
  <2>1. \A k \in DOMAIN f : d[f[k]] = Hole
    BY Zenon, <1>3
  <2> QED
    BY Zenon, <1>4, <1>5, <2>1
<1>8. /\ <<i>> \o f \in Seq(Nat) /\ IsInjective(<<i>> \o f)
      /\ \A k \in DOMAIN (<<i>> \o f) : (<<i>> \o f)[k] = i \/ \E l \in DOMAIN f : (<<i>> \o f)[k] = f[l]
  BY Zenon, <1>3, <1>5, <1>7, PushIndex
<1>9. [d EXCEPT ![i] = Hole] \in Seq(Threads \cup {Hole}) /\ DOMAIN [d EXCEPT ![i] = Hole] = DOMAIN d
  BY <1>1, <1>5, SeqUpdate
<1>10. /\ store'.data = [d EXCEPT ![i] = Hole] /\ store'.free = <<i>> \o f
       /\ store' \in [data : Seq(Threads \cup {Hole}), free : Seq(Nat)]
  BY <1>2, <1>8, <1>9
<1>11. store'.data[i] = Hole /\ \A j \in DOMAIN d : j # i => store'.data[j] = d[j]
  BY Zenon, <1>1, <1>5, <1>10
<1>12. /\ IsInjective(store'.free) /\ DOMAIN store'.data = DOMAIN d
       /\ store'.data \in Seq(Threads \cup {Hole}) /\ store'.free \in Seq(Nat)
       /\ \A k \in DOMAIN store'.free : store'.free[k] \in DOMAIN store'.data /\ store'.data[store'.free[k]] = Hole
  <2>1. \A k \in DOMAIN f : f[k] \in DOMAIN d /\ store'.data[f[k]] = Hole
    BY Zenon, <1>3, <1>7, <1>11
  <2>2. \A k \in DOMAIN store'.free : store'.free[k] = i \/ \E l \in DOMAIN f : store'.free[k] = f[l]
    BY Zenon, <1>8, <1>10
  <2>3. \A k \in DOMAIN store'.free : store'.free[k] \in DOMAIN d /\ store'.data[store'.free[k]] = Hole
    <3>1. SUFFICES ASSUME NEW k \in DOMAIN store'.free
                   PROVE  store'.free[k] \in DOMAIN d /\ store'.data[store'.free[k]] = Hole
      BY Zenon
    <3>2. CASE store'.free[k] = i
      BY Zenon, <1>5, <1>11, <3>2
    <3>3. CASE \E l \in DOMAIN f : store'.free[k] = f[l]
      BY Zenon, <2>1, <3>3
    <3> QED
      BY Zenon, <2>2, <3>2, <3>3
  <2> QED
    BY Zenon, <1>8, <1>9, <1>10, <2>3
<1>13. \A x \in Threads : Live(x)' => slot'[x] \in DOMAIN store'.data /\ store'.data[slot'[x]] = x
  <2>1. SUFFICES ASSUME NEW x \in Threads, Live(x), x # t PROVE slot[x] \in DOMAIN store'.data /\ store'.data[slot[x]] = x
    BY Zenon, <1>2, <1>6
  <2>2. slot[x] \in DOMAIN d /\ d[slot[x]] = x
    BY Zenon, <1>3, <2>1
  <2> QED
    BY Zenon, <1>5, <1>11, <1>12, <2>1, <2>2
<1>14. \A j \in DOMAIN store'.data, x \in Threads : store'.data[j] = x => Live(x)' /\ slot'[x] = j
  <2>1. SUFFICES ASSUME NEW j \in DOMAIN d, NEW x \in Threads, store'.data[j] = x PROVE Live(x)' /\ slot'[x] = j
    BY Zenon, <1>12
  <2>2. j # i /\ d[j] = x
    BY Zenon, <1>4, <1>11, <2>1
  <2>3. Live(x) /\ slot[x] = j
    BY Zenon, <1>3, <2>2
  <2> QED
    BY Zenon, <1>1, <1>2, <1>6, <2>2, <2>3
<1>15. freed' \subseteq tested' /\ tested' \subseteq Threads /\ \A x \in tested' : Created(x)' /\ pc'[x] = "dead"
  BY Zenon, <1>2, <1>3, <1>6
<1>16. slot' \in [Threads -> Nat \cup {Hole}] /\ store' \in [data : Seq(Threads \cup {Hole}), free : Seq(Nat)]
  BY Zenon, <1>2, <1>3, <1>10
<1>17. StoreCore'
  BY Zenon, <1>12, <1>13, <1>14, <1>15, <1>16 DEF StoreCore
<1>18. gone' => \A x \in Threads : ~Live(x)'
  <2>1. \A j \in DOMAIN store'.data : store'.data[j] # Hole => ArraySize(store') >= 1
    <3>1. store'.data \in Seq(Threads \cup {Hole}) /\ store'.free \in Seq(Nat)
      BY <1>16
    <3> QED
      BY Zenon, <1>12, <3>1 DEF ArraySize, SizeCounts, IsInjective
  <2>2. \A x \in Threads : Live(x)' => ArraySize(store') >= 1
    BY Zenon, <1>4, <1>13, <2>1
  <2>3. ~(0 >= 1)
    OBVIOUS
  <2> QED
    BY Zenon, <1>2, <2>2, <2>3
<1> QED
  BY Zenon, <1>17, <1>18 DEF StoreInv

\* The store through a step of a thread that exists.
LEMMA StoreStep ==
  ASSUME SizeCounts, IInv, StoreInv, NEW t \in Threads, Created(t), UserStep(t) \/ CallStep(t)
  PROVE  StoreInv'
<1>1. \A x \in Threads : pc[x] = "dead" => pc'[x] = "dead"
  BY Zenon, DeadStays
<1>2. CASE UNCHANGED <<store, slot, freed, gone>> /\ (tested' = tested \/ PostResume(t))
  <2>1. \A x \in Threads : (Live(x)' <=> Live(x)) /\ (Created(x)' <=> Created(x))
    BY Zenon, <1>2 DEF Live, Created
  <2>2. StoreCore /\ (gone => \A x \in Threads : ~Live(x))
    BY Zenon DEF StoreInv
  <2>3. freed \subseteq tested /\ tested \subseteq Threads /\ \A x \in tested : Created(x) /\ pc[x] = "dead"
    BY Zenon, <2>2 DEF StoreCore
  <2>4. freed' \subseteq tested' /\ tested' \subseteq Threads /\ \A x \in tested' : Created(x)' /\ pc'[x] = "dead"
    <3>1. CASE tested' = tested
      BY Zenon, <1>1, <1>2, <2>1, <2>3, <3>1
    <3>2. CASE PostResume(t)
      <4>1. pc[t] = "dead" /\ tested' = tested \cup {t}
        BY Zenon, <3>2 DEF PostResume
      <4> QED
        BY Zenon, <1>1, <1>2, <2>1, <2>3, <4>1
    <3> QED
      BY Zenon, <1>2, <3>1, <3>2
  <2>5. StoreCore'
    BY Zenon, <1>2, <2>1, <2>2, <2>4 DEF StoreCore
  <2> QED
    BY Zenon, <1>2, <2>1, <2>2, <2>5 DEF StoreInv
<1>3. CASE \E w \in Threads : CreateThread(t, w)
  BY Zenon, <1>3, PutStep
<1>4. CASE DestroyThread(t)
  BY Zenon, <1>4, RemoveStep
<1>5. CASE UserStep(t) /\ ~\E w \in Threads : CreateThread(t, w)
  BY Zenon, <1>2, <1>5 DEF UserStep, CallExitThread, CallJoin, CallExit, CallElsewhere
<1>6. CASE CallStep(t) /\ ~DestroyThread(t)
  <2>1. \/ UNCHANGED <<store, slot, freed, gone, tested>>
        \/ UNCHANGED <<store, slot, freed, gone>> /\ PostResume(t)
    BY Zenon, <1>6
    DEF CallStep, ExitLast, PostWaits, PostSignals, JoinFails, JoinWaits, JoinSignals, ExitCancels, ExitDone,
        BlockElsewhere, ResumeElsewhere, Returns, CallOver, Inside, Finishes, PostResume, procvars
  <2> QED
    BY Zenon, <1>2, <2>1
<1> QED
  BY Zenon, <1>3, <1>4, <1>5, <1>6

-----------------------------------------------------------------------------
(* Where a thread is in its call. *)

\* A thread changes its own call only, and nobody loses an index.
LEMMA OwnCall ==
  ASSUME StoreInv, PTypeOK, NEW t \in Threads, UserStep(t) \/ CallStep(t), NEW x \in Threads
  PROVE  /\ x # t => call'[x] = call[x]
         /\ Created(x) => Created(x)'
         /\ ~Created(x) /\ Created(x)' => \E w \in Threads : CreateThread(t, w)
<1>1. CASE \E w \in Threads : CreateThread(t, w)
  <2>1. PICK w \in Threads : ~Created(w) /\ UNCHANGED call /\ slot' = [slot EXCEPT ![w] = ReserveIndex(store)]
    BY Zenon, <1>1 DEF CreateThread
  <2>2. slot \in [Threads -> Nat \cup {Hole}]
    BY Zenon DEF StoreInv, StoreCore
  <2>3. x # w => slot'[x] = slot[x]
    BY <2>1, <2>2
  <2> QED
    BY Zenon, <1>1, <2>1, <2>3 DEF Created
<1>2. CASE UserStep(t) /\ ~\E w \in Threads : CreateThread(t, w)
  <2>1. UNCHANGED slot /\ \E op, arg : Begin(t, op, arg)
    BY Zenon, <1>2 DEF UserStep, CallExitThread, CallJoin, CallExit, CallElsewhere
  <2> QED
    BY Zenon, <2>1, Begins DEF Created
<1>3. CASE CallStep(t)
  <2>1. UNCHANGED slot
    BY Zenon, <1>3
    DEF CallStep, ExitLast, PostWaits, PostSignals, JoinFails, JoinWaits, JoinSignals, ExitCancels, ExitDone,
        BlockElsewhere, ResumeElsewhere, Returns, CallOver, Inside, Finishes, PostResume, DestroyThread, procvars
  <2>2. UNCHANGED call \/ Leaves(t) \/ \E op, arg : Begin(t, op, arg)
    BY Zenon, <1>3
    DEF CallStep, ExitLast, PostWaits, PostSignals, JoinFails, JoinWaits, JoinSignals, ExitCancels, ExitDone,
        BlockElsewhere, ResumeElsewhere, Returns, CallOver, Inside, Finishes, PostResume, DestroyThread, procvars, ToTerminate
  <2>3. x # t => call'[x] = call[x]
    BY Zenon, <2>2, Begins, LeavesCall
  <2> QED
    BY Zenon, <2>1, <2>3 DEF Created
<1> QED
  BY Zenon, <1>1, <1>2, <1>3

\* A bystander is where its call allows it to be.
LEMMA OtherCallStep ==
  ASSUME IInv, StoreInv, PTypeOK, NEW t \in Threads, UserStep(t) \/ CallStep(t),
         NEW x \in Threads, x # t, CallInv(x)
  PROVE  CallInv(x)'
<1>1. /\ pc'[x] = pc[x] \/ (pc[x] = "suspended" /\ pc'[x] = "ready")
      /\ cur'[x] = cur[x] /\ where'[x] = where[x]
  BY Zenon, OtherThread
<1>2. call'[x] = call[x] /\ (Created(x) => Created(x)')
  BY Zenon, OwnCall
<1>3. \A op : Doing(x, op)' <=> Doing(x, op)
  BY Zenon, <1>2 DEF Doing
<1>4. Place(x)' = Place(x)
  BY Zenon, <1>2, <1>3 DEF Place
<1>5. CASE pc'[x] = pc[x]
  BY Zenon, <1>1, <1>2, <1>3, <1>4, <1>5 DEF CallInv
<1>6. CASE pc[x] = "suspended" /\ pc'[x] = "ready"
  BY Zenon, <1>1, <1>2, <1>3, <1>4, <1>6 DEF CallInv
<1> QED
  BY Zenon, <1>1, <1>5, <1>6

\* Where each step of the blocking machinery leaves the thread that takes it.
LEMMA OwnPoint ==
  ASSUME IInv, Untimed, NEW t \in Threads
  PROVE  /\ \A l \in Locks : Acquire(t, l) => pc'[t] = "held"
         /\ \A l \in Locks : Release(t, l) => pc'[t] = "run"
         /\ \A q \in Queues : Block(t, q) => IF MayBlock(t) THEN pc'[t] = "suspended" /\ where'[t] = q
                                             ELSE pc'[t] = "run"
         /\ \A q \in Queues : StartResume(t, q) => pc'[t] = "walk" /\ cur'[t] = q /\ idx'[t] = 1
         /\ \A w \in Threads : Cancel(t, w) => pc'[t] \in {"held", "xCancelBlocking", "xResume"}
         /\ TryUnblock(t) => pc'[t] = "resume" \/ (pc'[t] = pc[t] /\ cur'[t] = cur[t])
         /\ ResumeMisses(t) => pc'[t] = "missed"
         /\ CancelBlocking(t) => pc'[t] = "xResume"
         /\ Wake(t, "xResume", "held") => pc'[t] = "held"
         /\ Wake(t, "resume", "run") => pc'[t] = "run"
         /\ Dispatch(t) => pc'[t] = IF state[t] = "Cancelled" THEN "dead" ELSE "run"
         /\ FinishCancelled(t) \/ Terminate(t) => pc'[t] = "dead"
         /\ DeadCancel => pc' = pc
<1>1. t \in Actors /\ pc \in [Actors -> ThreadPC \cup TimerPC]
  BY Zenon DEF Actors, IInv, TypeOK
<1>2. where \in [Threads -> Queues \cup {None}] /\ cur \in [Threads -> Queues \cup {None}] /\ idx \in [Threads -> Nat]
  BY Zenon DEF IInv, TypeOK
<1>3. \A p : Goto(t, p) => pc'[t] = p
  BY <1>1 DEF Goto
<1>4. /\ \A l \in Locks : Acquire(t, l) => pc'[t] = "held"
      /\ \A l \in Locks : Release(t, l) => pc'[t] = "run"
      /\ ResumeMisses(t) => pc'[t] = "missed"
      /\ CancelBlocking(t) => pc'[t] = "xResume"
      /\ FinishCancelled(t) \/ Terminate(t) => pc'[t] = "dead"
      /\ DeadCancel => pc' = pc
  BY Zenon, <1>3 DEF Acquire, Release, ResumeMisses, CancelBlocking, FinishCancelled, Terminate, DeadCancel
<1>5. ASSUME NEW q \in Queues, Block(t, q)
      PROVE  IF MayBlock(t) THEN pc'[t] = "suspended" /\ where'[t] = q ELSE pc'[t] = "run"
  <2>1. CASE MayBlock(t)
    <3>1. Goto(t, "suspended") /\ where' = [where EXCEPT ![t] = q]
      BY Zenon, <1>5, <2>1 DEF Block, Suspend
    <3>2. where'[t] = q
      BY <1>2, <3>1
    <3> QED
      BY Zenon, <1>3, <2>1, <3>1, <3>2
  <2>2. CASE ~MayBlock(t)
    BY Zenon, <1>3, <1>5, <2>2 DEF Block
  <2> QED
    BY Zenon, <2>1, <2>2
<1>6. ASSUME NEW q \in Queues, StartResume(t, q) PROVE pc'[t] = "walk" /\ cur'[t] = q /\ idx'[t] = 1
  <2>1. Goto(t, "walk") /\ cur' = [cur EXCEPT ![t] = q] /\ idx' = [idx EXCEPT ![t] = 1]
    BY Zenon, <1>6 DEF StartResume
  <2>2. cur'[t] = q /\ idx'[t] = 1
    BY <1>2, <2>1
  <2> QED
    BY Zenon, <1>3, <2>1, <2>2
<1>7. ASSUME NEW w \in Threads, Cancel(t, w) PROVE pc'[t] \in {"held", "xCancelBlocking", "xResume"}
  <2>1. ~timed[w] /\ pc[t] = "held"
    BY Zenon, <1>7 DEF Untimed, Cancel
  <2>2. pc' = pc \/ Goto(t, "xCancelBlocking") \/ Goto(t, "xResume")
    BY <1>7, <2>1 DEF Cancel, AfterTimeout
  <2> QED
    BY Zenon, <1>3, <2>1, <2>2
<1>8. ASSUME TryUnblock(t) PROVE pc'[t] = "resume" \/ (pc'[t] = pc[t] /\ cur'[t] = cur[t])
  <2>1. pc[t] = "walk" /\ idx[t] <= Len(bq[cur[t]])
    BY Zenon, <1>8 DEF TryUnblock
  <2>2. cur[t] \in Queues /\ idx[t] \in Nat /\ idx[t] >= 1 /\ bq \in [Queues -> Seq(Threads)]
    BY Zenon, <2>1 DEF IInv, TypeOK
  <2>3. bq[cur[t]] \in Seq(Threads)
    BY Zenon, <2>2
  <2>4. bq[cur[t]][idx[t]] \in Threads
    BY Zenon, <2>1, <2>2, <2>3, PlaceOf
  <2>5. ~timed[bq[cur[t]][idx[t]]]
    BY Zenon, <2>4 DEF Untimed
  <2>6. Goto(t, "resume") \/ UNCHANGED <<pc, cur>>
    BY <1>8, <2>5 DEF TryUnblock
  <2> QED
    BY Zenon, <1>3, <2>6
<1>9. ASSUME NEW here \in {"resume", "xResume"}, NEW next, Wake(t, here, next) PROVE pc'[t] = next
  <2>1. pc[t] \in WakePC
    BY Zenon, <1>9 DEF Wake, WakePC, CancelPC
  <2>2. victim[t] # t
    BY Zenon, <1>1, <2>1, WonThread
  <2>3. pc' = [pc EXCEPT ![t] = next, ![victim[t]] = "ready"]
    BY Zenon, <1>9 DEF Wake
  <2> QED
    BY <1>1, <2>2, <2>3
<1>10. Dispatch(t) => pc'[t] = IF state[t] = "Cancelled" THEN "dead" ELSE "run"
  BY <1>3 DEF Dispatch
<1> QED
  BY Zenon, <1>4, <1>5, <1>6, <1>7, <1>8, <1>9, <1>10

\* exitThread and exit end with terminate().
LEMMA Terminates ==
  ASSUME PTypeOK, NEW t \in Threads, ToTerminate(t)
  PROVE  /\ call'[t].op = IF Doing(t, "exit") THEN "quit" ELSE "leave"
         /\ call'[t].op \in {"quit", "leave"}
  BY Begins DEF ToTerminate

\* A thread is where its call allows it to be, step by step.
LEMMA OwnCallStep ==
  ASSUME IInv, Untimed, StoreInv, PTypeOK, NEW t \in Threads, Created(t), CallInv(t), UserStep(t) \/ CallStep(t)
  PROVE  CallInv(t)'
<1>1. /\ \A w \in Threads : WaitOf[w] \in Queues
      /\ Elsewhere \in Queues /\ ThreadLock \in Locks /\ LockOf[Elsewhere] \in Locks
  BY Zenon, ProcessAssumption, ConstantsAssumption
<1>2. Created(t)' /\ call[t].op \in Ops
  BY OwnCall DEF PTypeOK
<1>3. ASSUME call'[t].op \in {"none", "leave", "quit"}, pc'[t] \in {"run", "dead"} PROVE CallInv(t)'
  BY Zenon, <1>2, <1>3 DEF CallInv, Doing
<1>4. ASSUME call'[t].op \in {"exitThread", "joinThread", "P", "V"}, pc'[t] = "held" PROVE CallInv(t)'
  BY Zenon, <1>2, <1>4 DEF CallInv, Doing
<1>5. ASSUME call'[t].op = "exit", call'[t].arg \in Nat, pc'[t] \in {"held", "xCancelBlocking", "xResume"} PROVE CallInv(t)'
  BY Zenon, <1>2, <1>5 DEF CallInv, Doing
<1>6. ASSUME call'[t].op \in {"exitThread", "joining", "P"}, Doing(t, "joining")' => call'[t].arg \in Threads,
             pc'[t] = "suspended", where'[t] = Place(t)'
      PROVE  CallInv(t)'
  BY Zenon, <1>2, <1>6 DEF CallInv, Doing
<1>7. ASSUME call'[t].op \in {"exitThread", "joining", "V"}, Doing(t, "joining")' => call'[t].arg \in Threads,
             pc'[t] = "walk", cur'[t] = Place(t)'
      PROVE  CallInv(t)'
  BY Zenon, <1>2, <1>7 DEF CallInv, Doing
<1>8. ASSUME UNCHANGED <<pc, where, cur>>, call' = call PROVE CallInv(t)'
  BY Zenon, <1>2, <1>8 DEF CallInv, Doing, Place
<1>9. CASE UserStep(t)
  <2>1. CASE \E w \in Threads : CreateThread(t, w)
    BY Zenon, <1>8, <2>1 DEF CreateThread, bsvars
  <2>2. CASE CallExitThread(t)
    BY Zenon, <1>1, <1>4, <2>2, OwnPoint, Begins DEF CallExitThread
  <2>3. CASE \E i \in 1..Len(store.data) : CallJoin(t, i)
    BY Zenon, <1>1, <1>4, <2>3, OwnPoint, Begins DEF CallJoin
  <2>4. CASE CallExit(t)
    <3>1. 1 \in Nat
      OBVIOUS
    <3> QED
      <4>1. Acquire(t, ThreadLock) /\ Begin(t, "exit", 1)
        BY Zenon, <2>4 DEF CallExit
      <4>2. pc'[t] = "held"
        BY Zenon, <1>1, <4>1, OwnPoint
      <4>3. call'[t].op = "exit" /\ call'[t].arg = 1
        BY Zenon, <4>1, Begins
      <4> QED
        BY Zenon, <1>5, <3>1, <4>2, <4>3
  <2>5. CASE \E op \in {"P", "V"} : CallElsewhere(t, op)
    BY Zenon, <1>1, <1>4, <2>5, OwnPoint, Begins DEF CallElsewhere
  <2> QED
    BY Zenon, <1>9, <2>1, <2>2, <2>3, <2>4, <2>5 DEF UserStep
<1>10. CASE CallStep(t)
  <2>1. CASE ExitLast(t) \/ ExitDone(t)
    BY Zenon, <1>1, <1>3, <2>1, OwnPoint, Terminates DEF ExitLast, ExitDone
  <2>2. CASE PostWaits(t)
    <3>1. Doing(t, "exitThread") /\ Block(t, WaitOf[t]) /\ (IF MayBlock(t) THEN UNCHANGED call ELSE ToTerminate(t))
      BY Zenon, <2>2 DEF PostWaits
    <3>2. CASE MayBlock(t)
      <4>1. pc'[t] = "suspended" /\ where'[t] = WaitOf[t] /\ call'[t] = call[t]
        BY Zenon, <1>1, <3>1, <3>2, OwnPoint
      <4>2. call'[t].op = "exitThread" /\ Place(t)' = WaitOf[t]
        BY Zenon, <3>1, <4>1 DEF Place, Doing
      <4> QED
        BY Zenon, <1>6, <4>1, <4>2 DEF Doing
    <3>3. CASE ~MayBlock(t)
      BY Zenon, <1>1, <1>3, <3>1, <3>3, OwnPoint, Terminates
    <3> QED
      BY Zenon, <3>2, <3>3
  <2>3. CASE PostSignals(t)
    <3>1. pc'[t] = "walk" /\ cur'[t] = WaitOf[t] /\ call'[t] = call[t] /\ Doing(t, "exitThread")
      BY Zenon, <1>1, <2>3, OwnPoint DEF PostSignals
    <3>2. call'[t].op = "exitThread" /\ Place(t)' = WaitOf[t]
      BY Zenon, <3>1 DEF Place, Doing
    <3> QED
      BY Zenon, <1>7, <3>1, <3>2 DEF Doing
  <2>4. CASE JoinFails(t)
    BY Zenon, <1>1, <1>3, <2>4, OwnPoint, LeavesCall DEF JoinFails
  <2>5. CASE JoinWaits(t)
    <3>1. PICK w \in Threads :
            Block(t, WaitOf[w]) /\ (IF MayBlock(t) THEN Begin(t, "joining", w) /\ UNCHANGED got ELSE Leaves(t))
      BY Zenon, <2>5, ValidThread DEF JoinWaits, Joinable
    <3>2. CASE MayBlock(t)
      <4>1. pc'[t] = "suspended" /\ where'[t] = WaitOf[w]
        BY Zenon, <1>1, <3>1, <3>2, OwnPoint
      <4>2. call'[t].op = "joining" /\ call'[t].arg = w
        BY Zenon, <3>1, <3>2, Begins
      <4>3. Place(t)' = WaitOf[w]
        BY Zenon, <4>2 DEF Place, Doing
      <4> QED
        BY Zenon, <1>6, <4>1, <4>2, <4>3 DEF Doing
    <3>3. CASE ~MayBlock(t)
      BY Zenon, <1>1, <1>3, <3>1, <3>3, OwnPoint, LeavesCall
    <3> QED
      BY Zenon, <3>2, <3>3
  <2>6. CASE JoinSignals(t)
    <3>1. PICK w \in Threads : StartResume(t, WaitOf[w]) /\ Begin(t, "joining", w)
      BY Zenon, <2>6, ValidThread DEF JoinSignals, Joinable
    <3>2. pc'[t] = "walk" /\ cur'[t] = WaitOf[w]
      BY Zenon, <1>1, <3>1, OwnPoint
    <3>3. call'[t].op = "joining" /\ call'[t].arg = w
      BY Zenon, <3>1, Begins
    <3>4. Place(t)' = WaitOf[w]
      BY Zenon, <3>3 DEF Place, Doing
    <3> QED
      BY Zenon, <1>7, <3>2, <3>3, <3>4 DEF Doing
  <2>7. CASE ExitCancels(t)
    <3>1. Begin(t, "exit", call[t].arg + 1) /\ Doing(t, "exit") /\ pc[t] = "held"
      BY Zenon, <2>7 DEF ExitCancels
    <3>2. call[t].arg \in Nat
      BY Zenon, <3>1 DEF CallInv
    <3>3. call[t].arg + 1 \in Nat
      BY <3>2
    <3>4. UNCHANGED pc \/ \E w \in Threads : Cancel(t, w)
      BY Zenon, <2>7, ValidThread DEF ExitCancels, bsvars
    <3>5. pc'[t] \in {"held", "xCancelBlocking", "xResume"}
      BY Zenon, <3>1, <3>4, OwnPoint
    <3> QED
      BY Zenon, <1>5, <3>1, <3>3, <3>5, Begins
  <2>8. CASE BlockElsewhere(t)
    <3>1. Doing(t, "P") /\ Block(t, Elsewhere) /\ (IF MayBlock(t) THEN UNCHANGED <<call, got>> ELSE Leaves(t))
      BY Zenon, <2>8 DEF BlockElsewhere
    <3>2. CASE MayBlock(t)
      <4>1. pc'[t] = "suspended" /\ where'[t] = Elsewhere /\ call'[t] = call[t]
        BY Zenon, <1>1, <3>1, <3>2, OwnPoint
      <4>2. call'[t].op = "P"
        BY Zenon, <3>1, <4>1 DEF Doing
      <4>3. Place(t)' = Elsewhere
        BY <4>2 DEF Place, Doing
      <4> QED
        BY Zenon, <1>6, <4>1, <4>2, <4>3 DEF Doing
    <3>3. CASE ~MayBlock(t)
      BY Zenon, <1>1, <1>3, <3>1, <3>3, OwnPoint, LeavesCall
    <3> QED
      BY Zenon, <3>2, <3>3
  <2>9. CASE ResumeElsewhere(t)
    <3>1. pc'[t] = "walk" /\ cur'[t] = Elsewhere /\ call'[t] = call[t] /\ Doing(t, "V")
      BY Zenon, <1>1, <2>9, OwnPoint DEF ResumeElsewhere, procvars
    <3>2. call'[t].op = "V"
      BY Zenon, <3>1 DEF Doing
    <3>3. Place(t)' = Elsewhere
      BY <3>2 DEF Place, Doing
    <3> QED
      BY Zenon, <1>7, <3>1, <3>2, <3>3 DEF Doing
  <2>10. CASE Returns(t)
    <3>1. Dispatch(t) \/ Wake(t, "resume", "run") \/ Release(t, LockOf[Elsewhere]) \/ Release(t, ThreadLock)
      BY Zenon, <2>10 DEF Returns
    <3>2. Dispatch(t) => pc'[t] \in {"run", "dead"}
      BY OwnPoint
    <3>3. pc'[t] \in {"run", "dead"}
      BY Zenon, <1>1, <3>1, <3>2, OwnPoint
    <3>4. ToTerminate(t) \/ Leaves(t)
      BY Zenon, <2>10 DEF Returns, CallOver
    <3> QED
      BY Zenon, <1>3, <3>3, <3>4, LeavesCall, Terminates
  <2>11. CASE Inside(t)
    <3>1. call'[t] = call[t] /\ (TryUnblock(t) \/ ResumeMisses(t) \/ CancelBlocking(t) \/ Wake(t, "xResume", "held"))
      BY Zenon, <2>11 DEF Inside, procvars
    <3>2. \A op : Doing(t, op)' <=> Doing(t, op)
      BY Zenon, <3>1 DEF Doing
    <3>3. Place(t)' = Place(t)
      BY Zenon, <3>1, <3>2 DEF Place
    <3>4. CASE TryUnblock(t) \/ ResumeMisses(t)
      <4>1. pc[t] = "walk"
        BY Zenon, <3>4 DEF TryUnblock, ResumeMisses
      <4>2. call[t].op \in {"exitThread", "joining", "V"} /\ cur[t] = Place(t)
        BY Zenon, <1>2, <4>1 DEF CallInv, Ops, Doing
      <4>3. pc'[t] = "resume" \/ pc'[t] = "missed" \/ (pc'[t] = "walk" /\ cur'[t] = cur[t])
        BY Zenon, <3>4, <4>1, OwnPoint
      <4>4. Doing(t, "joining") => call[t].arg \in Threads
        BY Zenon DEF CallInv
      <4> QED
        BY Zenon, <1>2, <3>1, <3>2, <3>3, <4>2, <4>3, <4>4 DEF CallInv, Doing
    <3>5. CASE CancelBlocking(t) \/ Wake(t, "xResume", "held")
      <4>1. pc[t] \in {"xCancelBlocking", "xResume"}
        BY Zenon, <3>5 DEF CancelBlocking, Wake
      <4>2. Doing(t, "exit") /\ call[t].arg \in Nat
        BY Zenon, <1>2, <4>1 DEF CallInv, Ops, Doing
      <4>3. pc'[t] \in {"held", "xResume"}
        BY Zenon, <3>5, OwnPoint
      <4> QED
        BY Zenon, <1>5, <3>1, <4>2, <4>3 DEF Doing
    <3> QED
      BY Zenon, <3>1, <3>4, <3>5
  <2>12. CASE Finishes(t)
    <3>1. Terminate(t) \/ FinishCancelled(t)
      BY Zenon, <2>12 DEF Finishes
    <3>2. Leaves(t) \/ (Doing(t, "quit") /\ call' = call)
      BY Zenon, <2>12 DEF Finishes
    <3>3. call'[t].op \in {"none", "quit"}
      BY Zenon, <3>2, LeavesCall DEF Doing
    <3> QED
      BY Zenon, <1>3, <3>1, <3>3, OwnPoint
  <2>13. CASE PostResume(t) \/ DestroyThread(t)
    BY Zenon, <1>8, <2>13 DEF PostResume, DestroyThread, bsvars
  <2> QED
    BY Zenon, <1>10, <2>1, <2>2, <2>3, <2>4, <2>5, <2>6, <2>7, <2>8, <2>9, <2>10, <2>11, <2>12, <2>13 DEF CallStep
<1> QED
  BY Zenon, <1>9, <1>10

\* What the threads and the store are like, whatever they join.
Base ==
  /\ SizeCounts
  /\ IInv /\ LockInv /\ Untimed /\ PTypeOK /\ StoreInv
  /\ \A t \in Threads : CallInv(t)

\* Base is inductive by itself.
LEMMA BaseStep ==
  ASSUME Base, NEW t \in Threads, Created(t), UserStep(t) \/ CallStep(t)
  PROVE  Base'
<1>1. SizeCounts /\ IInv /\ LockInv /\ Untimed /\ PTypeOK /\ StoreInv /\ \A x \in Threads : CallInv(x)
  BY Zenon DEF Base
<1>2. IInv' /\ LockInv'
  BY Zenon, <1>1, BlockingInvStep
<1>3. Untimed' /\ PTypeOK' /\ StoreInv'
  BY Zenon, <1>1, UntimedStep, PTypeStep, StoreStep
<1>4. \A x \in Threads : CallInv(x)'
  BY Zenon, <1>1, OtherCallStep, OwnCallStep
<1>5. SizeCounts'
  BY Zenon, <1>1 DEF SizeCounts
<1> QED
  BY Zenon, <1>2, <1>3, <1>4, <1>5 DEF Base

-----------------------------------------------------------------------------
(* The meeting of post() and join(). *)

\* Who waits at the wait condition of w is w itself, in post(), or a thread that
\* joins w.
LEMMA AtWait ==
  ASSUME Base, NEW w \in Threads, NEW x \in Range(bq[WaitOf[w]])
  PROVE  /\ x \in Threads /\ pc[x] = "suspended" /\ where[x] = WaitOf[w]
         /\ (Doing(x, "exitThread") /\ x = w) \/ (Doing(x, "joining") /\ call[x].arg = w)
<1>1. IInv /\ CallInv(x) /\ PTypeOK
  <2>1. WaitOf[w] \in Queues
    BY Zenon, ProcessAssumption
  <2>2. x \in Threads
    BY Zenon, <2>1, QueuedAreThreads DEF Base, IInv
  <2> QED
    BY Zenon, <2>2 DEF Base
<1>2. WaitOf[w] \in Queues /\ WaitOf[w] # Elsewhere /\ \A u \in Threads : WaitOf[u] = WaitOf[w] => u = w
  BY Zenon, ProcessAssumption
<1>3. x \in Threads
  BY Zenon, <1>1, <1>2, QueuedAreThreads DEF IInv
<1>4. pc[x] = "suspended" /\ where[x] = WaitOf[w]
  BY Zenon, <1>1, <1>2 DEF IInv, Core, NoStaleLinks
<1>5. Place(x) = WaitOf[w]
  BY Zenon, <1>1, <1>4 DEF CallInv
<1>6. CASE Doing(x, "exitThread")
  <2>1. WaitOf[x] = WaitOf[w]
    BY Zenon, <1>5, <1>6 DEF Place
  <2> QED
    BY Zenon, <1>2, <1>3, <1>4, <1>6, <2>1
<1>7. CASE ~Doing(x, "exitThread") /\ Doing(x, "joining")
  <2>1. WaitOf[call[x].arg] = WaitOf[w]
    BY Zenon, <1>5, <1>7 DEF Place
  <2>2. call[x].arg \in Threads
    BY Zenon, <1>1, <1>7 DEF CallInv
  <2> QED
    BY Zenon, <1>2, <1>3, <1>4, <1>7, <2>1, <2>2
<1>8. ~(~Doing(x, "exitThread") /\ ~Doing(x, "joining"))
  BY Zenon, <1>2, <1>5 DEF Place
<1> QED
  BY Zenon, <1>6, <1>7, <1>8

\* The steps that let no thread in at a wait condition and win none there.
Quiet(t) ==
  \/ UNCHANGED bsvars \/ DeadCancel
  \/ \E l \in Locks : Acquire(t, l) \/ Release(t, l)
  \/ \E w \in Threads : Cancel(t, w)
  \/ ResumeMisses(t) \/ CancelBlocking(t)
  \/ Wake(t, "xResume", "held") \/ Wake(t, "resume", "run")
  \/ Dispatch(t) \/ FinishCancelled(t) \/ Terminate(t)
  \/ Block(t, Elsewhere) \/ StartResume(t, Elsewhere)

\* What they leave of the wait conditions and of the threads that run.
LEMMA QuietStep ==
  ASSUME IInv, NEW t \in Threads, Quiet(t)
  PROVE  /\ \A x \in Threads : state'[x] = "Running" => state[x] = "Running"
         /\ \A w \in Threads : Range(bq'[WaitOf[w]]) \subseteq Range(bq[WaitOf[w]])
         /\ ~CancelBlocking(t) => \A w \in Threads : bq'[WaitOf[w]] = bq[WaitOf[w]]
<1>1. /\ \A w \in Threads : WaitOf[w] \in Queues /\ WaitOf[w] # Elsewhere
      /\ Elsewhere \in Queues /\ t \in Actors
  BY Zenon, ProcessAssumption DEF Actors
<1>2. state \in [Threads -> ThreadState] /\ bq \in [Queues -> Seq(Threads)]
  BY Zenon DEF IInv, TypeOK
<1>3. ASSUME NEW w \in Threads, NEW l \in {"Cancelled", "Finishing", "Blocked"}, state' = [state EXCEPT ![w] = l]
      PROVE  \A x \in Threads : state'[x] = "Running" => state[x] = "Running"
  BY <1>2, <1>3
<1>4. CASE UNCHANGED bsvars
  BY Zenon, <1>4 DEF bsvars
<1>5. CASE DeadCancel
  BY Zenon, <1>3, <1>5 DEF DeadCancel
<1>6. CASE \E l \in Locks : Acquire(t, l) \/ Release(t, l)
  BY Zenon, <1>6 DEF Acquire, Release
<1>7. CASE \E w \in Threads : Cancel(t, w)
  BY Zenon, <1>3, <1>7 DEF Cancel
<1>8. CASE ResumeMisses(t) \/ Wake(t, "xResume", "held") \/ Wake(t, "resume", "run")
  BY Zenon, <1>8 DEF ResumeMisses, Wake
<1>9. CASE FinishCancelled(t) \/ Terminate(t) \/ Dispatch(t)
  BY Zenon, <1>3, <1>9 DEF FinishCancelled, Terminate, Dispatch
<1>10. CASE Block(t, Elsewhere)
  <2>1. None # Elsewhere
    BY Zenon, <1>1, ConstantsAssumption
  <2>2. \/ UNCHANGED <<state, bq>>
        \/ state' = [state EXCEPT ![t] = "Blocked"] /\ bq' = [bq EXCEPT ![Elsewhere] = Append(@, t)]
    BY Zenon, <1>10, <2>1 DEF Block, Suspend
  <2>3. \A x \in Threads : state'[x] = "Running" => state[x] = "Running"
    BY Zenon, <1>3, <2>2
  <2>4. \A w \in Threads : bq'[WaitOf[w]] = bq[WaitOf[w]]
    BY <1>1, <1>2, <2>2
  <2> QED
    BY Zenon, <2>3, <2>4
<1>11. CASE StartResume(t, Elsewhere)
  BY Zenon, <1>11 DEF StartResume
<1>12. CASE CancelBlocking(t)
  <2>1. PICK v \in Threads, q \in Queues : bq' = [bq EXCEPT ![q] = Unlink(@, v)] /\ v \in Range(bq[q]) /\ IsInjective(bq[q])
    <3>1. /\ pc[t] = "xCancelBlocking"
          /\ bq' = [bq EXCEPT ![where[victim[t]]] = Unlink(@, victim[t])]
      BY Zenon, <1>12 DEF CancelBlocking
    <3>2. victim[t] \in Threads
      BY Zenon, <1>1, <3>1, WonThread DEF WakePC, CancelPC
    <3>3. where[victim[t]] # None /\ StillQueued(victim[t])
      BY Zenon, <1>1, <3>1 DEF IInv, Core, ClaimInv
    <3>4. where[victim[t]] \in Queues
      BY Zenon, <3>2, <3>3 DEF IInv, TypeOK
    <3>5. victim[t] \in Range(bq[where[victim[t]]])
      BY Zenon, <3>3 DEF StillQueued, OnQueue
    <3>6. IsInjective(bq[where[victim[t]]])
      BY Zenon, <3>4 DEF IInv, Core, NoStaleLinks
    <3> QED
      BY Zenon, <3>1, <3>2, <3>4, <3>5, <3>6
  <2>2. bq[q] \in Seq(Threads)
    BY Zenon, <1>2
  <2>3. Range(Unlink(bq[q], v)) = Range(bq[q]) \ {v}
    BY Zenon, <2>1, <2>2, RemoveElement
  <2>4. \A r \in Queues : bq'[r] = IF r = q THEN Unlink(bq[q], v) ELSE bq[r]
    BY <1>2, <2>1
  <2>5. \A r \in Queues : Range(bq'[r]) \subseteq Range(bq[r])
    <3>1. bq'[q] = Unlink(bq[q], v) /\ \A r \in Queues : r # q => bq'[r] = bq[r]
      BY <2>4
    <3> QED
      BY Zenon, <2>3, <3>1
  <2>6. UNCHANGED state
    BY Zenon, <1>12 DEF CancelBlocking
  <2> QED
    BY Zenon, <1>1, <1>12, <2>5, <2>6
<1> QED
  BY Zenon, <1>4, <1>5, <1>6, <1>7, <1>8, <1>9, <1>10, <1>11, <1>12 DEF Quiet

\* JoinInv reads no more than this.
LEMMA JoinFrame ==
  ASSUME JoinInv, UNCHANGED <<joinState, result>>,
         \A x \in Threads : Doing(x, "joining")' =>
           /\ Doing(x, "joining") /\ call'[x] = call[x] /\ got'[x] = got[x]
           /\ state'[x] = "Running" => state[x] = "Running" \/ got[x] = call[x].arg,
         \A w \in Threads : Range(bq'[WaitOf[w]]) \subseteq Range(bq[WaitOf[w]]),
         \A w \in Threads : \A x \in Range(bq'[WaitOf[w]]) : got'[x] = got[x],
         \A w \in Threads : Doing(w, "exitThread")' /\ pc'[w] = "walk" => Doing(w, "exitThread") /\ pc[w] = "walk"
  PROVE  JoinInv'
<1>1. \A x \in Threads : Doing(x, "joining")' => joinState'[call'[x].arg] = "Joining"
  <2>1. \A x \in Threads : Doing(x, "joining")' => Doing(x, "joining") /\ call'[x] = call[x]
    BY Zenon
  <2>2. \A x \in Threads : Doing(x, "joining") => joinState[call[x].arg] = "Joining"
    BY Zenon DEF JoinInv
  <2> QED
    BY Zenon, <2>1, <2>2
<1>2. \A x, u \in Threads :
        Doing(x, "joining")' /\ Doing(u, "joining")' /\ call'[x].arg = call'[u].arg => x = u
  <2>1. \A x, u \in Threads :
          Doing(x, "joining") /\ Doing(u, "joining") /\ call[x].arg = call[u].arg => x = u
    BY Zenon DEF JoinInv
  <2>2. \A x \in Threads : Doing(x, "joining")' => Doing(x, "joining") /\ call'[x] = call[x]
    BY Zenon
  <2> QED
    BY Zenon, <2>1, <2>2
<1>3. \A w \in Threads : \A x \in Range(bq'[WaitOf[w]]) : result'[w] = x
  BY Zenon DEF JoinInv
<1>4. \A x \in Threads : Doing(x, "joining")' /\ state'[x] = "Running" => got'[x] = call'[x].arg
  BY Zenon DEF JoinInv
<1>5. \A w \in Threads : Doing(w, "exitThread")' /\ pc'[w] = "walk" => \A x \in Range(bq'[WaitOf[w]]) : got'[x] = w
  BY Zenon DEF JoinInv
<1> QED
  BY Zenon, <1>1, <1>2, <1>3, <1>4, <1>5 DEF JoinInv

\* A quiet step that does not touch the join itself.
LEMMA JoinQuiet ==
  ASSUME Base, JoinInv, NEW t \in Threads, UserStep(t) \/ CallStep(t), Quiet(t),
         UNCHANGED <<joinState, result>>, pc[t] # "suspended",
         got' = got \/ Leaves(t),
         Doing(t, "joining")' => call'[t] = call[t] /\ got' = got,
         Doing(t, "exitThread")' => pc'[t] # "walk"
  PROVE  JoinInv'
<1>1. IInv /\ PTypeOK /\ StoreInv
  BY Zenon DEF Base
<1>2. /\ \A x \in Threads : state'[x] = "Running" => state[x] = "Running"
      /\ \A w \in Threads : Range(bq'[WaitOf[w]]) \subseteq Range(bq[WaitOf[w]])
  BY Zenon, <1>1, QuietStep
<1>3. \A x \in Threads : x # t => call'[x] = call[x] /\ got'[x] = got[x]
  BY Zenon, <1>1, OwnCall, LeavesCall
<1>4. \A x \in Threads : Doing(x, "joining")' => Doing(x, "joining") /\ call'[x] = call[x] /\ got'[x] = got[x]
  BY Zenon, <1>3 DEF Doing
<1>5. \A w \in Threads : \A x \in Range(bq'[WaitOf[w]]) : got'[x] = got[x]
  <2>1. \A w \in Threads : \A x \in Range(bq[WaitOf[w]]) : x \in Threads /\ x # t
    <3>1. ASSUME NEW w \in Threads, NEW x \in Range(bq[WaitOf[w]]) PROVE x \in Threads /\ pc[x] = "suspended"
      BY Zenon, AtWait
    <3> QED
      BY Zenon, <3>1
  <2> QED
    BY Zenon, <1>2, <1>3, <2>1
<1>6. \A w \in Threads : Doing(w, "exitThread")' /\ pc'[w] = "walk" => Doing(w, "exitThread") /\ pc[w] = "walk"
  <2>1. \A x \in Threads : x # t => pc'[x] = pc[x] \/ pc'[x] = "ready"
    BY Zenon, <1>1, OtherThread
  <2> QED
    BY Zenon, <1>3, <2>1 DEF Doing
<1> QED
  BY Zenon, <1>2, <1>4, <1>5, <1>6, JoinFrame

\* Blocking at a wait condition that is empty puts the thread alone there.
LEMMA BlocksAlone ==
  ASSUME IInv, NEW t \in Threads, NEW w \in Threads, bq[WaitOf[w]] = <<>>, Block(t, WaitOf[w])
  PROVE  /\ \A x \in Range(bq'[WaitOf[w]]) : x = t /\ MayBlock(t)
         /\ \A v \in Threads : v # w => bq'[WaitOf[v]] = bq[WaitOf[v]]
         /\ \A x \in Threads : x # t => state'[x] = state[x]
         /\ MayBlock(t) => state'[t] = "Blocked"
         /\ ~MayBlock(t) => bq' = bq /\ state' = state
         /\ lock[ThreadLock] = t
<1>1. /\ WaitOf[w] \in Queues /\ WaitOf[w] # None /\ LockOf[WaitOf[w]] = ThreadLock
      /\ \A v \in Threads : WaitOf[v] \in Queues /\ (v # w => WaitOf[v] # WaitOf[w])
  BY Zenon, ProcessAssumption, ConstantsAssumption
<1>2. state \in [Threads -> ThreadState] /\ bq \in [Queues -> Seq(Threads)]
  BY Zenon DEF IInv, TypeOK
<1>3. lock[ThreadLock] = t
  BY Zenon, <1>1 DEF Block
<1>4. Range(<<>>) = {}
  BY DEF Range
<1>5. CASE MayBlock(t)
  <2>1. state' = [state EXCEPT ![t] = "Blocked"] /\ bq' = [bq EXCEPT ![WaitOf[w]] = Append(bq[WaitOf[w]], t)]
    BY Zenon, <1>1, <1>5 DEF Block, Suspend
  <2>2. bq'[WaitOf[w]] = Append(bq[WaitOf[w]], t) /\ \A v \in Threads : v # w => bq'[WaitOf[v]] = bq[WaitOf[v]]
    BY <1>1, <1>2, <2>1
  <2>3. bq[WaitOf[w]] \in Seq(Threads) /\ Range(bq[WaitOf[w]]) = {}
    BY Zenon, <1>1, <1>2, <1>4
  <2>4. Range(Append(bq[WaitOf[w]], t)) = Range(bq[WaitOf[w]]) \cup {t}
    <3>1. \A q \in Seq(Threads) : Range(Append(q, t)) = Range(q) \cup {t}
      BY AppendElement
    <3> QED
      BY Zenon, <2>3, <3>1
  <2>5. state'[t] = "Blocked" /\ \A x \in Threads : x # t => state'[x] = state[x]
    BY <1>2, <2>1
  <2> QED
    BY Zenon, <1>3, <1>5, <2>2, <2>3, <2>4, <2>5
<1>6. CASE ~MayBlock(t)
  <2>1. UNCHANGED <<state, bq>>
    BY Zenon, <1>6 DEF Block
  <2>2. Range(bq[WaitOf[w]]) = {}
    BY Zenon, <1>4
  <2> QED
    BY Zenon, <1>3, <1>6, <2>1, <2>2
<1> QED
  BY Zenon, <1>5, <1>6

\* The thread that walks a wait condition holds threadLock, so nobody else is in
\* post(), join() or exit().
LEMMA WalkHolds ==
  ASSUME Base, NEW w \in Threads, Doing(w, "exitThread") \/ Doing(w, "joining"), pc[w] = "walk"
  PROVE  lock[ThreadLock] = w
<1>1. CallInv(w) /\ LockInv
  BY Zenon DEF Base
<1>2. cur[w] = Place(w)
  BY Zenon, <1>1 DEF CallInv
<1>3. \E v \in Threads : Place(w) = WaitOf[v]
  BY <1>1 DEF Place, CallInv
<1>4. LockOf[cur[w]] = ThreadLock
  BY Zenon, <1>2, <1>3, ProcessAssumption
<1> QED
  BY Zenon, <1>1, <1>4 DEF LockInv

\* post() without a join: the result is published with the thread.
LEMMA JoinPostWaits ==
  ASSUME Base, JoinInv, NEW t \in Threads, PostWaits(t)
  PROVE  JoinInv'
<1>1. IInv /\ PTypeOK /\ StoreInv /\ CallStep(t)
  BY Zenon DEF Base, CallStep
<1>2. /\ Doing(t, "exitThread") /\ pc[t] = "held" /\ bq[WaitOf[t]] = <<>> /\ Block(t, WaitOf[t])
      /\ UNCHANGED <<joinState, got>> /\ result' = [result EXCEPT ![t] = t]
      /\ UNCHANGED call \/ ToTerminate(t)
  BY Zenon DEF PostWaits
<1>3. /\ \A x \in Range(bq'[WaitOf[t]]) : x = t
      /\ \A v \in Threads : v # t => bq'[WaitOf[v]] = bq[WaitOf[v]]
      /\ \A x \in Threads : x # t => state'[x] = state[x]
  BY Zenon, <1>1, <1>2, BlocksAlone
<1>4. result'[t] = t /\ \A v \in Threads : v # t => result'[v] = result[v]
  BY Zenon, <1>1, <1>2 DEF PTypeOK
<1>5. \A x \in Threads : x # t => call'[x] = call[x]
  BY Zenon, <1>1, OwnCall
<1>6. ~Doing(t, "joining")'
  BY Zenon, <1>1, <1>2, Terminates DEF Doing
<1>7. pc'[t] # "walk"
  <2>1. WaitOf[t] \in Queues
    BY Zenon, ProcessAssumption
  <2>2. IF MayBlock(t) THEN pc'[t] = "suspended" ELSE pc'[t] = "run"
    BY Zenon, <1>1, <1>2, <2>1, OwnPoint DEF Base
  <2> QED
    BY <2>2
<1>8. \A x \in Threads : x # t => pc'[x] = pc[x] \/ pc'[x] = "ready"
  BY Zenon, <1>1, OtherThread
<1>9. \A x \in Threads : Doing(x, "joining")' => Doing(x, "joining") /\ call'[x] = call[x] /\ state'[x] = state[x]
  BY Zenon, <1>3, <1>5, <1>6 DEF Doing
<1>10. \A x \in Threads : Doing(x, "joining")' => joinState'[call'[x].arg] = "Joining"
  <2>1. \A x \in Threads : Doing(x, "joining") => joinState[call[x].arg] = "Joining"
    BY Zenon DEF JoinInv
  <2> QED
    BY Zenon, <1>2, <1>9, <2>1
<1>11. \A x, u \in Threads : Doing(x, "joining")' /\ Doing(u, "joining")' /\ call'[x].arg = call'[u].arg => x = u
  <2>1. \A x, u \in Threads : Doing(x, "joining") /\ Doing(u, "joining") /\ call[x].arg = call[u].arg => x = u
    BY Zenon DEF JoinInv
  <2> QED
    BY Zenon, <1>9, <2>1
<1>12. \A w \in Threads : \A x \in Range(bq'[WaitOf[w]]) : result'[w] = x
  <2>1. \A w \in Threads : \A x \in Range(bq[WaitOf[w]]) : result[w] = x
    BY Zenon DEF JoinInv
  <2> QED
    BY Zenon, <1>3, <1>4, <2>1
<1>13. \A x \in Threads : Doing(x, "joining")' /\ state'[x] = "Running" => got'[x] = call'[x].arg
  BY Zenon, <1>2, <1>9 DEF JoinInv
<1>14. \A w \in Threads : Doing(w, "exitThread")' /\ pc'[w] = "walk" => \A x \in Range(bq'[WaitOf[w]]) : got'[x] = w
  <2>1. \A w \in Threads : Doing(w, "exitThread")' /\ pc'[w] = "walk" => w # t /\ Doing(w, "exitThread") /\ pc[w] = "walk"
    BY Zenon, <1>5, <1>7, <1>8 DEF Doing
  <2> QED
    BY Zenon, <1>2, <1>3, <2>1 DEF JoinInv
<1> QED
  BY Zenon, <1>10, <1>11, <1>12, <1>13, <1>14 DEF JoinInv

\* post() with a join: the value is there before the thread that joins is won.
LEMMA JoinPostSignals ==
  ASSUME Base, JoinInv, NEW t \in Threads, PostSignals(t)
  PROVE  JoinInv'
<1>1. IInv /\ PTypeOK /\ StoreInv /\ CallStep(t)
  BY Zenon DEF Base, CallStep
<1>2. /\ Doing(t, "exitThread") /\ pc[t] = "held" /\ bq[WaitOf[t]] # <<>> /\ StartResume(t, WaitOf[t])
      /\ UNCHANGED <<joinState, result, call>> /\ got' = [got EXCEPT ![result[t]] = t]
  BY Zenon DEF PostSignals
<1>3. UNCHANGED <<bq, state>>
  BY Zenon, <1>2 DEF StartResume
<1>4. PICK y \in Range(bq[WaitOf[t]]) : TRUE
  <2>1. bq[WaitOf[t]] \in Seq(Threads)
    BY Zenon, <1>1, ProcessAssumption DEF IInv, TypeOK
  <2>2. \A q \in Seq(Threads) : q # <<>> => q[1] \in Range(q)
    BY SeqLength, SeqEmpty DEF Range
  <2> QED
    BY Zenon, <1>2, <2>1, <2>2
<1>5. y \in Threads /\ pc[y] = "suspended" /\ where[y] = WaitOf[t] /\ Doing(y, "joining") /\ call[y].arg = t /\ result[t] = y
  <2>1. y # t
    BY Zenon, <1>2, AtWait
  <2> QED
    BY Zenon, <2>1, AtWait DEF JoinInv
<1>6. got'[y] = t /\ \A x \in Threads : x # y => got'[x] = got[x]
  <2>1. got \in [Threads -> Threads \cup {Hole}] /\ got' = [got EXCEPT ![y] = t]
    BY Zenon, <1>1, <1>2, <1>5 DEF PTypeOK
  <2> QED
    BY <1>5, <2>1
<1>7. \A x \in Threads : x # t => pc'[x] = pc[x] \/ pc'[x] = "ready"
  BY Zenon, <1>1, OtherThread
<1>8. \A x \in Threads : \A op : Doing(x, op)' <=> Doing(x, op)
  BY Zenon, <1>2 DEF Doing
<1>9. \A x \in Threads : Doing(x, "joining")' /\ state'[x] = "Running" => got'[x] = call'[x].arg
  <2>1. \A x \in Threads : Doing(x, "joining") /\ state[x] = "Running" => got[x] = call[x].arg
    BY Zenon DEF JoinInv
  <2> QED
    BY Zenon, <1>2, <1>3, <1>5, <1>6, <1>8, <2>1
<1>10. ASSUME NEW w \in Threads, Doing(w, "exitThread")', pc'[w] = "walk", NEW x \in Range(bq'[WaitOf[w]]) PROVE got'[x] = w
  <2>1. x \in Range(bq[WaitOf[w]])
    BY Zenon, <1>3
  <2>2. CASE w = t
    BY Zenon, <1>5, <1>6, <2>1, <2>2 DEF JoinInv
  <2>3. CASE w # t
    <3>1. Doing(w, "exitThread") /\ pc[w] = "walk"
      BY Zenon, <1>7, <1>8, <1>10, <2>3
    <3>2. x \in Threads /\ where[x] = WaitOf[w]
      BY Zenon, <2>1, AtWait
    <3>3. x # y
      BY Zenon, <1>5, <2>3, <3>2, ProcessAssumption
    <3>4. got[x] = w
      BY Zenon, <2>1, <3>1 DEF JoinInv
    <3> QED
      BY Zenon, <1>6, <3>2, <3>3, <3>4
  <2> QED
    BY Zenon, <2>2, <2>3
<1>11. \A x \in Threads : Doing(x, "joining")' => joinState'[call'[x].arg] = "Joining"
  BY Zenon, <1>2, <1>8 DEF JoinInv
<1>12. \A x, u \in Threads : Doing(x, "joining")' /\ Doing(u, "joining")' /\ call'[x].arg = call'[u].arg => x = u
  BY Zenon, <1>2, <1>8 DEF JoinInv
<1>13. \A w \in Threads : \A x \in Range(bq'[WaitOf[w]]) : result'[w] = x
  BY Zenon, <1>2, <1>3 DEF JoinInv
<1> QED
  BY Zenon, <1>9, <1>10, <1>11, <1>12, <1>13 DEF JoinInv

\* The parts of JoinInv that both outcomes of join() restore: w was not joined.
LEMMA JoinBegins ==
  ASSUME Base, JoinInv, NEW t \in Threads, NEW w \in Threads, joinState[w] = "Regular",
         joinState' = [joinState EXCEPT ![w] = "Joining"],
         \A x \in Threads : x # t => call'[x] = call[x],
         Doing(t, "joining")' => call'[t].arg = w
  PROVE  /\ \A x \in Threads : Doing(x, "joining")' => joinState'[call'[x].arg] = "Joining"
         /\ \A x, u \in Threads : Doing(x, "joining")' /\ Doing(u, "joining")' /\ call'[x].arg = call'[u].arg => x = u
<1>1. joinState \in [Threads -> {"Regular", "Joining"}]
  BY Zenon DEF Base, PTypeOK
<1>2. joinState'[w] = "Joining" /\ \A v \in Threads : v # w => joinState'[v] = joinState[v]
  BY <1>1
<1>3. \A x \in Threads : Doing(x, "joining") => call[x].arg \in Threads /\ joinState[call[x].arg] = "Joining" /\ call[x].arg # w
  <2>1. \A x \in Threads : Doing(x, "joining") => call[x].arg \in Threads
    BY Zenon DEF Base, CallInv
  <2>2. \A x \in Threads : Doing(x, "joining") => joinState[call[x].arg] = "Joining"
    BY Zenon DEF JoinInv
  <2>3. "Regular" # "Joining"
    OBVIOUS
  <2> QED
    BY Zenon, <2>1, <2>2, <2>3
<1>4. \A x \in Threads : x # t => (Doing(x, "joining")' <=> Doing(x, "joining"))
  BY Zenon DEF Doing
<1>5. ASSUME NEW x \in Threads, Doing(x, "joining")' PROVE joinState'[call'[x].arg] = "Joining"
  <2>1. CASE x = t
    BY Zenon, <1>2, <1>5, <2>1
  <2>2. CASE x # t
    BY Zenon, <1>2, <1>3, <1>4, <1>5, <2>2
  <2> QED
    BY Zenon, <2>1, <2>2
<1>6. ASSUME NEW x \in Threads, NEW u \in Threads, Doing(x, "joining")', Doing(u, "joining")', call'[x].arg = call'[u].arg
      PROVE  x = u
  <2>1. CASE x = t /\ u # t
    BY Zenon, <1>3, <1>4, <1>6, <2>1
  <2>2. CASE x # t /\ u = t
    BY Zenon, <1>3, <1>4, <1>6, <2>2
  <2>3. CASE x # t /\ u # t
    BY Zenon, <1>4, <1>6, <2>3 DEF JoinInv
  <2> QED
    BY Zenon, <2>1, <2>2, <2>3
<1> QED
  BY Zenon, <1>5, <1>6

\* join() before post(): the thread is joined and waits alone.
LEMMA JoinJoinWaits ==
  ASSUME Base, JoinInv, NEW t \in Threads, JoinWaits(t)
  PROVE  JoinInv'
<1>1. IInv /\ PTypeOK /\ StoreInv /\ CallStep(t)
  BY Zenon DEF Base, CallStep
<1>2. PICK w \in Threads :
        /\ joinState[w] = "Regular" /\ bq[WaitOf[w]] = <<>> /\ Block(t, WaitOf[w])
        /\ joinState' = [joinState EXCEPT ![w] = "Joining"] /\ result' = [result EXCEPT ![w] = t]
        /\ IF MayBlock(t) THEN Begin(t, "joining", w) /\ UNCHANGED got ELSE Leaves(t)
  BY Zenon, <1>1, ValidThread DEF JoinWaits, Joinable
<1>3. /\ \A x \in Range(bq'[WaitOf[w]]) : x = t
      /\ \A v \in Threads : v # w => bq'[WaitOf[v]] = bq[WaitOf[v]]
      /\ \A x \in Threads : x # t => state'[x] = state[x]
      /\ MayBlock(t) => state'[t] = "Blocked"
      /\ lock[ThreadLock] = t
  BY Zenon, <1>1, <1>2, BlocksAlone
<1>4. result'[w] = t /\ \A v \in Threads : v # w => result'[v] = result[v]
  BY Zenon, <1>1, <1>2 DEF PTypeOK
<1>5. \A x \in Threads : x # t => call'[x] = call[x]
  BY Zenon, <1>1, OwnCall
<1>6. /\ MayBlock(t) => call'[t].op = "joining" /\ call'[t].arg = w
      /\ ~MayBlock(t) => call'[t].op = "none"
  BY ZenonT(60), <1>1, <1>2, Begins, LeavesCall
<1>7. \A x \in Threads : x # t => got'[x] = got[x]
  BY Zenon, <1>1, <1>2, LeavesCall
<1>8. Doing(t, "joining")' => MayBlock(t) /\ call'[t].arg = w
  BY Zenon, <1>6 DEF Doing
<1>9. /\ \A x \in Threads : Doing(x, "joining")' => joinState'[call'[x].arg] = "Joining"
      /\ \A x, u \in Threads : Doing(x, "joining")' /\ Doing(u, "joining")' /\ call'[x].arg = call'[u].arg => x = u
  BY Zenon, <1>2, <1>5, <1>8, JoinBegins
<1>10. \A v \in Threads : \A x \in Range(bq'[WaitOf[v]]) : result'[v] = x
  <2>1. \A v \in Threads : \A x \in Range(bq[WaitOf[v]]) : result[v] = x
    BY Zenon DEF JoinInv
  <2> QED
    BY Zenon, <1>3, <1>4, <2>1
<1>11. ASSUME NEW x \in Threads, Doing(x, "joining")', state'[x] = "Running" PROVE got'[x] = call'[x].arg
  <2>1. x # t
    BY Zenon, <1>3, <1>8, <1>11
  <2>2. Doing(x, "joining") /\ call'[x] = call[x]
    BY Zenon, <1>5, <1>11, <2>1 DEF Doing
  <2> QED
    BY Zenon, <1>3, <1>7, <1>11, <2>1, <2>2 DEF JoinInv
<1>12. ASSUME NEW v \in Threads, Doing(v, "exitThread")', pc'[v] = "walk" PROVE FALSE
  <2>1. v # t
    BY Zenon, <1>6, <1>12 DEF Doing
  <2>2. Doing(v, "exitThread") /\ pc[v] = "walk"
    <3>1. pc'[v] = pc[v] \/ pc'[v] = "ready"
      BY Zenon, <1>1, <2>1, OtherThread
    <3> QED
      BY Zenon, <1>5, <1>12, <2>1, <3>1 DEF Doing
  <2> QED
    BY Zenon, <1>3, <2>1, <2>2, WalkHolds
<1> QED
  BY Zenon, <1>9, <1>10, <1>11, <1>12 DEF JoinInv

\* join() after post(): the thread that waits is the one that has exited, and
\* its value is the one fetched.
LEMMA JoinJoinSignals ==
  ASSUME Base, JoinInv, NEW t \in Threads, JoinSignals(t)
  PROVE  JoinInv'
<1>1. IInv /\ PTypeOK /\ StoreInv /\ CallStep(t)
  BY Zenon DEF Base, CallStep
<1>2. PICK w \in Threads :
        /\ joinState[w] = "Regular" /\ bq[WaitOf[w]] # <<>> /\ StartResume(t, WaitOf[w])
        /\ joinState' = [joinState EXCEPT ![w] = "Joining"] /\ UNCHANGED result
        /\ got' = [got EXCEPT ![t] = result[w]] /\ Begin(t, "joining", w)
  BY Zenon, <1>1, ValidThread DEF JoinSignals, Joinable
<1>3. UNCHANGED <<bq, state>> /\ lock[ThreadLock] = t
  BY Zenon, <1>2, ProcessAssumption DEF StartResume
<1>4. call'[t].op = "joining" /\ call'[t].arg = w /\ \A x \in Threads : x # t => call'[x] = call[x]
  BY Zenon, <1>1, <1>2, Begins
<1>5. got'[t] = result[w] /\ \A x \in Threads : x # t => got'[x] = got[x]
  BY Zenon, <1>1, <1>2 DEF PTypeOK
<1>6. result[w] = w
  <2>1. PICK y \in Range(bq[WaitOf[w]]) : TRUE
    <3>1. bq[WaitOf[w]] \in Seq(Threads)
      BY Zenon, <1>1, ProcessAssumption DEF IInv, TypeOK
    <3>2. \A q \in Seq(Threads) : q # <<>> => q[1] \in Range(q)
      BY SeqLength, SeqEmpty DEF Range
    <3> QED
      BY Zenon, <1>2, <3>1, <3>2
  <2>2. y \in Threads /\ (y = w \/ (Doing(y, "joining") /\ call[y].arg = w)) /\ result[w] = y
    BY Zenon, AtWait DEF JoinInv
  <2>3. Doing(y, "joining") => joinState[call[y].arg] = "Joining"
    BY Zenon, <2>2 DEF JoinInv
  <2> QED
    BY <1>2, <2>2, <2>3
<1>7. /\ \A x \in Threads : Doing(x, "joining")' => joinState'[call'[x].arg] = "Joining"
      /\ \A x, u \in Threads : Doing(x, "joining")' /\ Doing(u, "joining")' /\ call'[x].arg = call'[u].arg => x = u
  BY Zenon, <1>2, <1>4, JoinBegins
<1>8. \A v \in Threads : \A x \in Range(bq'[WaitOf[v]]) : result'[v] = x
  BY Zenon, <1>2, <1>3 DEF JoinInv
<1>9. ASSUME NEW x \in Threads, Doing(x, "joining")', state'[x] = "Running" PROVE got'[x] = call'[x].arg
  <2>1. CASE x = t
    BY Zenon, <1>4, <1>5, <1>6, <2>1
  <2>2. CASE x # t
    <3>1. Doing(x, "joining") /\ call'[x] = call[x]
      BY Zenon, <1>4, <1>9, <2>2 DEF Doing
    <3> QED
      BY Zenon, <1>3, <1>5, <1>9, <2>2, <3>1 DEF JoinInv
  <2> QED
    BY Zenon, <2>1, <2>2
<1>10. ASSUME NEW v \in Threads, Doing(v, "exitThread")', pc'[v] = "walk" PROVE FALSE
  <2>1. v # t
    BY Zenon, <1>4, <1>10 DEF Doing
  <2>2. Doing(v, "exitThread") /\ pc[v] = "walk"
    <3>1. pc'[v] = pc[v] \/ pc'[v] = "ready"
      BY Zenon, <1>1, <2>1, OtherThread
    <3> QED
      BY Zenon, <1>4, <1>10, <2>1, <3>1 DEF Doing
  <2> QED
    BY Zenon, <1>3, <2>1, <2>2, WalkHolds
<1> QED
  BY Zenon, <1>7, <1>8, <1>9, <1>10 DEF JoinInv

\* The thread that a walk wins is the one it meets: a join that is won in post()
\* has its value, and no join walks where another one waits.
LEMMA JoinTryUnblock ==
  ASSUME Base, JoinInv, NEW t \in Threads, TryUnblock(t), UNCHANGED procvars
  PROVE  JoinInv'
<1>1. IInv /\ CallInv(t) /\ Untimed /\ PTypeOK
  BY Zenon DEF Base
<1>2. UNCHANGED <<joinState, result, got, call>>
  BY Zenon DEF procvars
<1>3. pc[t] = "walk" /\ cur[t] \in Queues /\ idx[t] \in Nat /\ idx[t] >= 1 /\ idx[t] <= Len(bq[cur[t]])
  BY Zenon, <1>1 DEF TryUnblock, IInv, TypeOK
<1>4. bq \in [Queues -> Seq(Threads)] /\ state \in [Threads -> ThreadState] /\ bq[cur[t]] \in Seq(Threads)
  BY Zenon, <1>1, <1>3 DEF IInv, TypeOK
<1>5. PICK x \in Threads : x = bq[cur[t]][idx[t]] /\ x \in Range(bq[cur[t]])
  BY Zenon, <1>3, <1>4, PlaceOf
<1>6. pc[x] = "suspended" /\ where[x] = cur[t] /\ IsInjective(bq[cur[t]]) /\ CallInv(x)
  BY Zenon, <1>1, <1>3, <1>5 DEF IInv, Core, NoStaleLinks, Base
<1>7. \A y \in Threads : state'[y] = "Running" => state[y] = "Running" \/ y = x
  <2>1. UNCHANGED state \/ state' = [state EXCEPT ![x] = "Running"]
    BY Zenon, <1>5 DEF TryUnblock
  <2> QED
    BY Zenon, <1>4, <2>1
<1>8. \A w \in Threads : Range(bq'[WaitOf[w]]) \subseteq Range(bq[WaitOf[w]])
  <2>1. UNCHANGED bq \/ bq' = [bq EXCEPT ![cur[t]] = Unlink(@, x)]
    BY Zenon, <1>5 DEF TryUnblock
  <2>2. Range(Unlink(bq[cur[t]], x)) = Range(bq[cur[t]]) \ {x}
    BY ZenonT(60), <1>4, <1>5, <1>6, RemoveElement
  <2>3. \A r \in Queues : bq'[r] = bq[r] \/ (r = cur[t] /\ bq'[r] = Unlink(bq[cur[t]], x))
    BY Zenon, <1>3, <1>4, <2>1
  <2>4. \A r \in Queues : Range(bq'[r]) \subseteq Range(bq[r])
    BY Zenon, <2>2, <2>3
  <2> QED
    BY Zenon, <2>4, ProcessAssumption
<1>9. Doing(x, "joining") => got[x] = call[x].arg
  <2>1. SUFFICES ASSUME Doing(x, "joining") PROVE got[x] = call[x].arg
    BY Zenon
  <2>2. PICK a \in Threads : a = call[x].arg /\ Place(t) = WaitOf[a]
    <3>1. call[x].arg \in Threads /\ where[x] = Place(x) /\ cur[t] = Place(t)
      BY Zenon, <1>1, <1>3, <1>6, <2>1 DEF CallInv
    <3>2. Place(x) = WaitOf[call[x].arg]
      BY Zenon, <2>1 DEF Place, Doing
    <3> QED
      BY Zenon, <1>6, <3>1, <3>2
  <2>3. CASE Doing(t, "exitThread")
    <3>1. a = t
      BY Zenon, <2>2, <2>3, ProcessAssumption DEF Place
    <3>2. x \in Range(bq[WaitOf[t]])
      BY Zenon, <1>1, <1>3, <1>5, <2>2, <3>1 DEF CallInv
    <3> QED
      BY Zenon, <1>3, <2>2, <2>3, <3>1, <3>2 DEF JoinInv
  <2>4. CASE ~Doing(t, "exitThread") /\ Doing(t, "joining")
    <3>1. call[t].arg = a
      <4>1. call[t].arg \in Threads
        BY Zenon, <1>1, <2>4 DEF CallInv
      <4>2. WaitOf[call[t].arg] = WaitOf[a]
        BY Zenon, <2>2, <2>4 DEF Place
      <4> QED
        BY Zenon, <4>1, <4>2, ProcessAssumption
    <3>2. t = x
      BY Zenon, <2>1, <2>2, <2>4, <3>1 DEF JoinInv
    <3> QED
      BY Zenon, <1>3, <1>6, <3>2
  <2>5. CASE ~Doing(t, "exitThread") /\ ~Doing(t, "joining")
    BY Zenon, <2>2, <2>5, ProcessAssumption DEF Place
  <2> QED
    BY Zenon, <2>3, <2>4, <2>5
<1>10. \A w \in Threads : pc'[w] = "walk" => pc[w] = "walk"
  <2>1. pc'[t] = "resume" \/ pc'[t] = pc[t]
    BY Zenon, <1>1, OwnPoint
  <2>2. pc' = pc \/ \E l : Goto(t, l)
    BY Zenon DEF TryUnblock
  <2>3. \A w \in Threads : w # t => pc'[w] = pc[w]
    <3>1. pc \in [Actors -> ThreadPC \cup TimerPC] /\ Threads \subseteq Actors
      BY Zenon, <1>1 DEF IInv, TypeOK, Actors
    <3> QED
      BY <2>2, <3>1 DEF Goto
  <2> QED
    BY Zenon, <1>3, <2>1, <2>3
<1>11. \A y \in Threads : \A op : Doing(y, op)' <=> Doing(y, op)
  BY Zenon, <1>2 DEF Doing
<1>12. \A y \in Threads : Doing(y, "joining")' =>
         /\ Doing(y, "joining") /\ call'[y] = call[y] /\ got'[y] = got[y]
         /\ state'[y] = "Running" => state[y] = "Running" \/ got[y] = call[y].arg
  BY Zenon, <1>2, <1>7, <1>9, <1>11
<1>13. \A w \in Threads : \A y \in Range(bq'[WaitOf[w]]) : got'[y] = got[y]
  BY Zenon, <1>2
<1>14. \A w \in Threads : Doing(w, "exitThread")' /\ pc'[w] = "walk" => Doing(w, "exitThread") /\ pc[w] = "walk"
  BY Zenon, <1>10, <1>11
<1> QED
  BY Zenon, <1>2, <1>8, <1>12, <1>13, <1>14, JoinFrame

\* The meeting of post() and join() is sound at every step.
LEMMA JoinStep ==
  ASSUME Base, JoinInv, NEW t \in Threads, Created(t), UserStep(t) \/ CallStep(t)
  PROVE  JoinInv'
<1>1. IInv /\ Untimed /\ PTypeOK /\ StoreInv /\ CallInv(t)
  BY Zenon DEF Base
<1>2. Elsewhere \in Queues /\ ThreadLock \in Locks /\ LockOf[Elsewhere] \in Locks
  BY Zenon, ProcessAssumption, ConstantsAssumption
<1>3. ASSUME Quiet(t), UNCHANGED <<joinState, result>>, pc[t] # "suspended", got' = got \/ Leaves(t),
             call'[t].op \notin {"joining", "exitThread"}
      PROVE  JoinInv'
  <2>1. ~Doing(t, "joining")' /\ ~Doing(t, "exitThread")'
    BY Zenon, <1>3 DEF Doing
  <2> QED
    BY Zenon, <1>3, <2>1, JoinQuiet
<1>4. ASSUME Quiet(t), UNCHANGED <<joinState, result, got, call>>, pc[t] # "suspended", pc'[t] # "walk"
      PROVE  JoinInv'
  BY Zenon, <1>4, JoinQuiet
<1>5. CASE \E w \in Threads : CreateThread(t, w)
  <2>1. UNCHANGED bsvars /\ UNCHANGED <<joinState, result, got, call>> /\ pc[t] = "run"
    BY Zenon, <1>5 DEF CreateThread
  <2>2. pc'[t] = "run"
    BY Zenon, <2>1 DEF bsvars
  <2> QED
    BY Zenon, <1>4, <2>1, <2>2 DEF Quiet
<1>6. CASE UserStep(t) /\ ~\E w \in Threads : CreateThread(t, w)
  <2>1. (Acquire(t, ThreadLock) \/ Acquire(t, LockOf[Elsewhere])) /\ UNCHANGED <<joinState, result, got>>
    BY Zenon, <1>6 DEF UserStep, CallExitThread, CallJoin, CallExit, CallElsewhere
  <2>2. PICK op \in Ops, arg \in Threads \cup Nat \cup {Hole} : Begin(t, op, arg) /\ op # "joining"
    BY <1>6 DEF UserStep, CallExitThread, CallJoin, CallExit, CallElsewhere, Ops
  <2>3. call'[t].op # "joining"
    BY Zenon, <1>1, <2>2, Begins
  <2>4. pc'[t] = "held" /\ pc[t] = "run"
    BY Zenon, <1>1, <1>2, <2>1, OwnPoint DEF Acquire
  <2>5. Quiet(t)
    BY Zenon, <1>2, <2>1 DEF Quiet
  <2>6. ~Doing(t, "joining")'
    BY Zenon, <2>3 DEF Doing
  <2>7. pc[t] # "suspended" /\ pc'[t] # "walk"
    BY <2>4
  <2> QED
    BY Zenon, <2>1, <2>5, <2>6, <2>7, JoinQuiet
<1>7. CASE ExitLast(t) \/ ExitDone(t) \/ JoinFails(t)
  <2>1. Release(t, ThreadLock) /\ UNCHANGED <<joinState, result>> /\ ((ToTerminate(t) /\ UNCHANGED got) \/ Leaves(t))
    BY Zenon, <1>7 DEF ExitLast, ExitDone, JoinFails
  <2>2. call'[t].op \in {"none", "leave", "quit"}
    BY Zenon, <1>1, <2>1, Terminates, LeavesCall
  <2>3. Quiet(t) /\ pc[t] \in {"held", "missed"}
    BY Zenon, <1>2, <2>1 DEF Quiet, Release
  <2> QED
    BY Zenon, <1>3, <2>1, <2>2, <2>3
<1>8. CASE ExitCancels(t)
  <2>1. pc[t] = "held" /\ UNCHANGED <<joinState, result, got>> /\ \E i : Begin(t, "exit", i)
    BY Zenon, <1>8 DEF ExitCancels
  <2>2. call'[t].op = "exit"
    BY Zenon, <1>1, <2>1, Begins
  <2>3. Quiet(t)
    BY Zenon, <1>1, <1>8, ValidThread DEF ExitCancels, Quiet, DeadCancel
  <2> QED
    BY <1>3, <2>1, <2>2, <2>3
<1>9. CASE BlockElsewhere(t)
  <2>1. Doing(t, "P") /\ Block(t, Elsewhere) /\ UNCHANGED <<joinState, result>> /\ (UNCHANGED <<call, got>> \/ Leaves(t))
    BY Zenon, <1>9 DEF BlockElsewhere
  <2>2. call'[t].op \in {"P", "none"}
    BY Zenon, <1>1, <2>1, LeavesCall DEF Doing
  <2>3. Quiet(t) /\ pc[t] = "held"
    BY Zenon, <2>1 DEF Quiet, Block
  <2> QED
    BY <1>3, <2>1, <2>2, <2>3
<1>10. CASE ResumeElsewhere(t)
  <2>1. Doing(t, "V") /\ StartResume(t, Elsewhere) /\ UNCHANGED <<joinState, result, got, call>>
    BY Zenon, <1>10 DEF ResumeElsewhere, procvars
  <2>2. call'[t].op = "V"
    BY Zenon, <2>1 DEF Doing
  <2>3. Quiet(t) /\ pc[t] = "held"
    BY Zenon, <2>1 DEF Quiet, StartResume
  <2> QED
    BY <1>3, <2>1, <2>2, <2>3
<1>11. CASE Returns(t)
  <2>1. /\ Dispatch(t) \/ Wake(t, "resume", "run") \/ \E l \in Locks : Release(t, l)
        /\ UNCHANGED <<joinState, result>> /\ ((ToTerminate(t) /\ UNCHANGED got) \/ Leaves(t))
    BY <1>2, <1>11 DEF Returns, CallOver
  <2>2. call'[t].op \in {"none", "leave", "quit"}
    BY Zenon, <1>1, <2>1, Terminates, LeavesCall
  <2>3. Quiet(t) /\ pc[t] \in {"ready", "resume", "held", "missed"}
    BY Zenon, <2>1 DEF Quiet, Release, Wake, Dispatch
  <2> QED
    BY <1>3, <2>1, <2>2, <2>3
<1>12. CASE Inside(t)
  <2>1. UNCHANGED procvars /\ UNCHANGED <<joinState, result, got, call>>
    BY Zenon, <1>12 DEF Inside, procvars
  <2>2. CASE TryUnblock(t)
    BY Zenon, <2>1, <2>2, JoinTryUnblock
  <2>3. CASE ResumeMisses(t) \/ CancelBlocking(t) \/ Wake(t, "xResume", "held")
    <3>1. pc'[t] \in {"missed", "xResume", "held"}
      BY Zenon, <1>1, <2>3, OwnPoint
    <3>2. Quiet(t) /\ pc[t] \in {"walk", "xCancelBlocking", "xResume"}
      BY Zenon, <2>3 DEF Quiet, ResumeMisses, CancelBlocking, Wake
    <3> QED
      BY <1>4, <2>1, <3>1, <3>2
  <2> QED
    BY Zenon, <1>12, <2>2, <2>3 DEF Inside
<1>13. CASE Finishes(t)
  <2>1. /\ Terminate(t) \/ FinishCancelled(t)
        /\ UNCHANGED <<joinState, result>> /\ ((Doing(t, "quit") /\ UNCHANGED <<call, got>>) \/ Leaves(t))
    BY Zenon, <1>13 DEF Finishes
  <2>2. call'[t].op \in {"none", "quit"}
    BY Zenon, <1>1, <2>1, LeavesCall DEF Doing
  <2>3. Quiet(t) /\ pc[t] \in {"run", "cancelTimeout", "resume"}
    BY Zenon, <2>1 DEF Quiet, Terminate, FinishCancelled, Preemptible
  <2> QED
    BY <1>3, <2>1, <2>2, <2>3
<1>14. CASE PostResume(t) \/ DestroyThread(t)
  <2>1. UNCHANGED bsvars /\ UNCHANGED <<joinState, result, got, call>>
    BY Zenon, <1>14 DEF PostResume, DestroyThread
  <2>2. pc[t] = "dead"
    BY Zenon, <1>1, <1>14 DEF PostResume, DestroyThread, StoreInv, StoreCore
  <2>3. pc'[t] = "dead"
    BY Zenon, <2>1, <2>2 DEF bsvars
  <2> QED
    BY <1>4, <2>1, <2>2, <2>3 DEF Quiet
<1>15. PostWaits(t) \/ PostSignals(t) \/ JoinWaits(t) \/ JoinSignals(t) => JoinInv'
  BY Zenon, JoinPostWaits, JoinPostSignals, JoinJoinWaits, JoinJoinSignals
<1> QED
  BY Zenon, <1>5, <1>6, <1>7, <1>8, <1>9, <1>10, <1>11, <1>12, <1>13, <1>14, <1>15 DEF CallStep

-----------------------------------------------------------------------------
(* The ends of the threads, in a process that does not call exit(). *)

\* exit() does not return.
LEMMA ExitStays ==
  ASSUME Base, NEW t \in Threads, UserStep(t) \/ CallStep(t), ExitCalled
  PROVE  ExitCalled'
<1>1. PTypeOK /\ StoreInv /\ CallInv(t)
  BY Zenon DEF Base
<1>2. PICK x \in Threads : call[x].op \in {"exit", "quit"}
  BY Zenon DEF ExitCalled
<1>3. CASE x # t
  <2>1. call'[x] = call[x]
    BY Zenon, <1>1, <1>3, OwnCall
  <2> QED
    BY Zenon, <1>2, <2>1 DEF ExitCalled
<1>4. CASE x = t
  <2>1. call[t].op \in {"exit", "quit"} /\ call[t] # Idle
    BY <1>2, <1>4 DEF Idle
  <2>2. pc[t] \notin {"ready", "resume", "missed", "cancelTimeout", "walk", "suspended"}
    BY <1>1, <2>1 DEF CallInv, Doing
  <2>3. CASE UserStep(t)
    BY Zenon, <2>1, <2>3 DEF UserStep, CreateThread, CallExitThread, CallJoin, CallExit, CallElsewhere
  <2>4. CASE ExitLast(t) \/ PostWaits(t) \/ PostSignals(t) \/ JoinFails(t) \/ JoinWaits(t) \/ JoinSignals(t)
             \/ BlockElsewhere(t) \/ ResumeElsewhere(t)
    BY Zenon, <2>1, <2>4
    DEF ExitLast, PostWaits, PostSignals, JoinFails, JoinWaits, JoinSignals, BlockElsewhere, ResumeElsewhere, Doing
  <2>5. CASE ExitCancels(t)
    <3>1. \E i : Begin(t, "exit", i)
      BY Zenon, <2>5 DEF ExitCancels
    <3>2. call'[t].op = "exit"
      BY Zenon, <1>1, <3>1, Begins
    <3> QED
      BY Zenon, <3>2 DEF ExitCalled
  <2>6. CASE ExitDone(t)
    <3>1. Doing(t, "exit") /\ ToTerminate(t)
      BY Zenon, <2>6 DEF ExitDone
    <3>2. call'[t].op = "quit"
      BY Zenon, <1>1, <3>1, Terminates
    <3> QED
      BY Zenon, <3>2 DEF ExitCalled
  <2>7. CASE Returns(t)
    BY <2>2, <2>7 DEF Returns, Dispatch, Wake
  <2>8. CASE Inside(t) \/ PostResume(t) \/ DestroyThread(t)
    <3>1. UNCHANGED call
      BY Zenon, <2>8 DEF Inside, PostResume, DestroyThread, procvars
    <3> QED
      BY Zenon, <1>2, <3>1 DEF ExitCalled
  <2>9. CASE Finishes(t)
    <3>1. CASE Doing(t, "quit")
      <4>1. UNCHANGED call
        BY Zenon, <2>9, <3>1 DEF Finishes
      <4> QED
        BY Zenon, <1>2, <4>1 DEF ExitCalled
    <3>2. CASE ~Doing(t, "quit")
      <4>1. Doing(t, "exit") /\ pc[t] \notin Preemptible
        BY <1>1, <2>1, <3>2 DEF Doing, CallInv, Preemptible
      <4> QED
        BY Zenon, <2>9, <4>1 DEF Finishes, FinishCancelled, Doing
    <3> QED
      BY Zenon, <3>1, <3>2
  <2> QED
    BY Zenon, <2>3, <2>4, <2>5, <2>6, <2>7, <2>8, <2>9 DEF CallStep
<1> QED
  BY Zenon, <1>3, <1>4

\* The steps of a process that does not call exit(), as steps of the blocking
\* machinery: nothing is cancelled.
Calm(t) ==
  \/ UNCHANGED bsvars
  \/ \E l \in Locks : Acquire(t, l) \/ Release(t, l)
  \/ \E q \in Queues : Block(t, q) \/ StartResume(t, q)
  \/ TryUnblock(t) \/ ResumeMisses(t) \/ Wake(t, "resume", "run")
  \/ Dispatch(t) \/ Terminate(t)

\* Only exit() cancels.
LEMMA NoExitIsCalm ==
  ASSUME Base, ~ExitCalled, NEW t \in Threads, EndOf(t), UserStep(t) \/ CallStep(t)
  PROVE  /\ Calm(t) /\ ~ExitCancels(t) /\ ~ExitDone(t) /\ ~CancelBlocking(t) /\ ~Wake(t, "xResume", "held")
         /\ Finishes(t) => Doing(t, "leave") /\ Terminate(t)
<1>1. StoreInv /\ PTypeOK /\ CallInv(t)
  BY Zenon DEF Base
<1>2. ~Doing(t, "exit") /\ ~Doing(t, "quit")
  BY Zenon DEF ExitCalled, Doing
<1>3. pc[t] # "xCancelBlocking" /\ pc[t] # "xResume"
  <2>1. call[t].op \in Ops
    BY <1>1 DEF PTypeOK
  <2> QED
    BY <1>1, <1>2, <2>1 DEF CallInv, Doing, Ops
<1>4. ~ExitCancels(t) /\ ~ExitDone(t) /\ ~CancelBlocking(t) /\ ~Wake(t, "xResume", "held")
  BY Zenon, <1>2, <1>3 DEF ExitCancels, ExitDone, CancelBlocking, Wake
<1>5. ~FinishCancelled(t)
  BY Zenon DEF EndOf, FinishCancelled
<1>6. Finishes(t) => Doing(t, "leave") /\ Terminate(t)
  BY <1>2, <1>5 DEF Finishes, Doing
<1>7. /\ \A w \in Threads : WaitOf[w] \in Queues
      /\ Elsewhere \in Queues /\ ThreadLock \in Locks /\ LockOf[Elsewhere] \in Locks
  BY Zenon, ProcessAssumption, ConstantsAssumption
<1>8. CASE UserStep(t)
  <2>1. (\E w \in Threads : CreateThread(t, w)) => UNCHANGED bsvars
    BY Zenon DEF CreateThread
  <2>2. CallExitThread(t) \/ (\E i \in 1..Len(store.data) : CallJoin(t, i)) \/ CallExit(t) => Acquire(t, ThreadLock)
    BY Zenon DEF CallExitThread, CallJoin, CallExit
  <2>3. (\E op \in {"P", "V"} : CallElsewhere(t, op)) => Acquire(t, LockOf[Elsewhere])
    BY Zenon DEF CallElsewhere
  <2>4. UNCHANGED bsvars \/ \E l \in Locks : Acquire(t, l)
    BY Zenon, <1>7, <1>8, <2>1, <2>2, <2>3 DEF UserStep
  <2> QED
    BY Zenon, <1>4, <1>6, <2>4 DEF Calm
<1>9. CASE CallStep(t)
  <2>1. ExitLast(t) \/ JoinFails(t) => Release(t, ThreadLock)
    BY Zenon DEF ExitLast, JoinFails
  <2>2. PostWaits(t) \/ PostSignals(t) => Block(t, WaitOf[t]) \/ StartResume(t, WaitOf[t])
    BY Zenon DEF PostWaits, PostSignals
  <2>3. JoinWaits(t) \/ JoinSignals(t) => \E w \in Threads : Block(t, WaitOf[w]) \/ StartResume(t, WaitOf[w])
    BY Zenon, <1>1, ValidThread DEF JoinWaits, JoinSignals, Joinable
  <2>4. BlockElsewhere(t) \/ ResumeElsewhere(t) => Block(t, Elsewhere) \/ StartResume(t, Elsewhere)
    BY Zenon DEF BlockElsewhere, ResumeElsewhere
  <2>5. Returns(t) => \/ Dispatch(t) \/ Wake(t, "resume", "run")
                      \/ Release(t, LockOf[Elsewhere]) \/ Release(t, ThreadLock)
    BY DEF Returns
  <2>6. Inside(t) => TryUnblock(t) \/ ResumeMisses(t)
    BY Zenon, <1>4 DEF Inside
  <2>7. PostResume(t) \/ DestroyThread(t) => UNCHANGED bsvars
    BY Zenon DEF PostResume, DestroyThread
  <2>8. \/ UNCHANGED bsvars
        \/ \E l \in Locks : Release(t, l)
        \/ \E q \in Queues : Block(t, q) \/ StartResume(t, q)
        \/ TryUnblock(t) \/ ResumeMisses(t) \/ Wake(t, "resume", "run") \/ Dispatch(t) \/ Terminate(t)
    BY Zenon, <1>4, <1>6, <1>7, <1>9, <2>1, <2>2, <2>3, <2>4, <2>5, <2>6, <2>7 DEF CallStep
  <2> QED
    BY Zenon, <1>4, <1>6, <2>8 DEF Calm
<1> QED
  BY Zenon, <1>8, <1>9

\* Without exit(), whoever is on a queue is Blocked: the waker that has won a
\* thread has unlinked it.
LEMMA QueuedIsBlocked ==
  ASSUME Base, ~ExitCalled, \A w \in Threads : EndOf(w), NEW q \in Queues, NEW x \in Range(bq[q])
  PROVE  x \in Threads /\ state[x] = "Blocked"
<1>1. IInv /\ Untimed
  BY Zenon DEF Base
<1>2. x \in Threads
  BY Zenon, <1>1, QueuedAreThreads DEF IInv
<1>3. pc[x] = "suspended"
  BY Zenon, <1>1 DEF IInv, Core, NoStaleLinks
<1>4. SUFFICES ASSUME state[x] # "Blocked" PROVE FALSE
  BY Zenon, <1>2
<1>5. PICK a \in Actors : victim[a] = x
  <2>1. OneWaker
    BY Zenon, <1>1 DEF IInv, Core
  <2>2. Claimed(x)
    BY Zenon, <1>2, <1>3, <1>4, <2>1 DEF OneWaker
  <2> QED
    BY Zenon, <1>1, <2>2 DEF Claimed, Untimed
<1>6. a \in Threads /\ x # None
  BY Zenon, <1>1, <1>2, <1>5, ConstantsAssumption DEF Actors, Untimed
<1>7. pc[a] \in WakePC \/ pc[a] = "dead"
  <2>1. victim[a] # None => pc[a] \in WakePC \cup {"dead"}
    BY Zenon, <1>1 DEF IInv, Core, ClaimInv
  <2> QED
    BY Zenon, <1>5, <1>6, <2>1
<1>8. pc[a] # "dead"
  BY Zenon, <1>5, <1>6 DEF EndOf
<1>9. pc[a] \notin CancelPC
  <2>1. a # Timer /\ state[x] # "Cancelled"
    BY Zenon, <1>2, <1>6, ConstantsAssumption DEF EndOf
  <2>2. a # Timer /\ pc[a] \in CancelPC => state[victim[a]] = "Cancelled"
    BY Zenon, <1>1 DEF IInv, Core, ClaimInv
  <2> QED
    BY Zenon, <1>5, <2>1, <2>2
<1>10. pc[a] # "cancelTimeout"
  <2>1. pc[a] = "cancelTimeout" => \A r \in Queues : ~OnQueue(r, victim[a])
    BY Zenon, <1>1 DEF IInv, Core, ClaimInv
  <2> QED
    BY Zenon, <1>5, <2>1 DEF OnQueue
<1>11. pc[a] # "resume"
  <2>1. pc[a] \in {"resume", "xResume"} => ~Linked(victim[a])
    BY Zenon, <1>1 DEF IInv, Core, NoStaleLinks
  <2> QED
    BY Zenon, <1>5, <2>1 DEF Linked, OnQueue
<1> QED
  BY Zenon, <1>7, <1>8, <1>9, <1>10, <1>11 DEF WakePC

\* What a step does to a bystander in a process that does not call exit(): it
\* wins it, or wakes it when it is won.
LEMMA CalmBystander ==
  ASSUME IInv, NEW t \in Threads, Calm(t), NEW w \in Threads, w # t
  PROVE  /\ idx'[w] = idx[w] /\ victim'[w] = victim[w]
         /\ state'[w] = state[w] \/ (TryUnblock(t) /\ state'[w] = "Running")
         /\ pc'[w] = pc[w] \/ (pc[w] = "suspended" /\ pc'[w] = "ready" /\ state[w] # "Blocked" /\ state' = state)
<1>1. /\ w \in Actors /\ t \in Actors /\ pc \in [Actors -> ThreadPC \cup TimerPC] /\ idx \in [Threads -> Nat]
      /\ victim \in [Actors -> Threads \cup {None}] /\ state \in [Threads -> ThreadState]
  BY Zenon DEF IInv, TypeOK, Actors
<1>2. \A l : Goto(t, l) => pc'[w] = pc[w]
  BY <1>1 DEF Goto
<1>3. CASE UNCHANGED bsvars
  BY Zenon, <1>3 DEF bsvars
<1>4. CASE (\E l \in Locks : Acquire(t, l) \/ Release(t, l))
  BY Zenon, <1>2, <1>4 DEF Acquire, Release, walk
<1>5. CASE \E q \in Queues : Block(t, q) \/ StartResume(t, q)
  <2>1. (\E l : Goto(t, l)) /\ UNCHANGED victim
    BY Zenon, <1>5 DEF Block, StartResume, Suspend
  <2>2. UNCHANGED idx \/ idx' = [idx EXCEPT ![t] = 1]
    BY Zenon, <1>5 DEF Block, StartResume, walk
  <2>3. UNCHANGED state \/ state' = [state EXCEPT ![t] = "Blocked"]
    BY Zenon, <1>5 DEF Block, StartResume, Suspend
  <2>4. idx'[w] = idx[w] /\ state'[w] = state[w]
    BY <1>1, <2>2, <2>3
  <2> QED
    BY Zenon, <1>2, <2>1, <2>4
<1>6. CASE TryUnblock(t)
  <2>1. UNCHANGED pc \/ \E l : Goto(t, l)
    BY Zenon, <1>6 DEF TryUnblock
  <2>2. \E i : idx' = [idx EXCEPT ![t] = i]
    BY Zenon, <1>6 DEF TryUnblock
  <2>3. UNCHANGED victim \/ \E v : victim' = [victim EXCEPT ![t] = v]
    BY Zenon, <1>6 DEF TryUnblock
  <2>4. UNCHANGED state \/ \E v : state' = [state EXCEPT ![v] = "Running"]
    BY Zenon, <1>6 DEF TryUnblock
  <2>5. idx'[w] = idx[w] /\ victim'[w] = victim[w] /\ (state'[w] = state[w] \/ state'[w] = "Running")
    BY <1>1, <2>2, <2>3, <2>4
  <2> QED
    BY Zenon, <1>2, <1>6, <2>1, <2>5
<1>7. CASE ResumeMisses(t)
  <2>1. (\E l : Goto(t, l)) /\ idx' = [idx EXCEPT ![t] = 0] /\ UNCHANGED <<victim, state>>
    BY Zenon, <1>7 DEF ResumeMisses
  <2>2. idx'[w] = idx[w]
    BY <1>1, <2>1
  <2> QED
    BY Zenon, <1>2, <2>1, <2>2
<1>8. CASE Wake(t, "resume", "run")
  <2>1. /\ pc' = [pc EXCEPT ![t] = "run", ![victim[t]] = "ready"] /\ victim' = [victim EXCEPT ![t] = None]
        /\ UNCHANGED <<state, idx>>
    BY Zenon, <1>8 DEF Wake, walk
  <2>2. victim'[w] = victim[w] /\ (w # victim[t] => pc'[w] = pc[w]) /\ (w = victim[t] => pc'[w] = "ready")
    BY <1>1, <2>1
  <2>3. w = victim[t] => pc[w] = "suspended" /\ state[w] # "Blocked"
    <3>1. OneWaker
      BY Zenon DEF IInv, Core
    <3> QED
      BY Zenon, <1>1, <3>1 DEF OneWaker, Claimed
  <2> QED
    BY Zenon, <2>1, <2>2, <2>3
<1>9. CASE Dispatch(t) \/ Terminate(t)
  <2>1. (\E l : Goto(t, l)) /\ UNCHANGED <<victim, idx>> /\ (UNCHANGED state \/ state' = [state EXCEPT ![t] = "Finishing"])
    BY Zenon, <1>9 DEF Dispatch, Terminate, walk
  <2>2. state'[w] = state[w]
    BY <1>1, <2>1
  <2> QED
    BY Zenon, <1>2, <2>1, <2>2
<1> QED
  BY Zenon, <1>3, <1>4, <1>5, <1>6, <1>7, <1>8, <1>9 DEF Calm

\* A wait condition holds one thread, so the walk that wins it leaves nobody.
LEMMA WonLeavesEmpty ==
  ASSUME Base, JoinInv, NEW t \in Threads, TryUnblock(t)
  PROVE  \/ UNCHANGED <<bq, state, pc>>
         \/ \E x \in Threads :
              /\ state' = [state EXCEPT ![x] = "Running"] /\ x \in Range(bq[cur[t]])
              /\ \A w \in Threads : \/ cur[t] = WaitOf[w] /\ bq'[WaitOf[w]] = <<>>
                                    \/ cur[t] # WaitOf[w] /\ bq'[WaitOf[w]] = bq[WaitOf[w]]
<1>1. IInv
  BY Zenon DEF Base
<1>2. pc[t] = "walk" /\ cur[t] \in Queues /\ idx[t] \in Nat /\ idx[t] >= 1 /\ idx[t] <= Len(bq[cur[t]])
  BY Zenon, <1>1 DEF TryUnblock, IInv, TypeOK
<1>3. bq \in [Queues -> Seq(Threads)] /\ bq' \in [Queues -> Seq(Threads)] /\ bq[cur[t]] \in Seq(Threads)
  <2>1. IInv'
    <3>1. [BSNext]_bsvars
      BY Zenon DEF BSNext, ThreadStep
    <3> QED
      BY Zenon, <1>1, <3>1, InductiveStep
  <2> QED
    BY Zenon, <1>1, <1>2, <2>1 DEF IInv, TypeOK
<1>4. PICK x \in Threads : x = bq[cur[t]][idx[t]] /\ x \in Range(bq[cur[t]])
  BY Zenon, <1>2, <1>3, PlaceOf
<1>5. \/ UNCHANGED <<bq, state, pc>>
      \/ state' = [state EXCEPT ![x] = "Running"] /\ bq' = [bq EXCEPT ![cur[t]] = Unlink(@, x)]
  BY Zenon, <1>4 DEF TryUnblock
<1>6. Range(Unlink(bq[cur[t]], x)) = Range(bq[cur[t]]) \ {x}
  <2>1. IsInjective(bq[cur[t]])
    BY Zenon, <1>1, <1>2 DEF IInv, Core, NoStaleLinks
  <2> QED
    BY Zenon, <1>3, <1>4, <2>1, RemoveElement
<1>7. ASSUME bq' = [bq EXCEPT ![cur[t]] = Unlink(@, x)], NEW w \in Threads
      PROVE  \/ cur[t] = WaitOf[w] /\ bq'[WaitOf[w]] = <<>>
             \/ cur[t] # WaitOf[w] /\ bq'[WaitOf[w]] = bq[WaitOf[w]]
  <2>1. bq'[cur[t]] = Unlink(bq[cur[t]], x) /\ \A r \in Queues : r # cur[t] => bq'[r] = bq[r]
    BY <1>2, <1>3, <1>7
  <2>2. CASE cur[t] # WaitOf[w]
    <3>1. WaitOf[w] \in Queues
      BY Zenon, ProcessAssumption
    <3> QED
      BY Zenon, <2>1, <2>2, <3>1
  <2>3. CASE cur[t] = WaitOf[w]
    <3>1. \A y \in Range(bq[WaitOf[w]]) : y = x
      BY Zenon, <1>4, <2>3 DEF JoinInv
    <3>2. Range(bq'[WaitOf[w]]) = {}
      BY Zenon, <1>6, <2>1, <2>3, <3>1
    <3>3. bq'[WaitOf[w]] \in Seq(Threads)
      BY Zenon, <1>2, <1>3, <2>3
    <3>4. \A q \in Seq(Threads) : Range(q) = {} => q = <<>>
      BY SeqLength, SeqEmpty DEF Range
    <3> QED
      BY Zenon, <2>3, <3>2, <3>3, <3>4
  <2> QED
    BY Zenon, <2>2, <2>3
<1> QED
  BY Zenon, <1>4, <1>5, <1>7

\* EndOf reads no more than this of a bystander.
LEMMA EndFrame ==
  ASSUME NEW w \in Threads, EndOf(w), call'[w] = call[w], victim'[w] = victim[w], idx'[w] = idx[w],
         state'[w] = state[w],
         pc'[w] = pc[w] \/ (pc[w] = "suspended" /\ pc'[w] = "ready" /\ state[w] # "Blocked"),
         joinState[w] = "Joining" => joinState'[w] = "Joining",
         \/ bq'[WaitOf[w]] = bq[WaitOf[w]]
         \/ bq'[WaitOf[w]] = <<>> /\ ~(Doing(w, "exitThread") /\ pc[w] = "walk"),
         Ending(w) /\ (\A u \in Threads : Live(u) => u = w) =>
           joinState'[w] = "Joining" \/ \A u \in Threads : Live(u)' => u = w
  PROVE  EndOf(w)'
<1>1. \A op : Doing(w, op)' <=> Doing(w, op)
  BY Zenon DEF Doing
<1>2. Ending(w)' => Ending(w)
  BY <1>1 DEF Ending
<1>3. Met(w)' => Met(w)
  BY <1>1 DEF Met
<1>4. /\ state'[w] # "Cancelled" /\ (state'[w] = "Finishing" => pc'[w] = "dead")
      /\ pc'[w] = "dead" => victim'[w] = None
      /\ Doing(w, "exitThread")' => pc'[w] # "missed"
  BY <1>1 DEF EndOf
<1>5. Doing(w, "exitThread")' /\ pc'[w] = "walk" => idx'[w] = 1 /\ bq'[WaitOf[w]] # <<>>
  BY <1>1 DEF EndOf
<1>6. Met(w)' => joinState'[w] = "Joining" /\ bq'[WaitOf[w]] = <<>>
  BY Zenon, <1>3 DEF EndOf
<1>7. Ending(w)' => bq'[WaitOf[w]] = <<>> /\ (joinState'[w] = "Joining" \/ \A u \in Threads : Live(u)' => u = w)
  BY Zenon, <1>2 DEF EndOf
<1> QED
  BY Zenon, <1>4, <1>5, <1>6, <1>7 DEF EndOf

\* EndOf asks nothing of a thread that is inside another call, or waits.
LEMMA EndElsewhere ==
  ASSUME NEW t \in Threads, state'[t] \in {"Running", "Blocked"}, pc'[t] # "dead", call'[t].op # "leave",
         call'[t].op = "exitThread" => pc'[t] = "held" \/ (pc'[t] = "suspended" /\ state'[t] = "Blocked")
  PROVE  EndOf(t)'
<1>1. ~Ending(t)' /\ ~Met(t)'
  BY DEF Ending, Met, Doing
<1>2. Doing(t, "exitThread")' => pc'[t] # "missed" /\ pc'[t] # "walk"
  BY DEF Doing
<1> QED
  BY <1>1, <1>2 DEF EndOf

\* A thread in a call has an index; one that waits to be joined is not done.
LEMMA BusyIsLive ==
  ASSUME Base, NEW x \in Threads, call[x] # Idle, pc[x] # "dead"
  PROVE  Live(x)
<1>1. Created(x)
  BY Zenon DEF Base, CallInv
<1> QED
  BY Zenon, <1>1, NotDeadIsLive DEF Base

\* Without exit(), a thread that holds threadLock may block.
LEMMA HolderMayBlock ==
  ASSUME Base, NEW t \in Threads, EndOf(t), pc[t] \notin {"suspended", "dead"}
  PROVE  state[t] = "Running"
<1>1. state[t] \in ThreadState /\ state[t] # "Blocked"
  <2>1. IInv
    BY Zenon DEF Base
  <2>2. state[t] = "Blocked" => pc[t] = "suspended"
    BY Zenon, <2>1 DEF IInv, Core, BlockedIsLinked
  <2>3. state \in [Threads -> ThreadState]
    BY Zenon, <2>1 DEF IInv, TypeOK
  <2> QED
    BY <2>2, <2>3
<1>2. state[t] # "Cancelled" /\ state[t] # "Finishing"
  BY DEF EndOf
<1> QED
  BY Zenon, <1>1, <1>2 DEF ThreadState

\* The threads that live, after each step.
LEMMA LiveStep ==
  ASSUME StoreInv, PTypeOK, NEW t \in Threads, UserStep(t) \/ CallStep(t), ~\E w \in Threads : CreateThread(t, w)
  PROVE  \A u \in Threads : Live(u)' => Live(u)
<1>1. freed \subseteq freed'
  BY Zenon
  DEF UserStep, CallExitThread, CallJoin, CallExit, CallElsewhere,
      CallStep, ExitLast, PostWaits, PostSignals, JoinFails, JoinWaits, JoinSignals, ExitCancels, ExitDone,
      BlockElsewhere, ResumeElsewhere, Returns, CallOver, Inside, Finishes, PostResume, DestroyThread, procvars
<1>2. \A u \in Threads : Created(u)' => Created(u)
  BY Zenon, OwnCall
<1> QED
  BY Zenon, <1>1, <1>2 DEF Live

\* joinState is set and never reset, and only by join().
LEMMA JoinStateStep ==
  ASSUME PTypeOK, StoreInv, NEW t \in Threads, UserStep(t) \/ CallStep(t)
  PROVE  /\ \A w \in Threads : joinState[w] = "Joining" => joinState'[w] = "Joining"
<1>1. CASE JoinWaits(t) \/ JoinSignals(t)
  <2>1. PICK w \in Threads : joinState' = [joinState EXCEPT ![w] = "Joining"]
    BY Zenon, <1>1, ValidThread DEF JoinWaits, JoinSignals, Joinable
  <2> QED
    BY <2>1 DEF PTypeOK
<1>2. CASE ~JoinWaits(t) /\ ~JoinSignals(t)
  <2>1. UNCHANGED joinState
    BY Zenon, <1>2
    DEF UserStep, CreateThread, CallExitThread, CallJoin, CallExit, CallElsewhere,
        CallStep, ExitLast, PostWaits, PostSignals, JoinFails, ExitCancels, ExitDone,
        BlockElsewhere, ResumeElsewhere, Returns, CallOver, Inside, Finishes, PostResume, DestroyThread, procvars
  <2> QED
    BY Zenon, <2>1
<1> QED
  BY Zenon, <1>1, <1>2

\* A wait condition changes in post(), in join() and under a waker.
LEMMA WaitStep ==
  ASSUME IInv, StoreInv, NEW t \in Threads, UserStep(t) \/ CallStep(t),
         ~TryUnblock(t), ~CancelBlocking(t), ~JoinWaits(t)
  PROVE  \A w \in Threads : w # t \/ ~PostWaits(t) => bq'[WaitOf[w]] = bq[WaitOf[w]]
<1>1. CASE UserStep(t)
  BY Zenon, <1>1
  DEF UserStep, CreateThread, CallExitThread, CallJoin, CallExit, CallElsewhere, Acquire, bsvars
<1>2. CASE ExitLast(t) \/ JoinFails(t) \/ ExitDone(t) \/ PostSignals(t) \/ JoinSignals(t) \/ ResumeElsewhere(t)
  <2>1. (\E l : Release(t, l)) \/ (\E q : StartResume(t, q))
    BY Zenon, <1>2 DEF ExitLast, JoinFails, ExitDone, PostSignals, JoinSignals, ResumeElsewhere
  <2> QED
    BY Zenon, <2>1 DEF Release, StartResume
<1>3. CASE ExitCancels(t)
  BY Zenon, <1>3 DEF ExitCancels, Cancel, bsvars
<1>4. CASE PostWaits(t)
  BY Zenon, <1>4, BlocksAlone DEF PostWaits
<1>5. CASE BlockElsewhere(t)
  <2>1. Quiet(t)
    BY Zenon, <1>5 DEF BlockElsewhere, Quiet
  <2> QED
    BY Zenon, <2>1, QuietStep
<1>6. CASE Returns(t)
  <2>1. Dispatch(t) \/ Wake(t, "resume", "run") \/ \E l : Release(t, l)
    BY Zenon, <1>6 DEF Returns
  <2> QED
    BY Zenon, <2>1 DEF Dispatch, Wake, Release
<1>7. CASE Inside(t)
  BY Zenon, <1>7 DEF Inside, ResumeMisses, Wake
<1>8. CASE Finishes(t)
  BY Zenon, <1>8 DEF Finishes, Terminate, FinishCancelled
<1>9. CASE PostResume(t) \/ DestroyThread(t)
  BY Zenon, <1>9 DEF PostResume, DestroyThread, bsvars
<1> QED
  BY Zenon, <1>1, <1>2, <1>3, <1>4, <1>5, <1>6, <1>7, <1>8, <1>9 DEF CallStep

\* A bystander's end: what the others do leaves it joined, or alone.
LEMMA EndOther ==
  ASSUME Base, JoinInv, ~ExitCalled, \A x \in Threads : EndOf(x), NEW t \in Threads, Created(t), UserStep(t) \/ CallStep(t),
         NEW w \in Threads, w # t
  PROVE  EndOf(w)'
<1>1. IInv /\ PTypeOK /\ StoreInv /\ EndOf(w) /\ EndOf(t) /\ CallInv(w) /\ CallInv(t)
  BY Zenon DEF Base
<1>2. Calm(t) /\ ~ExitCancels(t) /\ ~CancelBlocking(t) /\ ~Wake(t, "xResume", "held")
  BY Zenon, <1>1, NoExitIsCalm
<1>3. /\ idx'[w] = idx[w] /\ victim'[w] = victim[w]
      /\ state'[w] = state[w] \/ (TryUnblock(t) /\ state'[w] = "Running")
      /\ pc'[w] = pc[w] \/ (pc[w] = "suspended" /\ pc'[w] = "ready" /\ state[w] # "Blocked" /\ state' = state)
  BY Zenon, <1>1, <1>2, CalmBystander
<1>4. call'[w] = call[w] /\ (joinState[w] = "Joining" => joinState'[w] = "Joining")
  BY Zenon, <1>1, OwnCall, JoinStateStep
<1>5. Ending(w) /\ (\A u \in Threads : Live(u) => u = w) => \A u \in Threads : Live(u)' => u = w
  <2>1. CASE \E x \in Threads : CreateThread(t, x)
    <3>1. pc[t] # "dead"
      BY <2>1 DEF CreateThread
    <3>2. Live(t)
      BY Zenon, <1>1, <3>1, NotDeadIsLive
    <3> QED
      BY Zenon, <3>2
  <2>2. CASE ~\E x \in Threads : CreateThread(t, x)
    BY Zenon, <1>1, <2>2, LiveStep
  <2> QED
    BY Zenon, <2>1, <2>2
<1>6. CASE state'[w] = state[w]
      /\ \/ bq'[WaitOf[w]] = bq[WaitOf[w]]
         \/ bq'[WaitOf[w]] = <<>> /\ ~(Doing(w, "exitThread") /\ pc[w] = "walk")
  BY Zenon, <1>1, <1>3, <1>4, <1>5, <1>6, EndFrame
<1>7. CASE TryUnblock(t)
  <2>1. pc[t] = "walk" /\ cur[t] = Place(t)
    BY Zenon, <1>1, <1>7 DEF TryUnblock, CallInv
  <2>2. cur[t] = WaitOf[w] => ~(Doing(w, "exitThread") /\ pc[w] = "walk")
    <3>1. LockOf[WaitOf[w]] = ThreadLock
      BY Zenon, ProcessAssumption
    <3>2. lock[LockOf[cur[t]]] = t
      BY Zenon, <2>1 DEF Base, LockInv
    <3> QED
      BY Zenon, <3>1, <3>2, WalkHolds
  <2>3. CASE UNCHANGED <<bq, state, pc>>
    BY Zenon, <1>6, <2>3
  <2>4. ASSUME NEW x \in Threads, state' = [state EXCEPT ![x] = "Running"], x \in Range(bq[cur[t]]),
               \/ cur[t] = WaitOf[w] /\ bq'[WaitOf[w]] = <<>>
               \/ cur[t] # WaitOf[w] /\ bq'[WaitOf[w]] = bq[WaitOf[w]]
        PROVE  EndOf(w)'
    <3>1. state \in [Threads -> ThreadState] /\ cur[t] \in Queues
      BY Zenon, <1>1, <2>1 DEF IInv, TypeOK
    <3>2. CASE w # x
      <4>1. state'[w] = state[w]
        BY <2>4, <3>1, <3>2
      <4> QED
        BY Zenon, <1>6, <2>2, <2>4, <4>1
    <3>3. CASE w = x
      <4>1. pc[w] = "suspended" /\ where[w] = cur[t] /\ state'[w] = "Running" /\ state[w] = "Blocked"
        <5>1. pc[w] = "suspended" /\ where[w] = cur[t]
          BY Zenon, <1>1, <2>4, <3>1, <3>3 DEF IInv, Core, NoStaleLinks
        <5>2. state[w] = "Blocked"
          BY Zenon, <2>4, <3>1, <3>3, QueuedIsBlocked
        <5> QED
          BY <2>4, <3>1, <3>3, <5>1, <5>2
      <4>2. pc'[w] = "suspended"
        BY Zenon, <1>3, <4>1
      <4>3. CASE ~Doing(w, "exitThread")
        <5>1. call'[w].op # "exitThread" /\ call'[w].op # "leave"
          BY <1>1, <1>4, <4>1, <4>3 DEF CallInv, Doing
        <5> QED
          BY <4>1, <4>2, <5>1, EndElsewhere
      <4>4. CASE Doing(w, "exitThread")
        <5>1. Place(t) = WaitOf[w]
          <6>1. where[w] = Place(w)
            BY Zenon, <1>1, <4>1 DEF CallInv
          <6> QED
            BY Zenon, <2>1, <4>1, <4>4, <6>1 DEF Place
        <5>2. ~Doing(t, "exitThread") /\ Doing(t, "joining")
          BY Zenon, <5>1, ProcessAssumption DEF Place
        <5>3. call[t].arg \in Threads /\ WaitOf[call[t].arg] = WaitOf[w]
          BY Zenon, <1>1, <5>1, <5>2 DEF Place, CallInv
        <5>4. call[t].arg = w
          BY Zenon, <5>3, ProcessAssumption
        <5>5. joinState'[w] = "Joining"
          BY Zenon, <1>4, <5>2, <5>4 DEF JoinInv
        <5>6. bq'[WaitOf[w]] = <<>>
          BY Zenon, <2>1, <2>4, <5>1
        <5>7. ~Ending(w)'
          BY <1>4, <4>2, <4>4 DEF Ending, Doing
        <5> QED
          BY <4>1, <4>2, <5>5, <5>6, <5>7 DEF EndOf
      <4> QED
        BY Zenon, <4>3, <4>4
    <3> QED
      BY Zenon, <3>2, <3>3
  <2> QED
    BY Zenon, <1>7, <2>3, <2>4, WonLeavesEmpty
<1>8. CASE JoinWaits(t)
  <2>1. PICK v \in Threads : joinState[v] = "Regular" /\ bq[WaitOf[v]] = <<>> /\ Block(t, WaitOf[v]) /\ pc[t] = "held"
    BY Zenon, <1>1, <1>8, ValidThread DEF JoinWaits, Joinable
  <2>2. /\ \A u \in Threads : u # v => bq'[WaitOf[u]] = bq[WaitOf[u]]
        /\ state'[w] = state[w] /\ lock[ThreadLock] = t
    BY ZenonT(60), <1>1, <2>1, BlocksAlone
  <2>3. CASE v # w
    BY Zenon, <1>6, <2>2, <2>3
  <2>4. CASE v = w
    <3>1. Live(t)
      <4>1. pc[t] # "dead"
        BY <2>1
      <4> QED
        BY Zenon, <1>1, <4>1, NotDeadIsLive
    <3>2. ~Ending(w) /\ ~Met(w)
      BY <1>1, <2>1, <2>4, <3>1 DEF EndOf
    <3>3. ~(Doing(w, "exitThread") /\ pc[w] = "walk")
      BY Zenon, <2>2, WalkHolds
    <3>4. Doing(w, "exitThread") => pc[w] = "held" \/ (pc[w] = "suspended" /\ state[w] = "Blocked")
      BY Zenon, <1>1, <3>2, <3>3 DEF CallInv, Met, EndOf
    <3>5. state[w] \in {"Running", "Blocked"} /\ pc[w] # "dead" /\ ~Doing(w, "leave")
      <4>1. state[w] \in ThreadState
        BY Zenon, <1>1 DEF IInv, TypeOK
      <4> QED
        BY Zenon, <1>1, <3>2, <4>1 DEF EndOf, Ending, ThreadState
    <3> QED
      BY <1>3, <1>4, <2>2, <3>4, <3>5, EndElsewhere DEF Doing
  <2> QED
    BY Zenon, <2>3, <2>4
<1>9. CASE ~TryUnblock(t) /\ ~JoinWaits(t)
  <2>1. bq'[WaitOf[w]] = bq[WaitOf[w]]
    BY Zenon, <1>1, <1>2, <1>9, WaitStep
  <2> QED
    BY Zenon, <1>3, <1>6, <1>9, <2>1
<1> QED
  BY Zenon, <1>7, <1>8, <1>9

\* size() is an integer.
LEMMA SizeIsInt == ASSUME NEW m \in Nat, NEW n \in Nat PROVE m - n \in Int
  OBVIOUS

\* The last thread of the store is not waited for.
LEMMA LastIsAlone ==
  ASSUME Base, NEW t \in Threads, Created(t), pc[t] \notin {"dead", "suspended"}, LastThread
  PROVE  bq[WaitOf[t]] = <<>> /\ \A u \in Threads : Live(u) => u = t
<1>1. SizeCounts /\ IInv /\ StoreInv /\ StoreCore
  BY Zenon DEF Base, StoreInv
<1>2. Live(t)
  <2>1. pc[t] # "dead"
    BY Zenon
  <2> QED
    BY Zenon, <1>1, <2>1, NotDeadIsLive
<1>3. \A u \in Threads : Live(u) => u = t
  <2>1. \A u \in Threads : Live(u) /\ u # t => ArraySize(store) >= 2
    BY Zenon, <1>1, <1>2, SizeShape
  <2>2. ArraySize(store) \in Int
    BY Zenon, <1>1, StoreShape, SizeIsInt DEF ArraySize
  <2> QED
    BY <2>1, <2>2 DEF LastThread
<1>4. Range(bq[WaitOf[t]]) = {}
  <2>1. SUFFICES ASSUME NEW y \in Range(bq[WaitOf[t]]) PROVE FALSE
    BY Zenon
  <2>2. y \in Threads /\ pc[y] = "suspended" /\ (Doing(y, "exitThread") \/ Doing(y, "joining"))
    BY Zenon, AtWait
  <2>3. call[y] # Idle /\ pc[y] # "dead"
    BY <2>2 DEF Idle, Doing
  <2>4. Live(y)
    BY Zenon, <2>2, <2>3, BusyIsLive
  <2> QED
    BY Zenon, <1>3, <2>2, <2>4
<1>5. bq[WaitOf[t]] \in Seq(Threads)
  BY Zenon, <1>1, ProcessAssumption DEF IInv, TypeOK
<1>6. \A q \in Seq(Threads) : Range(q) = {} => q = <<>>
  <2> SUFFICES ASSUME NEW q \in Seq(Threads), q # <<>> PROVE q[1] \in Range(q)
    BY Zenon
  <2>1. DOMAIN q = 1..Len(q) /\ Len(q) \in Nat \ {0}
    BY Zenon, SeqLength, SeqEmpty
  <2>2. 1 \in DOMAIN q
    BY <2>1
  <2> QED
    BY Zenon, <2>2 DEF Range
<1> QED
  BY Zenon, <1>3, <1>4, <1>5, <1>6

\* exitThread finds the thread that joins, and is joined.
LEMMA EndWalk ==
  ASSUME Base, JoinInv, ~ExitCalled, \A x \in Threads : EndOf(x), NEW t \in Threads, Inside(t), Doing(t, "exitThread")
  PROVE  EndOf(t)'
<1>1. IInv /\ Untimed /\ CallInv(t) /\ EndOf(t)
  BY Zenon DEF Base
<1>2. UNCHANGED procvars /\ UNCHANGED <<call, joinState>>
  BY Zenon DEF Inside, procvars
<1>3. ~CancelBlocking(t) /\ ~Wake(t, "xResume", "held")
  <2>1. pc[t] # "xCancelBlocking" /\ pc[t] # "xResume"
    BY <1>1 DEF CallInv
  <2> QED
    BY Zenon, <2>1 DEF CancelBlocking, Wake
<1>4. pc[t] = "walk"
  BY Zenon, <1>3 DEF Inside, TryUnblock, ResumeMisses
<1>5. idx[t] = 1 /\ bq[WaitOf[t]] # <<>> /\ cur[t] = WaitOf[t]
  BY Zenon, <1>1, <1>4 DEF EndOf, CallInv, Place
<1>6. bq[WaitOf[t]] \in Seq(Threads) /\ WaitOf[t] \in Queues
  BY Zenon, <1>1, ProcessAssumption DEF IInv, TypeOK
<1>7. PICK x \in Threads : x = bq[cur[t]][idx[t]] /\ x \in Range(bq[WaitOf[t]]) /\ 1 <= Len(bq[WaitOf[t]])
  <2>1. \A q \in Seq(Threads) : q # <<>> => q[1] \in Range(q) /\ q[1] \in Threads /\ 1 <= Len(q)
    BY SeqLength, SeqEmpty, SeqElement DEF Range
  <2> QED
    BY Zenon, <1>5, <1>6, <2>1
<1>8. state[x] = "Blocked"
  BY Zenon, <1>6, <1>7, QueuedIsBlocked
<1>9. x # t /\ Doing(x, "joining") /\ call[x].arg = t
  <2>1. x \in Range(bq[WaitOf[t]])
    BY Zenon, <1>7
  <2>2. pc[x] = "suspended"
    BY Zenon, <2>1, AtWait
  <2>3. (Doing(x, "exitThread") /\ x = t) \/ (Doing(x, "joining") /\ call[x].arg = t)
    BY Zenon, <2>1, AtWait
  <2> QED
    BY <1>4, <2>2, <2>3
<1>10. TryUnblock(t)
  <2>1. ~(idx[t] > Len(bq[cur[t]]))
    <3>1. Len(bq[WaitOf[t]]) \in Nat
      BY Zenon, <1>6, SeqLength
    <3> QED
      BY <1>5, <1>7, <3>1
  <2> QED
    BY Zenon, <1>3, <2>1 DEF Inside, ResumeMisses
<1>11. state' = [state EXCEPT ![x] = "Running"] /\ pc'[t] = "resume"
  <2>1. ~timed[x]
    BY Zenon, <1>1 DEF Untimed
  <2>2. state' = [state EXCEPT ![x] = "Running"] /\ Goto(t, "resume")
    BY <1>7, <1>8, <1>10, <2>1 DEF TryUnblock
  <2>3. pc \in [Actors -> ThreadPC \cup TimerPC] /\ t \in Actors
    BY Zenon, <1>1 DEF IInv, TypeOK, Actors
  <2> QED
    BY <2>2, <2>3 DEF Goto
<1>12. bq'[WaitOf[t]] = <<>>
  <2>1. pc'[t] # pc[t]
    BY <1>4, <1>11
  <2> QED
    BY Zenon, <1>5, <1>10, <2>1, WonLeavesEmpty
<1>13. state'[t] = state[t]
  <2>1. state \in [Threads -> ThreadState]
    BY Zenon, <1>1 DEF IInv, TypeOK
  <2> QED
    BY <1>9, <1>11, <2>1
<1>14. joinState'[t] = "Joining"
  BY Zenon, <1>2, <1>9 DEF JoinInv
<1>15. ~Ending(t)'
  BY <1>2, <1>11 DEF Ending, Doing
<1>16. state'[t] # "Cancelled" /\ state'[t] # "Finishing"
  BY Zenon, <1>1, <1>4, <1>13 DEF EndOf
<1> QED
  BY <1>11, <1>12, <1>14, <1>15, <1>16 DEF EndOf

\* The end of exitThread: it has met the thread that joins.
LEMMA EndReturns ==
  ASSUME Base, ~ExitCalled, NEW t \in Threads, EndOf(t), Returns(t), Doing(t, "exitThread")
  PROVE  EndOf(t)'
<1>1. IInv /\ PTypeOK /\ Untimed
  BY Zenon DEF Base
<1>2. /\ ToTerminate(t) /\ UNCHANGED joinState /\ (Dispatch(t) \/ Wake(t, "resume", "run"))
  <2>1. pc[t] # "missed"
    BY Zenon DEF EndOf
  <2> QED
    BY Zenon, <2>1 DEF Returns, CallOver
<1>3. pc[t] \in {"ready", "resume"}
  BY Zenon, <1>2 DEF Dispatch, Wake
<1>4. joinState[t] = "Joining" /\ bq[WaitOf[t]] = <<>>
  BY Zenon, <1>3 DEF EndOf, Met
<1>5. pc'[t] = "run"
  <2>1. state[t] # "Cancelled"
    BY DEF EndOf
  <2> QED
    BY Zenon, <1>1, <1>2, <2>1, OwnPoint
<1>6. UNCHANGED <<bq, state>>
  BY Zenon, <1>2 DEF Dispatch, Wake, EndOf
<1>7. ~Doing(t, "exitThread")'
  BY Zenon, <1>1, <1>2, Terminates DEF Doing
<1>8. ~Met(t)' /\ pc'[t] # "dead"
  BY <1>5, <1>7 DEF Met
<1>9. state[t] # "Cancelled" /\ state[t] # "Finishing"
  BY <1>3 DEF EndOf
<1> QED
  BY Zenon, <1>2, <1>4, <1>6, <1>7, <1>8, <1>9 DEF EndOf

\* A thread's own end: it is last, or it has been joined.
LEMMA EndOwn ==
  ASSUME Base, JoinInv, ~ExitCalled, \A x \in Threads : EndOf(x), NEW t \in Threads, Created(t), UserStep(t) \/ CallStep(t),
         ~ExitCalled'
  PROVE  EndOf(t)'
<1>1. IInv /\ Untimed /\ PTypeOK /\ StoreInv /\ CallInv(t) /\ EndOf(t)
  BY Zenon DEF Base
<1>2. /\ \A w \in Threads : WaitOf[w] \in Queues
      /\ Elsewhere \in Queues /\ ThreadLock \in Locks /\ LockOf[Elsewhere] \in Locks
  BY Zenon, ProcessAssumption, ConstantsAssumption
<1>3. state[t] # "Cancelled" /\ pc[t] \notin {"suspended", "dead"} => state[t] = "Running"
  BY Zenon, <1>1, HolderMayBlock
<1>4. ASSUME UNCHANGED state, pc[t] \notin {"suspended", "dead"}, pc'[t] # "dead", call'[t].op \notin {"leave", "exitThread"}
      PROVE  EndOf(t)'
  <2>1. state'[t] = "Running"
    BY Zenon, <1>1, <1>3, <1>4 DEF EndOf
  <2> QED
    BY <1>4, <2>1, EndElsewhere
<1>5. CASE \E w \in Threads : CreateThread(t, w)
  <2>1. pc[t] = "run" /\ call[t] = Idle /\ UNCHANGED bsvars /\ UNCHANGED call
    BY Zenon, <1>5 DEF CreateThread
  <2>2. UNCHANGED <<state, pc>>
    BY Zenon, <2>1 DEF bsvars
  <2>3. call'[t].op = "none"
    BY <2>1 DEF Idle
  <2> QED
    BY <1>4, <2>1, <2>2, <2>3
<1>6. CASE UserStep(t) /\ ~\E w \in Threads : CreateThread(t, w)
  <2>1. Acquire(t, ThreadLock) \/ Acquire(t, LockOf[Elsewhere])
    BY Zenon, <1>6 DEF UserStep, CallExitThread, CallJoin, CallExit, CallElsewhere
  <2>2. PICK op \in Ops, arg \in Threads \cup Nat \cup {Hole} : Begin(t, op, arg) /\ op # "leave"
    BY <1>6 DEF UserStep, CallExitThread, CallJoin, CallExit, CallElsewhere, Ops
  <2>3. call'[t].op # "leave"
    BY Zenon, <1>1, <2>2, Begins
  <2>4. pc[t] = "run" /\ pc'[t] = "held" /\ UNCHANGED state
    BY Zenon, <1>1, <1>2, <2>1, OwnPoint DEF Acquire
  <2>5. state'[t] = "Running"
    BY Zenon, <1>1, <1>3, <2>4 DEF EndOf
  <2> QED
    BY <2>3, <2>4, <2>5, EndElsewhere
<1>7. CASE ExitLast(t)
  <2>1. /\ Doing(t, "exitThread") /\ pc[t] = "held" /\ LastThread /\ Release(t, ThreadLock) /\ ToTerminate(t)
        /\ UNCHANGED <<slot, freed>>
    BY Zenon, <1>7 DEF ExitLast
  <2>2. bq[WaitOf[t]] = <<>> /\ \A u \in Threads : Live(u) => u = t
    BY <2>1, LastIsAlone
  <2>3. \A u \in Threads : Live(u)' => u = t
    BY Zenon, <2>1, <2>2 DEF Live, Created
  <2>4. pc'[t] = "run" /\ UNCHANGED <<bq, state>>
    BY Zenon, <1>1, <1>2, <2>1, OwnPoint DEF Release
  <2>5. ~Doing(t, "exitThread")'
    BY Zenon, <1>1, <2>1, Terminates DEF Doing
  <2>6. state'[t] = "Running"
    BY <1>1, <1>3, <2>1, <2>4 DEF EndOf
  <2>7. bq'[WaitOf[t]] = <<>> /\ ~Met(t)'
    BY Zenon, <2>2, <2>4, <2>5 DEF Met
  <2>8. pc'[t] # "dead" /\ state'[t] # "Cancelled" /\ state'[t] # "Finishing"
    BY <2>4, <2>6
  <2> QED
    BY Zenon, <2>3, <2>5, <2>7, <2>8 DEF EndOf
<1>8. CASE PostWaits(t) \/ JoinWaits(t) \/ BlockElsewhere(t)
  <2>1. PICK q \in Queues : Block(t, q)
    BY Zenon, <1>1, <1>2, <1>8, ValidThread DEF PostWaits, JoinWaits, BlockElsewhere, Joinable
  <2>2. pc[t] = "held" /\ MayBlock(t)
    BY <1>1, <1>3, <2>1 DEF EndOf, Block, MayBlock
  <2>3. pc'[t] = "suspended"
    BY Zenon, <1>1, <2>1, <2>2, OwnPoint
  <2>4. state'[t] = "Blocked"
    <3>1. state \in [Threads -> ThreadState]
      BY Zenon, <1>1 DEF IInv, TypeOK
    <3>2. state' = [state EXCEPT ![t] = "Blocked"]
      BY Zenon, <2>1, <2>2 DEF Block, Suspend
    <3> QED
      BY <3>1, <3>2
  <2>5. call'[t].op # "leave"
    <3>1. (UNCHANGED call /\ (Doing(t, "exitThread") \/ Doing(t, "P"))) \/ \E w : Begin(t, "joining", w)
      BY Zenon, <1>8, <2>2 DEF PostWaits, JoinWaits, BlockElsewhere
    <3>2. (UNCHANGED call /\ (Doing(t, "exitThread") \/ Doing(t, "P"))) \/ call'[t].op = "joining"
      BY Zenon, <1>1, <3>1, Begins
    <3> QED
      BY <3>2 DEF Doing
  <2> QED
    BY <2>3, <2>4, <2>5, EndElsewhere
<1>9. CASE PostSignals(t)
  <2>1. Doing(t, "exitThread") /\ bq[WaitOf[t]] # <<>> /\ StartResume(t, WaitOf[t]) /\ UNCHANGED call
    BY Zenon, <1>9 DEF PostSignals
  <2>2. pc'[t] = "walk" /\ idx'[t] = 1
    BY Zenon, <1>1, <1>2, <2>1, OwnPoint
  <2>3. UNCHANGED <<bq, state>> /\ pc[t] = "held"
    BY Zenon, <2>1 DEF StartResume
  <2>4. state'[t] = "Running"
    BY <1>1, <1>3, <2>3 DEF EndOf
  <2>5. ~Met(t)' /\ ~Ending(t)'
    BY <2>1, <2>2 DEF Met, Ending, Doing
  <2> QED
    BY Zenon, <2>1, <2>2, <2>3, <2>4, <2>5 DEF EndOf
<1>10. CASE JoinFails(t)
  <2>1. Release(t, ThreadLock) /\ Leaves(t)
    BY Zenon, <1>10 DEF JoinFails
  <2>2. UNCHANGED state /\ pc[t] \in {"held", "missed"} /\ pc'[t] = "run"
    BY Zenon, <1>1, <1>2, <2>1, OwnPoint DEF Release
  <2>3. call'[t].op = "none"
    BY Zenon, <1>1, <2>1, LeavesCall
  <2> QED
    BY <1>4, <2>2, <2>3
<1>11. CASE JoinSignals(t) \/ ResumeElsewhere(t)
  <2>1. PICK q \in Queues : StartResume(t, q)
    BY Zenon, <1>1, <1>2, <1>11, ValidThread DEF JoinSignals, ResumeElsewhere, Joinable
  <2>2. UNCHANGED state /\ pc[t] = "held" /\ pc'[t] = "walk"
    BY Zenon, <1>1, <2>1, OwnPoint DEF StartResume
  <2>3. (UNCHANGED call /\ Doing(t, "V")) \/ \E w : Begin(t, "joining", w)
    BY Zenon, <1>11 DEF JoinSignals, ResumeElsewhere, procvars
  <2>4. (UNCHANGED call /\ Doing(t, "V")) \/ call'[t].op = "joining"
    BY Zenon, <1>1, <2>3, Begins
  <2>5. call'[t].op \in {"V", "joining"}
    BY Zenon, <2>4 DEF Doing
  <2> QED
    BY <1>4, <2>2, <2>5
<1>12. CASE Returns(t) /\ ~Doing(t, "exitThread")
  <2>1. Leaves(t) /\ (Dispatch(t) \/ Wake(t, "resume", "run") \/ \E l \in Locks : Release(t, l))
    BY <1>2, <1>12 DEF Returns, CallOver
  <2>2. call'[t].op = "none"
    BY Zenon, <1>1, <2>1, LeavesCall
  <2>3. state[t] # "Cancelled"
    BY Zenon, <1>1 DEF EndOf
  <2>4. UNCHANGED state /\ pc[t] \in {"ready", "resume", "held", "missed"}
    BY Zenon, <2>1, <2>3 DEF Dispatch, Wake, Release
  <2>5. pc'[t] = "run"
    BY Zenon, <1>1, <2>1, <2>3, OwnPoint
  <2> QED
    BY <1>4, <2>2, <2>4, <2>5
<1>13. CASE Inside(t) /\ ~Doing(t, "exitThread")
  <2>1. UNCHANGED call /\ (TryUnblock(t) \/ ResumeMisses(t))
    BY Zenon, <1>1, <1>13, NoExitIsCalm DEF Inside, procvars
  <2>2. pc[t] = "walk" /\ (pc'[t] = "resume" \/ pc'[t] = "walk" \/ pc'[t] = "missed")
    BY Zenon, <1>1, <2>1, OwnPoint DEF TryUnblock, ResumeMisses
  <2>3. call'[t].op # "exitThread" /\ call'[t].op # "leave"
    BY <1>1, <1>13, <2>1, <2>2 DEF CallInv, Doing
  <2>4. state'[t] = "Running"
    <3>1. state[t] = "Running" /\ state \in [Threads -> ThreadState]
      BY Zenon, <1>1, <1>3, <2>2 DEF EndOf, IInv, TypeOK
    <3>2. UNCHANGED state \/ \E x \in Threads : state' = [state EXCEPT ![x] = "Running"]
      BY Zenon, <2>1, WonLeavesEmpty DEF ResumeMisses
    <3> QED
      BY <3>1, <3>2
  <2> QED
    BY <2>2, <2>3, <2>4, EndElsewhere
<1>14. CASE Finishes(t)
  <2>1. Doing(t, "leave") /\ Terminate(t) /\ Leaves(t) /\ UNCHANGED <<slot, joinState, freed>>
    <3>1. Doing(t, "leave") /\ Terminate(t)
      BY Zenon, <1>1, <1>14, NoExitIsCalm
    <3>2. ~Doing(t, "quit")
      BY <3>1 DEF Doing
    <3> QED
      BY Zenon, <1>14, <3>1, <3>2 DEF Finishes
  <2>2. pc'[t] = "dead" /\ pc[t] = "run" /\ UNCHANGED <<bq, victim>>
    BY Zenon, <1>1, <2>1, OwnPoint DEF Terminate
  <2>3. victim[t] = None
    <3>1. t \in Actors
      BY Zenon DEF Actors
    <3>2. victim[t] # None => pc[t] \in WakePC \cup {"dead"}
      BY Zenon, <1>1, <3>1 DEF IInv, Core, ClaimInv
    <3> QED
      BY <2>2, <3>2 DEF WakePC, CancelPC
  <2>4. state'[t] = "Finishing"
    <3>1. state \in [Threads -> ThreadState] /\ state' = [state EXCEPT ![t] = "Finishing"]
      BY Zenon, <1>1, <2>1 DEF IInv, TypeOK, Terminate
    <3> QED
      BY <3>1
  <2>5. bq[WaitOf[t]] = <<>> /\ (joinState[t] = "Joining" \/ \A u \in Threads : Live(u) => u = t)
    BY Zenon, <1>1, <2>1 DEF EndOf, Ending
  <2>6. bq'[WaitOf[t]] = <<>> /\ (joinState'[t] = "Joining" \/ \A u \in Threads : Live(u)' => u = t)
    BY Zenon, <2>1, <2>2, <2>5 DEF Live, Created
  <2>7. ~Doing(t, "exitThread")'
    <3>1. call'[t].op = "none"
      BY Zenon, <1>1, <2>1, LeavesCall
    <3> QED
      BY <3>1 DEF Doing
  <2> QED
    BY Zenon, <2>2, <2>3, <2>4, <2>6, <2>7 DEF EndOf, Met
<1>15. CASE PostResume(t) \/ DestroyThread(t)
  <2>1. UNCHANGED bsvars /\ UNCHANGED <<slot, call, joinState>> /\ freed \subseteq freed'
    BY Zenon, <1>15 DEF PostResume, DestroyThread
  <2>2. UNCHANGED <<state, pc, bq, idx, victim>>
    BY Zenon, <2>1 DEF bsvars
  <2>3. \A u \in Threads : Live(u)' => Live(u)
    BY Zenon, <2>1 DEF Live, Created
  <2> QED
    BY Zenon, <1>1, <2>1, <2>2, <2>3, EndFrame
<1>16. CASE (Returns(t) \/ Inside(t)) /\ Doing(t, "exitThread")
  BY Zenon, <1>1, <1>16, EndReturns, EndWalk
<1>17. ~ExitCancels(t) /\ ~ExitDone(t)
  BY Zenon, <1>1, NoExitIsCalm
<1> QED
  BY Zenon, <1>5, <1>6, <1>7, <1>8, <1>9, <1>10, <1>11, <1>12, <1>13, <1>14, <1>15, <1>16, <1>17 DEF CallStep

-----------------------------------------------------------------------------
(* The theorems. *)

\* PInv holds when exec() has created the first thread.
LEMMA ProcessInit == PInit => PInv
<1>1. SUFFICES ASSUME PInit PROVE PInv
  OBVIOUS
<1>2. /\ BSInit /\ call = [t \in Threads |-> Idle] /\ slot = [t \in Threads |-> IF t = Main THEN 1 ELSE Hole]
      /\ store = Put(EmptyArray, Main) /\ freed = {} /\ tested = {} /\ gone = FALSE
      /\ joinState = [t \in Threads |-> "Regular"] /\ result = [t \in Threads |-> Hole]
      /\ got = [t \in Threads |-> Hole]
  BY Zenon, <1>1 DEF PInit
<1>3. IInv
  BY Zenon, <1>2, InitialStates
<1>4. /\ state = [t \in Threads |-> "Running"] /\ pc = [a \in Actors |-> "run"]
      /\ bq = [q \in Queues |-> <<>>] /\ lock = [l \in Locks |-> None]
      /\ victim = [a \in Actors |-> None] /\ timed = [t \in Threads |-> FALSE]
      /\ tq = {} /\ scan = {} /\ fire = {} /\ tlock = None
  BY Zenon, <1>2 DEF BSInit
<1>5. Timer \in Actors /\ Threads \subseteq Actors /\ None \notin Threads
  BY Zenon, ConstantsAssumption DEF Actors
<1>6. /\ \A t \in Threads : pc[t] = "run" /\ state[t] = "Running" /\ victim[t] = None /\ ~timed[t]
      /\ pc[Timer] = "run" /\ victim[Timer] = None /\ \A l \in Locks : lock[l] = None
  BY <1>4, <1>5
<1>7. \A t \in Threads : bq[WaitOf[t]] = <<>>
  BY <1>4, ProcessAssumption
<1>8. \A t \in Threads : call[t] = Idle /\ call[t].op = "none"
  BY <1>2 DEF Idle
<1>9. LockInv
  BY <1>4, <1>5, <1>6 DEF LockInv, CancelPC
<1>10. Untimed
  BY Zenon, <1>4, <1>6 DEF Untimed
<1>11. PTypeOK
  <2>1. Idle \in [op : Ops, arg : Threads \cup Nat \cup {Hole}]
    BY DEF Idle, Ops
  <2> QED
    BY <1>2, <2>1 DEF PTypeOK
<1>12. StoreInv
  <2>1. Hole \notin Threads \cup Nat /\ Main \in Threads
    BY Zenon, ProcessAssumption
  <2>2. store = [data |-> <<Main>>, free |-> <<>>]
    <3>1. Append(<<>>, Main) = <<Main>>
      OBVIOUS
    <3> QED
      BY <1>2, <3>1 DEF Put, EmptyArray
  <2>3. freed = {} /\ tested = {} /\ gone = FALSE
    BY Zenon, <1>2
  <2>4. \A t \in Threads : slot[t] = IF t = Main THEN 1 ELSE Hole
    BY <1>2
  <2>5. \A t \in Threads : Live(t) <=> t = Main
    BY <2>1, <2>3, <2>4 DEF Live, Created
  <2>6. slot \in [Threads -> Nat \cup {Hole}]
    BY <1>2
  <2>7. /\ <<Main>> \in Seq(Threads \cup {Hole}) /\ <<>> \in Seq(Nat) /\ DOMAIN <<Main>> = {1} /\ <<Main>>[1] = Main
        /\ IsInjective(<<>>) /\ DOMAIN <<>> = {}
    BY <2>1 DEF IsInjective
  <2>8. store.data = <<Main>> /\ store.free = <<>> /\ store \in [data : Seq(Threads \cup {Hole}), free : Seq(Nat)]
    BY <2>2, <2>7
  <2>9. StoreCore
    BY <2>1, <2>3, <2>4, <2>5, <2>6, <2>7, <2>8 DEF StoreCore
  <2> QED
    BY Zenon, <2>3, <2>9 DEF StoreInv
<1>13. \A t \in Threads : CallInv(t)
  BY <1>6, <1>8 DEF CallInv, Doing
<1>14. JoinInv
  <2>1. Range(<<>>) = {}
    BY DEF Range
  <2> QED
    BY <1>7, <1>8, <2>1 DEF JoinInv, Doing
<1>15. EndInv
  <2>1. ASSUME NEW w \in Threads PROVE ~Met(w) /\ ~Ending(w) /\ ~Doing(w, "exitThread")
    BY <1>6, <1>8 DEF Met, Ending, Doing
  <2> QED
    BY <1>6, <2>1 DEF EndInv, EndOf
<1> QED
  BY Zenon, <1>3, <1>9, <1>10, <1>11, <1>12, <1>13, <1>14, <1>15 DEF PInv

LOCAL INSTANCE FiniteSetTheorems

\* Taking an index away leaves one index fewer.
LEMMA OneLess ==
  ASSUME NEW T, IsFiniteSet(T), NEW i \in T, NEW n \in Nat, Cardinality(T) = n
  PROVE  IsFiniteSet(T \ {i}) /\ Cardinality(T \ {i}) = n - 1
  BY FS_RemoveElement

\* Fields that are not on the free stack: size() counts them.
LEMMA Occupied ==
  ASSUME NEW d, NEW f, NEW n \in Nat, NEW m \in Nat, f \in [1..m -> 1..n], \A k, l \in 1..m : f[k] = f[l] => k = l,
         \A k \in 1..m : d[f[k]] = Hole
  PROVE  /\ \A i \in 1..n : d[i] # Hole => n - m >= 1
         /\ \A i, j \in 1..n : i # j /\ d[i] # Hole /\ d[j] # Hole => n - m >= 2
<1>1. IsFiniteSet(1..n) /\ Cardinality(1..n) = n /\ Cardinality(1..m) = m
  BY FS_Interval
<1>2. ASSUME NEW T \in SUBSET (1..n), \A k \in 1..m : f[k] \in T PROVE IsFiniteSet(T) /\ m <= Cardinality(T)
  <2>1. IsFiniteSet(T)
    BY Zenon, <1>1, FS_Subset
  <2>2. f \in Injection(1..m, T)
    BY Zenon, <1>2 DEF Injection, IsInjective
  <2> QED
    BY <1>1, <2>1, <2>2, FS_Injection
<1>3. ASSUME NEW i \in 1..n, d[i] # Hole PROVE n - m >= 1
  <2>1. m <= Cardinality((1..n) \ {i})
    BY <1>2, <1>3
  <2>2. Cardinality((1..n) \ {i}) = n - 1
    BY Zenon, <1>1, OneLess
  <2> QED
    BY <2>1, <2>2
<1>4. ASSUME NEW i \in 1..n, NEW j \in 1..n, i # j, d[i] # Hole, d[j] # Hole PROVE n - m >= 2
  <2>1. m <= Cardinality(((1..n) \ {i}) \ {j})
    BY <1>2, <1>4
  <2>2. IsFiniteSet((1..n) \ {i}) /\ Cardinality((1..n) \ {i}) = n - 1
    BY Zenon, <1>1, OneLess
  <2>3. n - 1 \in Nat
    BY <1>4
  <2>4. j \in (1..n) \ {i}
    BY Zenon, <1>4
  <2>5. Cardinality(((1..n) \ {i}) \ {j}) = (n - 1) - 1
    BY Zenon, <2>2, <2>3, <2>4, OneLess
  <2> QED
    BY <2>1, <2>5
<1> QED
  BY <1>3, <1>4

\* So size() counts at least the fields that are in use.
LEMMA SizeAgrees ==
  ASSUME NEW d \in Seq(Threads \cup {Hole}), NEW f \in Seq(Nat), \A k, l \in DOMAIN f : f[k] = f[l] => k = l,
         \A k \in DOMAIN f : f[k] \in DOMAIN d /\ d[f[k]] = Hole
  PROVE  /\ \A i \in DOMAIN d : d[i] # Hole => Len(d) - Len(f) >= 1
         /\ \A i, j \in DOMAIN d : i # j /\ d[i] # Hole /\ d[j] # Hole => Len(d) - Len(f) >= 2
<1>1. PICK n \in Nat, m \in Nat : n = Len(d) /\ m = Len(f) /\ DOMAIN d = 1..n /\ DOMAIN f = 1..m /\ f \in [1..m -> Nat]
  BY SeqLength
<1>2. f \in [1..m -> 1..n]
  BY <1>1
<1>3. \A k \in 1..m : d[f[k]] = Hole
  BY Zenon, <1>1
<1>4. \A k, l \in 1..m : f[k] = f[l] => k = l
  BY Zenon, <1>1
<1>5. /\ \A i \in 1..n : d[i] # Hole => n - m >= 1
      /\ \A i, j \in 1..n : i # j /\ d[i] # Hole /\ d[j] # Hole => n - m >= 2
  BY ZenonT(60), <1>2, <1>3, <1>4, Occupied
<1> QED
  BY Zenon, <1>1, <1>5

\* PInv is inductive.
LEMMA ProcessStep ==
  ASSUME PInv, [PNext]_vars
  PROVE  PInv'
<1>1. Base /\ JoinInv /\ EndInv
  <2>1. SizeCounts
    <3> SUFFICES ASSUME NEW d \in Seq(Threads \cup {Hole}), NEW f \in Seq(Nat),
                        \A k, l \in DOMAIN f : f[k] = f[l] => k = l,
                        \A k \in DOMAIN f : f[k] \in DOMAIN d /\ d[f[k]] = Hole
                 PROVE  /\ \A i \in DOMAIN d : d[i] # Hole => Len(d) - Len(f) >= 1
                        /\ \A i, j \in DOMAIN d : i # j /\ d[i] # Hole /\ d[j] # Hole => Len(d) - Len(f) >= 2
      BY Zenon DEF SizeCounts
    <3> QED
      BY Zenon, SizeAgrees
  <2> QED
    BY Zenon, <2>1 DEF PInv, Base
<1>2. CASE UNCHANGED vars
  <2>1. UNCHANGED bsvars /\ UNCHANGED procvars
    BY Zenon, <1>2 DEF vars
  <2>2. /\ UNCHANGED <<state, pc, lock, bq, tq, where, timed, cur, idx, victim, scan, fire>>
        /\ UNCHANGED <<store, slot, joinState, result, got, call, tested, freed, gone>>
    BY Zenon, <2>1 DEF bsvars, procvars
  <2>3. IInv' /\ LockInv'
    BY Zenon, <1>1, <2>1, InductiveStep, LockInvStep DEF Base
  <2>4. Untimed' /\ PTypeOK'
    BY Zenon, <1>1, <2>2 DEF Base, Untimed, PTypeOK
  <2>5. StoreInv'
    BY Zenon, <1>1, <2>2 DEF Base, StoreInv, StoreCore, Live, Created
  <2>6. \A t \in Threads : CallInv(t)'
    BY Zenon, <1>1, <2>2 DEF Base, CallInv, Doing, Place, Created, Idle
  <2>7. JoinInv'
    BY Zenon, <1>1, <2>2 DEF JoinInv, Doing
  <2>8. EndInv'
    BY Zenon, <1>1, <2>2 DEF EndInv, EndOf, Met, Ending, Doing, Live, Created, ExitCalled
  <2> QED
    BY Zenon, <2>3, <2>4, <2>5, <2>6, <2>7, <2>8 DEF PInv
<1>3. ASSUME NEW t \in Threads, Created(t), UserStep(t) \/ CallStep(t) PROVE PInv'
  <2>1. Base' /\ JoinInv'
    BY Zenon, <1>1, <1>3, BaseStep, JoinStep
  <2>2. EndInv'
    <3>1. SUFFICES ASSUME ~ExitCalled', NEW w \in Threads PROVE EndOf(w)'
      BY Zenon DEF EndInv
    <3>2. ~ExitCalled /\ \A x \in Threads : EndOf(x)
      BY Zenon, <1>1, <1>3, <3>1, ExitStays DEF EndInv
    <3> QED
      BY Zenon, <1>1, <1>3, <3>1, <3>2, EndOther, EndOwn
  <2> QED
    BY Zenon, <2>1, <2>2 DEF PInv, Base
<1> QED
  BY Zenon, <1>2, <1>3 DEF PNext

\* The invariant holds in every state of a process.
THEOREM ProcessInvariant == PSpec => []PInv
<1>1. PInit => PInv
  BY ProcessInit
<1>2. PInv /\ [PNext]_vars => PInv'
  BY ProcessStep
<1> QED
  BY <1>1, <1>2, PTL DEF PSpec

\* threadStore (Process.h:42) holds the threads that were created and not
\* destroyed, each at its own idx, for any number of threads and any reuse of
\* indices; the Process is deleted when none is left.
THEOREM StoreExactHolds == PSpec => []StoreExact
<1>1. PInv => StoreExact
  <2>1. SUFFICES ASSUME PInv PROVE StoreExact
    OBVIOUS
  <2>2. StoreInv /\ StoreCore
    BY Zenon, <2>1 DEF PInv, StoreInv
  <2>3. ASSUME NEW t \in Threads, Created(t), t \notin freed PROVE store.data[slot[t]] = t
    BY Zenon, <2>2, <2>3 DEF StoreCore, Live
  <2>4. ASSUME NEW i \in DOMAIN store.data PROVE store.data[i] \notin freed
    BY Zenon, <2>2 DEF StoreCore, Live
  <2>5. ASSUME gone, NEW t \in Threads, Created(t) PROVE t \in freed
    BY Zenon, <2>2, <2>5 DEF StoreInv, Live
  <2> QED
    BY Zenon, <2>3, <2>4, <2>5 DEF StoreExact
<1> QED
  BY <1>1, ProcessInvariant, PTL

\* joinThread (Process.cc:133) returns the value of the thread it joined: by
\* the time it runs again, post() or the test of join() has handed over exactly
\* the result of the thread that the index named when the call began.
THEOREM JoinExactHolds == PSpec => []JoinExact
<1>1. PInv => JoinExact
  BY Zenon DEF PInv, JoinInv, JoinExact
<1> QED
  BY <1>1, ProcessInvariant, PTL

\* exitThread (Process.cc:122) never leaves a thread behind that waits at the
\* wait condition of the thread that ends, for any number of threads, as long
\* as exit() is not called.
THEOREM NoOrphanedJoinHolds == PSpec => []NoOrphanedJoin
<1>1. PInv => NoOrphanedJoin
  BY Zenon DEF PInv, EndInv, EndOf, Ending, NoOrphanedJoin
<1> QED
  BY <1>1, ProcessInvariant, PTL
=============================================================================
