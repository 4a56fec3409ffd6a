--------------------------- MODULE SemaphoreProofs --------------------------
(***************************************************************************)
(* Semaphores use the blocking machinery as it is meant to be used, so     *)
(* that everything proved about it holds for them, and no wake-up is       *)
(* missed; and they implement the abstract semaphore: each step of P, of   *)
(* V, of the timer or of a canceller is one of its steps, or none.         *)
(***************************************************************************)
EXTENDS Semaphore, BlockingSyncProofs, FiniteSetTheorems

\* Where a thread is tells which call it is in, and what that call has found
\* out: P saw no token, V has seen nobody blocked so far.  Both facts survive
\* because the caller holds bLock.
CallInv(t) ==
  LET q == call[t].q IN
  /\ call[t].op # "none" => q \in Queues
  /\ pc[t] \in {"suspended", "ready"} => call[t].op = "P" /\ where[t] = q
  /\ pc[t] \in {"spinTimeout", "held2"} => call[t].op = "P" /\ cur[t] = q /\ counter[q] = 0
  /\ pc[t] = "walk" =>
       /\ call[t].op = "V" /\ cur[t] = q
       /\ \A j \in 1..Len(bq[q]) : j < idx[t] => state[bq[q][j]] # "Blocked"
  /\ pc[t] = "missed" =>
       /\ call[t].op = "V" /\ lock[LockOf[q]] = t
       /\ \A j \in 1..Len(bq[q]) : state[bq[q][j]] # "Blocked"
  /\ pc[t] \in {"xCancelTimeout", "xCancelBlocking", "xResume"} => call[t].op = "none"

SemInv ==
  /\ IInv /\ LockInv
  /\ SemTypeOK
  /\ \A t \in Threads : CallInv(t)
  /\ NoMissedWakeup

-----------------------------------------------------------------------------
\* What a thread does inside P and V are steps the blocking machinery offers its
\* clients: block, resume and release under the queue's own bLock.
LEMMA WorkingIsClient ==
  ASSUME SemInv, NEW t \in Threads, Working(t)
  PROVE  ThreadStep(t) \/ ClientStep(t) \/ SchedStep(t)
<1> USE ConstantsAssumption
<1>1. ASSUME call[t].op # "none" PROVE call[t].q \in Queues /\ LockOf[call[t].q] \in Locks
  BY <1>1 DEF SemInv, CallInv
<1>2. ASSUME PTake(t) \/ VMiss(t) \/ VWalk(t) PROVE CriticalSection(t)
  BY Zenon, <1>1, <1>2 DEF PTake, VMiss, VWalk, InP, InV, CriticalSection
<1>3. ASSUME PWait(t) PROVE CriticalSection(t)
  <2>1. call[t].q \in Queues /\ LockOf[call[t].q] \in Locks /\ call[t].timeout \in Timeouts
    BY <1>1, <1>3 DEF PWait, InP, SemInv, SemTypeOK
  <2>2. call[t].timeout \notin {0, None} => call[t].timeout \in 1..MaxTime
    BY <2>1 DEF Timeouts
  <2> QED
    BY Zenon, <1>3, <2>1, <2>2 DEF PWait, CriticalSection
<1>4. ASSUME PWaitTimed(t) \/ PReturn(t) \/ VWake(t) \/ Inside(t) PROVE ThreadStep(t) \/ SchedStep(t)
  BY Zenon, <1>4 DEF PWaitTimed, PReturn, VWake, Inside, ThreadStep, SchedStep
<1> QED
  BY Zenon, <1>2, <1>3, <1>4 DEF Working, ClientStep

\* So are the steps outside them.
LEMMA OutsideIsClient ==
  ASSUME NEW t \in Threads, Finishes(t) \/ ExitStep(t)
  PROVE  ClientStep(t) \/ SchedStep(t)
<1>1. ThreadLock \in Locks
  BY ConstantsAssumption
<1> QED
  BY Zenon, <1>1 DEF Finishes, ExitStep, ClientStep, CriticalSection, SchedStep

\* P and V take no step that the blocking machinery does not offer.
LEMMA SemaphoreIsClient ==
  ASSUME SemInv, [SemNext]_vars
  PROVE  [BSNext]_bsvars
<1>1. ASSUME NEW t \in Threads, NEW q \in Queues, CallV(t, q) \/ \E d \in Timeouts : CallP(t, q, d)
      PROVE  ClientStep(t)
  BY <1>1, ConstantsAssumption DEF CallV, CallP, ClientStep
<1>2. ASSUME SemNext PROVE BSNext
  BY Zenon, <1>1, <1>2, WorkingIsClient, OutsideIsClient DEF SemNext, BSNext
<1> QED
  BY <1>2 DEF vars

\* What a thread in P or V has found out stays true while others take steps, if
\* they change only counters whose bLock they hold.
LEMMA CallStands ==
  ASSUME SemInv, [BSNext]_bsvars, NEW x \in Threads,
         UNCHANGED <<call[x], cur[x], idx[x], where[x]>>,
         pc'[x] = pc[x] \/ (pc[x] = "suspended" /\ pc'[x] = "ready"),
         \A w \in Threads : pc[w] = "suspended" /\ state'[w] = "Blocked" => state[w] = "Blocked",
         \A q \in Queues : counter'[q] # counter[q] => lock[LockOf[q]] # x
  PROVE  CallInv(x)'
<1> DEFINE q == call[x].q
<1>1. /\ IInv /\ LockInv /\ CallInv(x) /\ TypeOK /\ bq \in [Queues -> Seq(Threads)]
      /\ LockOf \in [Queues -> Locks]
  BY ConstantsAssumption DEF SemInv, IInv, TypeOK
<1>2. CASE pc[x] \in {"walk", "missed"}
  <2>1. pc'[x] = pc[x] /\ q \in Queues /\ lock[LockOf[q]] = x
    BY <1>1, <1>2 DEF CallInv, LockInv
  <2>2. bq'[q] = bq[q] /\ lock'[LockOf[q]] = x
    BY Zenon, <1>1, <2>1, HolderDecides, LockKept
  <2>3. ASSUME NEW j \in 1..Len(bq[q]) PROVE bq[q][j] \in Threads /\ pc[bq[q][j]] = "suspended"
    <3>1. bq[q][j] \in Range(bq[q]) /\ bq[q][j] \in Threads
      BY <1>1, <2>1, <2>3 DEF Range
    <3> QED
      BY <1>1, <2>1, <3>1 DEF IInv, Core, NoStaleLinks
  <2>4. \A j \in 1..Len(bq[q]) : state[bq[q][j]] # "Blocked" => state'[bq[q][j]] # "Blocked"
    BY <2>3
  <2> HIDE DEF q
  <2> QED
    BY <1>1, <1>2, <2>1, <2>2, <2>4 DEF CallInv, q
<1>3. CASE pc[x] \in {"spinTimeout", "held2"}
  <2>1. lock[LockOf[q]] = x /\ q \in Queues
    BY <1>1, <1>3 DEF CallInv, LockInv
  <2> QED
    BY <1>1, <1>3, <2>1 DEF CallInv
<1> QED
  BY Zenon, <1>1, <1>2, <1>3 DEF CallInv

\* A thread that has left its call is bound by nothing.
LEMMA CallOver ==
  ASSUME NEW t \in Threads, call'[t] = Idle,
         pc'[t] \notin {"suspended", "ready", "spinTimeout", "held2", "walk", "missed"}
  PROVE  CallInv(t)'
<1>1. call'[t].op = "none"
  BY DEF Idle
<1> QED
  BY <1>1 DEF CallInv

\* A step of thread t leaves the calls of the others as they were ...
LEMMA OthersStand ==
  ASSUME SemInv, NEW t \in Threads, ThreadStep(t) \/ ClientStep(t) \/ SchedStep(t),
         \A x \in Threads : x # t => call'[x] = call[x],
         \A q \in Queues : counter'[q] # counter[q] => lock[LockOf[q]] = t
  PROVE  \A x \in Threads : x # t => CallInv(x)'
<1> SUFFICES ASSUME NEW x \in Threads, x # t PROVE CallInv(x)'
  OBVIOUS
<1>1. IInv /\ BSNext
  BY DEF BSNext, SemInv
<1>2. \A w \in Threads : pc[w] = "suspended" /\ state'[w] = "Blocked" => state[w] = "Blocked"
  BY <1>1, BlockedOnce
<1>3. /\ pc'[x] = pc[x] \/ (pc[x] = "suspended" /\ pc'[x] = "ready")
      /\ UNCHANGED <<call[x], cur[x], idx[x], where[x]>>
  BY <1>1, Bystander
<1> QED
  BY <1>1, <1>2, <1>3, CallStands

\* ... and blocks nobody for whom there is a token, unless it goes to sleep.
LEMMA WakeupStands ==
  ASSUME SemInv, IInv', NEW t \in Threads, ThreadStep(t) \/ ClientStep(t) \/ SchedStep(t),
         \A q \in Queues : counter'[q] > 0 =>
           counter[q] > 0 \/ \A j \in 1..Len(bq[q]) : state[bq[q][j]] # "Blocked",
         pc'[t] = "suspended" => ~ (counter'[where'[t]] > 0)
  PROVE  NoMissedWakeup'
<1> SUFFICES ASSUME NEW q \in Queues, counter'[q] > 0, NEW w \in Range(bq'[q]), state'[w] = "Blocked"
             PROVE  FALSE
  BY DEF NoMissedWakeup
<1>1. IInv /\ bq \in [Queues -> Seq(Threads)] /\ bq' \in [Queues -> Seq(Threads)] /\ None \notin Queues
  BY Zenon, ConstantsAssumption DEF SemInv, IInv, TypeOK
<1>2. w \in Threads /\ pc'[w] = "suspended" /\ where'[w] = q
  BY <1>1 DEF IInv, Core, NoStaleLinks, Range
<1>3. w # t
  BY <1>2
<1>4. state[w] = "Blocked" /\ where[w] = q
  BY <1>1, <1>2, <1>3, Bystander
<1>5. w \in Range(bq[q])
  BY <1>1, <1>2, <1>4 DEF IInv, Core, BlockedIsLinked, OnQueue
<1>6. ~ (counter[q] > 0)
  BY <1>4, <1>5 DEF SemInv, NoMissedWakeup
<1>7. PICK j \in 1..Len(bq[q]) : w = bq[q][j]
  BY <1>1, <1>5 DEF Range
<1> QED
  BY <1>4, <1>6, <1>7

-----------------------------------------------------------------------------
\* What is true of a semaphore whichever call is under way, one step at a time.
SemCallInv == SemTypeOK /\ (\A t \in Threads : CallInv(t)) /\ NoMissedWakeup

\* A step that starts a call.
LEMMA CallStarts ==
  ASSUME SemInv, IInv', NEW t \in Threads, NEW q \in Queues,
         CallV(t, q) \/ \E d \in Timeouts : CallP(t, q, d)
  PROVE  SemCallInv'
<1>1. /\ SemTypeOK /\ TypeOK /\ pc[t] = "run" /\ pc' = [pc EXCEPT ![t] = "held"] /\ counter' = counter
      /\ outcome' = outcome
      /\ \E op \in {"P", "V"}, d \in Timeouts : call' = [call EXCEPT ![t] = [op |-> op, q |-> q, timeout |-> d]]
  BY SMT, ConstantsAssumption DEF CallV, CallP, Acquire, Goto, SemInv, IInv, Timeouts
<1>2. ClientStep(t)
  BY ConstantsAssumption DEF CallV, CallP, ClientStep
<1>3. SemTypeOK'
  BY <1>1 DEF SemTypeOK
<1>4. pc'[t] = "held" /\ call'[t].q = q /\ \A x \in Threads : x # t => call'[x] = call[x]
  BY <1>1 DEF TypeOK, Actors, SemTypeOK
<1>5. CallInv(t)'
  BY <1>4 DEF CallInv
<1>6. \A x \in Threads : x # t => CallInv(x)'
  BY <1>1, <1>2, <1>4, OthersStand
<1>7. NoMissedWakeup'
  BY <1>1, <1>2, <1>4, WakeupStands
<1> QED
  BY <1>3, <1>5, <1>6, <1>7 DEF SemCallInv

\* A step inside P: it returns, or goes on having seen no token.
LEMMA PSteps ==
  ASSUME SemInv, IInv', NEW t \in Threads, PTake(t) \/ PWait(t) \/ PWaitTimed(t) \/ PReturn(t),
         ThreadStep(t) \/ ClientStep(t) \/ SchedStep(t)
  PROVE  SemCallInv'
<1> DEFINE q == call[t].q
           Back == call'[t] = Idle /\ pc'[t] \in {"run", "dead"}
           Waits == /\ call'[t] = call[t] /\ call[t].op = "P" /\ q \in Queues
                    /\ counter[q] = 0 /\ counter' = counter
                    /\ \/ pc'[t] = "spinTimeout" /\ cur'[t] = q
                       \/ pc'[t] = "suspended" /\ where'[t] = q
           Own == \A p \in Queues : counter'[p] # counter[p] =>
                    lock[LockOf[p]] = t /\ counter[p] > 0
           Sum == SemTypeOK' /\ (Back \/ Waits) /\ Own /\ \A x \in Threads : x # t => call'[x] = call[x]
<1>1. SemTypeOK /\ TypeOK /\ CallInv(t) /\ Idle \in [op : {"none", "P", "V"}, q : Queues \cup {None}, timeout : Timeouts]
  BY ConstantsAssumption DEF SemInv, IInv, Idle, Timeouts
<1>2. ASSUME NEW b \in BOOLEAN, Returns(t, b)
      PROVE  /\ call' \in [Threads -> [op : {"none", "P", "V"}, q : Queues \cup {None}, timeout : Timeouts]]
             /\ outcome' \in [Threads -> BOOLEAN]
             /\ call'[t] = Idle /\ \A x \in Threads : x # t => call'[x] = call[x]
  BY <1>1, <1>2 DEF Returns, SemTypeOK
<1>3. ASSUME PTake(t) PROVE Sum
  <2>1. /\ q \in Queues /\ counter[q] >= 1 /\ counter' = [counter EXCEPT ![q] = @ - 1]
        /\ lock[LockOf[q]] = t /\ pc'[t] = "run" /\ Returns(t, TRUE)
    BY Zenon, <1>1, <1>3 DEF PTake, InP, CallInv, Release, Goto, TypeOK, Actors
  <2>2. counter' \in [Queues -> Nat] /\ Own
    BY <1>1, <2>1 DEF SemTypeOK
  <2> HIDE DEF Own
  <2> QED
    BY Zenon, <1>2, <2>1, <2>2 DEF SemTypeOK
<1>4. ASSUME PWait(t) PROVE Sum
  <2>1. call[t].op = "P" /\ q \in Queues /\ counter[q] = 0 /\ counter' = counter
    BY SMTT(30), <1>1, <1>4 DEF PWait, InP, CallInv, SemTypeOK
  <2>2. \/ Returns(t, FALSE) /\ pc'[t] = "run"
        \/ UNCHANGED <<call, outcome>> /\ pc'[t] = "spinTimeout" /\ cur'[t] = q
        \/ UNCHANGED <<call, outcome>> /\ pc'[t] = "suspended" /\ where'[t] = q
    BY Zenon, <1>1, <1>4 DEF PWait, Block, StartTimedBlock, Release, Suspend, Goto, TypeOK, Actors
  <2> QED
    BY Zenon, <1>1, <1>2, <2>1, <2>2 DEF SemTypeOK
<1>5. ASSUME PWaitTimed(t) PROVE Sum
  <2>1. call[t].op = "P" /\ q \in Queues /\ counter[q] = 0 /\ counter' = counter /\ cur[t] = q
    BY Zenon, <1>1, <1>5 DEF PWaitTimed, TimedBlock, CallInv
  <2>2. \/ Returns(t, FALSE) /\ pc'[t] = "run"
        \/ UNCHANGED <<call, outcome>> /\ pc'[t] = "suspended" /\ where'[t] = q
    BY Zenon, <1>1, <1>5, <2>1 DEF PWaitTimed, TimedBlock, Suspend, Goto, TypeOK, Actors
  <2> QED
    BY Zenon, <1>1, <1>2, <2>1, <2>2 DEF SemTypeOK
<1>6. ASSUME PReturn(t) PROVE Sum
  <2>1. counter' = counter /\ pc'[t] \in {"run", "dead"}
    BY Zenon, <1>1, <1>6 DEF PReturn, Dispatch, Goto, TypeOK, Actors
  <2>2. (call' = [call EXCEPT ![t] = Idle] /\ outcome' = outcome) \/ \E b \in BOOLEAN : Returns(t, b)
    BY Zenon, <1>1, <1>6 DEF PReturn, TypeOK
  <2> QED
    BY Zenon, <1>1, <1>2, <2>1, <2>2 DEF SemTypeOK
<1>7. Sum
  BY Zenon, <1>3, <1>4, <1>5, <1>6
<1>8. CallInv(t)'
  BY SMTT(30), <1>7 DEF CallInv, Idle
<1>9. \A x \in Threads : x # t => CallInv(x)'
  BY Zenon, <1>7, OthersStand
<1>10. \A p \in Queues : counter'[p] > 0 => counter[p] > 0
  BY <1>1, <1>7 DEF SemTypeOK
<1>11. pc'[t] = "suspended" => ~ (counter'[where'[t]] > 0)
  BY <1>7
<1>12. NoMissedWakeup'
  BY <1>10, <1>11, WakeupStands
<1> QED
  BY <1>7, <1>8, <1>9, <1>12 DEF SemCallInv

\* A step inside V, or of the machinery on behalf of V or of a canceller.
LEMMA VSteps ==
  ASSUME SemInv, IInv', NEW t \in Threads, VWalk(t) \/ VMiss(t) \/ VWake(t),
         ThreadStep(t) \/ ClientStep(t) \/ SchedStep(t)
  PROVE  SemCallInv'
<1> DEFINE q == call[t].q
<1>1. /\ SemTypeOK /\ TypeOK /\ CallInv(t)
      /\ Idle \in [op : {"none", "P", "V"}, q : Queues \cup {None}, timeout : Timeouts]
  BY ConstantsAssumption DEF SemInv, IInv, Idle, Timeouts
<1>2. CASE VWalk(t)
  <2>1. /\ UNCHANGED semvars /\ q \in Queues /\ call[t].op = "V" /\ bq' = bq
        /\ pc'[t] = "walk" /\ cur'[t] = q /\ idx'[t] = 1
    BY Zenon, <1>1, <1>2 DEF VWalk, InV, StartResume, Goto, CallInv, TypeOK, Actors
  <2>2. call' = call /\ \A j \in 1..Len(bq'[q]) : ~ (j < idx'[t])
    BY <2>1 DEF semvars
  <2>3. CallInv(t)'
    BY Zenon, <2>1, <2>2 DEF CallInv
  <2>4. \A x \in Threads : x # t => CallInv(x)'
    BY <2>1, OthersStand DEF semvars
  <2>5. NoMissedWakeup'
    BY <2>1, WakeupStands DEF semvars
  <2> QED
    BY <1>1, <2>1, <2>3, <2>4, <2>5 DEF SemCallInv, SemTypeOK, semvars
<1>3. CASE VMiss(t)
  <2>1. /\ q \in Queues /\ pc[t] = "missed" /\ counter' = [counter EXCEPT ![q] = @ + 1]
        /\ lock[LockOf[q]] = t /\ pc'[t] = "run"
        /\ call' = [call EXCEPT ![t] = Idle] /\ outcome' = outcome
    BY Zenon, <1>1, <1>3 DEF VMiss, InV, Release, Goto, CallInv, TypeOK, Actors
  <2>2. SemTypeOK' /\ call'[t] = Idle /\ \A x \in Threads : x # t => call'[x] = call[x]
    BY <1>1, <2>1 DEF SemTypeOK
  <2>3. CallInv(t)'
    BY Zenon, <2>1, <2>2, CallOver
  <2>4. \A p \in Queues : counter'[p] # counter[p] => lock[LockOf[p]] = t
    BY Zenon, <1>1, <2>1 DEF SemTypeOK
  <2>5. \A x \in Threads : x # t => CallInv(x)'
    BY Zenon, <2>2, <2>4, OthersStand
  <2>6. \A p \in Queues : counter'[p] > 0 =>
           counter[p] > 0 \/ \A j \in 1..Len(bq[p]) : state[bq[p][j]] # "Blocked"
    BY Zenon, <1>1, <2>1 DEF SemTypeOK, CallInv
  <2>7. NoMissedWakeup'
    BY <2>1, <2>6, WakeupStands
  <2> QED
    BY <2>2, <2>3, <2>5, <2>7 DEF SemCallInv
<1>4. CASE VWake(t)
  <2>1. /\ victim[t] \in Threads /\ pc[victim[t]] = "suspended" /\ victim[t] # t
    BY <1>4, WonThread DEF VWake, Wake, SemInv, Actors, WakePC, CancelPC
  <2>2. /\ counter' = counter /\ outcome' = outcome /\ call' = [call EXCEPT ![t] = Idle]
        /\ pc'[t] = "run"
    BY <1>1, <1>4, <2>1 DEF VWake, Wake, TypeOK, Actors
  <2>3. SemTypeOK' /\ call'[t] = Idle /\ \A x \in Threads : x # t => call'[x] = call[x]
    BY <1>1, <2>2 DEF SemTypeOK
  <2>4. CallInv(t)'
    BY <2>2, <2>3, CallOver
  <2>5. \A x \in Threads : x # t => CallInv(x)'
    BY <2>2, <2>3, OthersStand
  <2>6. NoMissedWakeup'
    BY <2>2, WakeupStands
  <2> QED
    BY <2>3, <2>4, <2>5, <2>6 DEF SemCallInv
<1> QED
  BY <1>2, <1>3, <1>4

\* A step of the machinery that returns to no caller: V learns about one entry
\* of the queue, or that it has seen them all.
LEMMA InsideSteps ==
  ASSUME SemInv, IInv', NEW t \in Threads, Inside(t), UNCHANGED semvars, ThreadStep(t)
  PROVE  SemCallInv'
<1> DEFINE q == call[t].q
<1>1. SemTypeOK /\ TypeOK /\ IInv /\ CallInv(t)
  BY DEF SemInv, IInv
<1> idx \in [Threads -> Nat] /\ bq \in [Queues -> Seq(Threads)]
  BY <1>1 DEF TypeOK
<1>2. ASSUME TryUnblock(t) PROVE CallInv(t)' /\ pc'[t] # "suspended"
  <2>1. /\ q \in Queues /\ cur[t] = q /\ call[t].op = "V" /\ pc[t] = "walk" /\ idx[t] \in Nat
        /\ \A j \in 1..Len(bq[q]) : j < idx[t] => state[bq[q][j]] # "Blocked"
    BY Zenon, <1>1, <1>2 DEF TryUnblock, CallInv, TypeOK
  <2>2. \/ pc'[t] \in {"cancelTimeout", "resume"}
        \/ /\ state[bq[q][idx[t]]] # "Blocked" /\ UNCHANGED <<state, bq, pc, cur>>
           /\ idx'[t] = idx[t] + 1
    BY Zenon, <1>1, <1>2, <2>1 DEF TryUnblock, Goto, TypeOK, Actors
  <2>3. CASE pc'[t] \in {"cancelTimeout", "resume"}
    BY Zenon, <1>1, <2>3 DEF CallInv, semvars
  <2>4. CASE /\ state[bq[q][idx[t]]] # "Blocked" /\ UNCHANGED <<state, bq, pc, cur>>
             /\ idx'[t] = idx[t] + 1
    <3>1. \A j \in 1..Len(bq[q]) : j < idx'[t] => state[bq[q][j]] # "Blocked"
      BY <2>1, <2>4
    <3> QED
      BY Zenon, <2>1, <2>4, <3>1 DEF CallInv, semvars
  <2> QED
    BY <2>2, <2>3, <2>4
<1>3. ASSUME ResumeMisses(t) PROVE CallInv(t)' /\ pc'[t] # "suspended"
  <2>1. /\ pc[t] = "walk" /\ pc'[t] = "missed" /\ UNCHANGED <<state, bq, lock>>
        /\ q \in Queues /\ cur[t] = q /\ call[t].op = "V"
    BY Zenon, <1>1, <1>3 DEF ResumeMisses, CallInv, Goto, TypeOK, Actors
  <2>2. lock[LockOf[q]] = t
    BY <2>1 DEF SemInv, LockInv
  <2>3. idx[t] \in Nat /\ Len(bq[q]) \in Nat /\ idx[t] > Len(bq[q])
    BY <1>3, <2>1 DEF ResumeMisses
  <2>4. \A j \in 1..Len(bq[q]) : state[bq[q][j]] # "Blocked"
    BY SMTT(30), <1>1, <2>1, <2>3 DEF CallInv
  <2> QED
    BY <2>1, <2>2, <2>4 DEF CallInv, semvars
<1>4. ASSUME AcquireTimeoutLock(t) PROVE CallInv(t)' /\ pc'[t] # "suspended"
  BY Zenon, <1>1, <1>4 DEF AcquireTimeoutLock, walk, Goto, CallInv, semvars, TypeOK, Actors
<1>5. ASSUME CancelTimeout(t, "cancelTimeout", "resume")
             \/ CancelTimeout(t, "xCancelTimeout", AfterTimeout(victim[t]))
      PROVE  CallInv(t)' /\ pc'[t] # "suspended"
  BY Zenon, <1>1, <1>5 DEF CancelTimeout, AfterTimeout, CallInv, Goto, semvars, TypeOK, Actors
<1>6. ASSUME CancelBlocking(t) PROVE CallInv(t)' /\ pc'[t] # "suspended"
  BY Zenon, <1>1, <1>6 DEF CancelBlocking, CallInv, Goto, semvars, TypeOK, Actors
<1>7. ASSUME Wake(t, "xResume", "held") PROVE CallInv(t)' /\ pc'[t] # "suspended"
  <2>1. victim[t] \in Threads /\ pc[victim[t]] = "suspended"
    BY <1>1, <1>7, WonThread DEF Wake, Actors, WakePC, CancelPC
  <2> QED
    BY Zenon, <1>1, <1>7, <2>1 DEF Wake, CallInv, semvars, TypeOK, Actors
<1>8. CallInv(t)' /\ pc'[t] # "suspended"
  BY Zenon, <1>2, <1>3, <1>4, <1>5, <1>6, <1>7 DEF Inside
<1>9. \A x \in Threads : x # t => CallInv(x)'
  BY OthersStand DEF semvars
<1>10. NoMissedWakeup'
  BY Zenon, <1>8, WakeupStands DEF semvars
<1> QED
  BY <1>1, <1>8, <1>9, <1>10 DEF SemCallInv, SemTypeOK, semvars

\* Steps outside P and V: a thread finishes or cancels others.
LEMMA OutsideSteps ==
  ASSUME SemInv, IInv', NEW t \in Threads,
         Finishes(t) \/ (call[t] = Idle /\ ExitStep(t) /\ UNCHANGED semvars),
         ClientStep(t) \/ SchedStep(t)
  PROVE  SemCallInv'
<1>1. SemTypeOK /\ TypeOK /\ Idle \in [op : {"none", "P", "V"}, q : Queues \cup {None}, timeout : Timeouts]
  BY ConstantsAssumption DEF SemInv, IInv, Idle, Timeouts
<1>2. /\ counter' = counter /\ outcome' = outcome
      /\ call' = [call EXCEPT ![t] = Idle]
  BY <1>1 DEF Finishes, semvars, SemTypeOK
<1>3. pc'[t] \in {"run", "held", "dead"} \cup WakePC
  BY Zenon, <1>1 DEF Finishes, FinishCancelled, Terminate, ExitStep, Acquire, Cancel, Release, AfterTimeout,
     Goto, WakePC, CancelPC, TypeOK, Actors
<1>4. SemTypeOK' /\ call'[t] = Idle /\ \A x \in Threads : x # t => call'[x] = call[x]
  BY <1>1, <1>2 DEF SemTypeOK
<1>5. CallInv(t)'
  BY Zenon, <1>3, <1>4, CallOver DEF WakePC, CancelPC
<1>6. \A x \in Threads : x # t => CallInv(x)'
  BY Zenon, <1>2, <1>4, OthersStand
<1>7. NoMissedWakeup'
  BY Zenon, <1>2, <1>3, WakeupStands DEF WakePC, CancelPC
<1> QED
  BY <1>4, <1>5, <1>6, <1>7 DEF SemCallInv

\* The clock and the timer interrupt.
LEMMA TimerSteps ==
  ASSUME SemInv, IInv', Tick \/ TimerStep, UNCHANGED semvars
  PROVE  SemCallInv'
<1>1. IInv /\ BSNext /\ bq' \in [Queues -> Seq(Threads)] /\ None \notin Queues
  BY ConstantsAssumption DEF BSNext, SemInv, IInv, TypeOK
<1>2. ASSUME NEW x \in Threads
      PROVE  /\ pc'[x] = pc[x] \/ (pc[x] = "suspended" /\ pc'[x] = "ready")
             /\ cur'[x] = cur[x] /\ idx'[x] = idx[x] /\ where'[x] = where[x]
             /\ state'[x] = "Blocked" => state[x] = "Blocked"
  BY Zenon, <1>1, <1>2, TimerBystander
<1>3. ASSUME NEW x \in Threads PROVE CallInv(x)'
  BY Zenon, <1>1, <1>2, CallStands DEF semvars
<1>4. ASSUME NEW q \in Queues, counter'[q] > 0, NEW w \in Range(bq'[q]), state'[w] = "Blocked"
      PROVE  FALSE
  <2>1. w \in Threads /\ where'[w] = q
    BY <1>1, <1>4 DEF IInv, Core, NoStaleLinks, Range
  <2>2. state[w] = "Blocked" /\ where[w] = q
    BY <1>2, <1>4, <2>1
  <2>3. w \in Range(bq[q])
    BY Zenon, <1>1, <2>1, <2>2 DEF IInv, Core, BlockedIsLinked, OnQueue
  <2> QED
    BY <1>4, <2>2, <2>3 DEF SemInv, NoMissedWakeup, semvars
<1>5. NoMissedWakeup'
  BY <1>4 DEF NoMissedWakeup
<1> QED
  BY <1>3, <1>5 DEF SemCallInv, SemInv, SemTypeOK, semvars

\* Every step of P, V, the timer and the exit path keeps the invariant.
LEMMA SemInvStep ==
  ASSUME SemInv, [SemNext]_vars
  PROVE  SemInv'
<1>1. [BSNext]_bsvars
  BY SemaphoreIsClient
<1>2. IInv' /\ LockInv'
  BY <1>1, InductiveStep, LockInvStep DEF SemInv
<1>3. CASE UNCHANGED vars
  <2>1. UNCHANGED <<pc, cur, idx, where, state, bq, lock, counter, call, outcome>>
    BY <1>3 DEF vars, bsvars, semvars
  <2> QED
    BY Zenon, <1>2, <2>1 DEF SemInv, SemTypeOK, CallInv, NoMissedWakeup
<1>4. ASSUME NEW t \in Threads, NEW q \in Queues, CallV(t, q) \/ \E d \in Timeouts : CallP(t, q, d)
      PROVE  SemCallInv'
  BY <1>2, <1>4, CallStarts
<1>5. ASSUME NEW t \in Threads, Working(t) PROVE SemCallInv'
  <2>1. ThreadStep(t) \/ ClientStep(t) \/ SchedStep(t)
    BY <1>5, WorkingIsClient
  <2>2. CASE PTake(t) \/ PWait(t) \/ PWaitTimed(t) \/ PReturn(t)
    BY <1>2, <2>1, <2>2, PSteps
  <2>3. CASE VWalk(t) \/ VMiss(t) \/ VWake(t)
    BY <1>2, <2>1, <2>3, VSteps
  <2>4. CASE Inside(t) /\ UNCHANGED semvars
    <3>1. ThreadStep(t)
      BY Zenon, <2>4 DEF Inside, ThreadStep
    <3> QED
      BY <1>2, <2>4, <3>1, InsideSteps
  <2> QED
    BY <1>5, <2>2, <2>3, <2>4 DEF Working
<1>6. ASSUME NEW t \in Threads, Finishes(t) \/ (call[t] = Idle /\ ExitStep(t) /\ UNCHANGED semvars)
      PROVE  SemCallInv'
  <2>1. ClientStep(t) \/ SchedStep(t)
    BY <1>6, OutsideIsClient
  <2> QED
    BY <1>2, <1>6, <2>1, OutsideSteps
<1>7. ASSUME (Tick \/ TimerStep) /\ UNCHANGED semvars PROVE SemCallInv'
  BY <1>2, <1>7, TimerSteps
<1>8. ASSUME SemNext PROVE SemCallInv'
  BY Zenon, <1>4, <1>5, <1>6, <1>7, <1>8 DEF SemNext
<1>9. ASSUME SemCallInv' PROVE SemInv'
  BY <1>2, <1>9 DEF SemCallInv, SemInv
<1> QED
  BY <1>3, <1>8, <1>9

\* Initially nobody waits and no call is under way.
LEMMA SemInitially ==
  ASSUME SemInit
  PROVE  SemInv
<1>1. IInv /\ LockInv
  BY InitialStates, ConstantsAssumption DEF SemInit, BSInit, LockInv, HoldPC, CancelPC, Actors
<1>2. SemTypeOK
  BY ConstantsAssumption, SemaphoreAssumption DEF SemInit, SemTypeOK, Idle, Timeouts
<1>3. ASSUME NEW t \in Threads PROVE CallInv(t)
  BY <1>3 DEF SemInit, BSInit, CallInv, Idle, Actors
<1>4. NoMissedWakeup
  BY DEF SemInit, BSInit, NoMissedWakeup, Range
<1> QED
  BY <1>1, <1>2, <1>3, <1>4 DEF SemInv

\* The inductive invariant of semaphores.
THEOREM SemInvariance == SemSpec => []SemInv
<1>1. SemInit => SemInv
  BY SemInitially
<1>2. SemInv /\ [SemNext]_vars => SemInv'
  BY SemInvStep
<1> QED
  BY <1>1, <1>2, PTL DEF SemSpec

\* class Semaphore uses BlockingQueue and Timeout as they are meant to be used:
\* its behaviours are behaviours of the blocking machinery, and everything
\* proved of that one (OneWaker, NoStaleLinks, NoDeadlyEmbrace ...) holds here.
THEOREM SemaphoreUsesBlockingSync == SemSpec => BSSpec
<1>1. SemInit => BSInit
  BY DEF SemInit
<1>2. SemInv /\ [SemNext]_vars => [BSNext]_bsvars
  BY SemaphoreIsClient
<1> QED
  BY <1>1, <1>2, SemInvariance, PTL DEF SemSpec, BSSpec

\* V never counts a token while a thread is blocked in P, for any number of
\* threads and semaphores (BlockingSync.h:264-270).
THEOREM NoMissedWakeupHolds == SemSpec => []NoMissedWakeup
<1>1. SemInv => NoMissedWakeup
  BY DEF SemInv
<1> QED
  BY <1>1, SemInvariance, PTL

-----------------------------------------------------------------------------
(* The refinement of AbstractSemaphore.                                    *)

\* There are finitely many threads to count.
LEMMA FiniteThreads ==
  ASSUME NEW S \in SUBSET Threads
  PROVE  IsFiniteSet(S) /\ Cardinality(S) \in Nat
  BY SemaphoreAssumption, FS_Subset, FS_CardinalityType

\* A function that differs at one point.
LEMMA OnePoint ==
  ASSUME NEW f, NEW g, NEW q \in Queues, NEW v,
         f = [r \in Queues |-> f[r]], g = [r \in Queues |-> g[r]],
         \A r \in Queues : r # q => g[r] = f[r], g[q] = v
  PROVE  g = [f EXCEPT ![q] = v]
  OBVIOUS

\* The abstract number of tokens follows the counter ...
LEMMA TokensCounted ==
  ASSUME SemTypeOK, \A r \in Queues : Batons(r)' = Batons(r), NEW q \in Queues
  PROVE  /\ counter' = [counter EXCEPT ![q] = @ + 1] => Tokens' = [Tokens EXCEPT ![q] = Tokens[q] + 1]
         /\ counter' = [counter EXCEPT ![q] = @ - 1] /\ counter[q] >= 1
              => Tokens' = [Tokens EXCEPT ![q] = Tokens[q] - 1] /\ Tokens[q] > 0
<1> DEFINE card == [r \in Queues |-> Cardinality(Batons(r))]
<1>1. card \in [Queues -> Nat] /\ counter \in [Queues -> Nat]
  BY FiniteThreads DEF Batons, SemTypeOK
<1>2. Tokens = [r \in Queues |-> counter[r] + card[r]] /\ Tokens' = [r \in Queues |-> counter'[r] + card[r]]
  BY DEF Tokens
<1> HIDE DEF card
<1>3. Tokens = [r \in Queues |-> Tokens[r]] /\ Tokens' = [r \in Queues |-> Tokens'[r]]
  BY <1>2
<1>4. ASSUME counter' = [counter EXCEPT ![q] = @ + 1] PROVE Tokens' = [Tokens EXCEPT ![q] = Tokens[q] + 1]
  <2>1. Tokens'[q] = Tokens[q] + 1 /\ \A r \in Queues : r # q => Tokens'[r] = Tokens[r]
    BY <1>1, <1>2, <1>4
  <2> QED
    BY <1>3, <2>1, OnePoint
<1>5. ASSUME counter' = [counter EXCEPT ![q] = @ - 1], counter[q] >= 1
      PROVE  Tokens' = [Tokens EXCEPT ![q] = Tokens[q] - 1] /\ Tokens[q] > 0
  <2>1. Tokens'[q] = Tokens[q] - 1 /\ \A r \in Queues : r # q => Tokens'[r] = Tokens[r]
    BY <1>1, <1>2, <1>5
  <2>2. Tokens[q] > 0
    BY <1>1, <1>2, <1>5
  <2> QED
    BY <1>3, <2>1, <2>2, OnePoint
<1> QED
  BY <1>4, <1>5

\* A step of V() or P() that neither counts nor passes a token on leaves the
\* number of tokens as it is.
LEMMA TokensStay ==
  ASSUME counter' = counter, \A r \in Queues : Batons(r)' = Batons(r)
  PROVE  Tokens' = Tokens
  BY Zenon DEF Tokens

\* ... and the tokens in hand.
LEMMA TokensHanded ==
  ASSUME SemTypeOK, counter' = counter, NEW q \in Queues, NEW w,
         \A r \in Queues : r # q => Batons(r)' = Batons(r)
  PROVE  /\ w \notin Batons(q) /\ Batons(q)' = Batons(q) \cup {w} => Tokens' = [Tokens EXCEPT ![q] = Tokens[q] + 1]
         /\ w \in Batons(q) /\ Batons(q)' = Batons(q) \ {w}
              => Tokens' = [Tokens EXCEPT ![q] = Tokens[q] - 1] /\ Tokens[q] > 0
<1> DEFINE card == [r \in Queues |-> Cardinality(Batons(r))]
           next == [r \in Queues |-> Cardinality(Batons(r)')]
<1>1. card \in [Queues -> Nat] /\ next \in [Queues -> Nat] /\ counter \in [Queues -> Nat]
  BY Zenon, FiniteThreads DEF Batons, SemTypeOK
<1>2. IsFiniteSet(Batons(q)) /\ \A r \in Queues : r # q => next[r] = card[r]
  BY Zenon, FiniteThreads DEF Batons
<1>3. w \notin Batons(q) /\ Batons(q)' = Batons(q) \cup {w} => next[q] = card[q] + 1
  BY <1>2, FS_AddElement
<1>4. w \in Batons(q) /\ Batons(q)' = Batons(q) \ {w} => next[q] = card[q] - 1
  BY <1>2, FS_RemoveElement
<1>5. Tokens = [r \in Queues |-> counter[r] + card[r]] /\ Tokens' = [r \in Queues |-> counter[r] + next[r]]
  BY DEF Tokens
<1> HIDE DEF card, next
<1>6. Tokens = [r \in Queues |-> Tokens[r]] /\ Tokens' = [r \in Queues |-> Tokens'[r]]
  BY <1>5
<1>7. \A r \in Queues : r # q => Tokens'[r] = Tokens[r]
  BY <1>2, <1>5
<1>8. ASSUME w \notin Batons(q), Batons(q)' = Batons(q) \cup {w} PROVE Tokens' = [Tokens EXCEPT ![q] = Tokens[q] + 1]
  <2>1. Tokens'[q] = Tokens[q] + 1
    BY <1>1, <1>3, <1>5, <1>8
  <2> QED
    BY <1>6, <1>7, <2>1, OnePoint
<1>9. ASSUME w \in Batons(q), Batons(q)' = Batons(q) \ {w}
      PROVE  Tokens' = [Tokens EXCEPT ![q] = Tokens[q] - 1] /\ Tokens[q] > 0
  <2>1. Tokens'[q] = Tokens[q] - 1 /\ Tokens[q] > 0
    <3>1. next[q] = card[q] - 1
      BY <1>4, <1>9
    <3> QED
      BY <1>1, <1>5, <3>1
  <2> QED
    BY <1>6, <1>7, <2>1, OnePoint
<1> QED
  BY <1>8, <1>9

\* Another thread's token in hand, and what the abstract semaphore sees of its
\* call, are not touched by a step of t that leaves its queue entry and its
\* timedOut flag alone.
LEMMA BatonStands ==
  ASSUME SemInv, NEW t \in Threads, ThreadStep(t) \/ ClientStep(t) \/ SchedStep(t),
         NEW x \in Threads, x # t, call'[x] = call[x], timedOut'[x] = timedOut[x],
         \A q \in Queues : x \in Range(bq'[q]) <=> x \in Range(bq[q])
  PROVE  \A q \in Queues : (x \in Batons(q))' <=> x \in Batons(q)
<1>1. /\ pc'[x] = pc[x] \/ (pc[x] = "suspended" /\ pc'[x] = "ready")
      /\ where'[x] = where[x]
  BY Bystander DEF SemInv
<1> QED
  BY <1>1 DEF Batons, OnQueue

\* A step of one thread leaves what the others are seen to do in P() and V().
LEMMA ViewStands ==
  ASSUME SemInv, NEW t \in Threads, ThreadStep(t) \/ ClientStep(t) \/ SchedStep(t),
         \A x \in Threads : x # t => call'[x] = call[x]
  PROVE  /\ Giving' = [Giving EXCEPT ![t] = Giving'[t]]
         /\ \A x \in Threads : x # t => (x \in Gone' <=> x \in Gone)
<1>1. ASSUME NEW x \in Threads, x # t
      PROVE  pc'[x] = pc[x] \/ (pc[x] = "suspended" /\ pc'[x] = "ready")
  BY Zenon, <1>1, Bystander DEF SemInv
<1>2. ASSUME NEW x \in Threads, x # t PROVE Giving'[x] = Giving[x]
  BY Zenon, <1>1, <1>2 DEF Giving
<1>3. Giving' = [Giving EXCEPT ![t] = Giving'[t]]
  BY Zenon, <1>2 DEF Giving
<1>4. \A x \in Threads : x # t => (x \in Gone' <=> x \in Gone)
  BY <1>1 DEF Gone
<1> QED
  BY <1>3, <1>4

\* A step of t by which nobody gains or loses a token in hand: t does not wait
\* for one before, and not without being queued afterwards.
LEMMA QuietBatons ==
  ASSUME SemInv, NEW t \in Threads, ThreadStep(t) \/ ClientStep(t) \/ SchedStep(t),
         \A x \in Threads : x # t =>
           /\ call'[x] = call[x] /\ timedOut'[x] = timedOut[x]
           /\ \A q \in Queues : x \in Range(bq'[q]) <=> x \in Range(bq[q]),
         pc[t] \notin {"suspended", "ready"},
         pc'[t] \notin {"suspended", "ready"} \/ t \in Range(bq'[where'[t]])
  PROVE  \A q \in Queues : Batons(q)' = Batons(q)
<1>1. \A x \in Threads : x # t => \A q \in Queues : (x \in Batons(q))' <=> x \in Batons(q)
  BY BatonStands
<1>2. \A q \in Queues : t \notin Batons(q) /\ (t \notin Batons(q))'
  BY DEF Batons, OnQueue
<1>3. ASSUME NEW q \in Queues PROVE Batons(q)' = Batons(q)
  <2>1. \A x \in Threads : x \in Batons(q)' <=> x \in Batons(q)
    BY Zenon, <1>1, <1>2
  <2>2. Batons(q)' \subseteq Threads /\ Batons(q) \subseteq Threads
    BY Zenon DEF Batons
  <2> QED
    BY <2>1, <2>2
<1> QED
  BY <1>3

\* A step of t that the abstract semaphore does not see in t's own call.
LEMMA QuietView ==
  ASSUME SemInv, NEW t \in Threads, ThreadStep(t) \/ ClientStep(t) \/ SchedStep(t),
         \A x \in Threads : x # t => call'[x] = call[x],
         Giving'[t] = Giving[t], pc[t] # "dead", pc'[t] # "dead"
  PROVE  Giving' = Giving /\ Gone' = Gone /\ t \notin Gone
<1>1. Giving' = [Giving EXCEPT ![t] = Giving'[t]] /\ \A x \in Threads : x # t => (x \in Gone' <=> x \in Gone)
  BY ViewStands
<1>2. Giving' = Giving
  BY Zenon, <1>1 DEF Giving
<1>3. t \notin Gone /\ t \notin Gone' /\ Gone \subseteq Threads /\ Gone' \subseteq Threads
  BY DEF Gone
<1> QED
  BY <1>1, <1>2, <1>3

\* The start of a call: V announces its token.
LEMMA RefineStart ==
  ASSUME SemInv, NEW t \in Threads, NEW q \in Queues, CallV(t, q) \/ \E d \in Timeouts : CallP(t, q, d)
  PROVE  [Promised!SNext]_(Promised!svars)
<1>1. SemTypeOK /\ TypeOK /\ None \notin Queues
  BY ConstantsAssumption DEF SemInv, IInv
<1>2. /\ call[t] = Idle /\ pc[t] = "run" /\ pc'[t] = "held" /\ counter' = counter /\ outcome' = outcome
      /\ UNCHANGED <<bq, timedOut>> /\ \A x \in Threads : x # t => call'[x] = call[x]
  BY Zenon, <1>1 DEF CallV, CallP, Acquire, Goto, info, TypeOK, Actors, SemTypeOK
<1>3. ClientStep(t)
  BY Zenon, ConstantsAssumption DEF CallV, CallP, ClientStep
<1>4. Tokens' = Tokens
  BY Zenon, <1>2, <1>3, QuietBatons, TokensStay
<1>5. Giving[t] = None /\ Gone' = Gone /\ t \notin Gone /\ Giving' = [Giving EXCEPT ![t] = Giving'[t]]
  BY Zenon, <1>2, <1>3, ViewStands DEF Giving, Gone, Idle
<1>6. CASE CallV(t, q)
  <2>1. call'[t] = [op |-> "V", q |-> q, timeout |-> 0]
    BY Zenon, <1>1, <1>6 DEF CallV, SemTypeOK
  <2>2. Giving'[t] = q
    BY <1>2, <2>1 DEF Giving
  <2> QED
    BY Zenon, <1>2, <1>4, <1>5, <2>2 DEF Promised!SNext, Promised!CallsV
<1>7. CASE \E d \in Timeouts : CallP(t, q, d)
  <2>1. call'[t].op = "P"
    BY <1>1, <1>7 DEF CallP, SemTypeOK
  <2>2. Giving'[t] = None
    BY Zenon, <2>1 DEF Giving
  <2>3. Giving' = Giving
    BY Zenon, <1>5, <2>2 DEF Giving
  <2> QED
    BY <1>2, <1>4, <1>5, <2>3 DEF Promised!svars
<1> QED
  BY <1>6, <1>7

\* P without a token: it waits, or returns false.
LEMMA RefineWait ==
  ASSUME SemInv, NEW t \in Threads, PWait(t) \/ PWaitTimed(t), ThreadStep(t) \/ ClientStep(t) \/ SchedStep(t)
  PROVE  [Promised!SNext]_(Promised!svars)
<1> DEFINE q == call[t].q
           Fails == Returns(t, FALSE) /\ pc'[t] = "run" /\ UNCHANGED <<bq, timedOut>>
           Waits == /\ UNCHANGED <<call, outcome>>
                    /\ \A x \in Threads : x # t => timedOut'[x] = timedOut[x]
                    /\ \/ pc'[t] = "spinTimeout" /\ UNCHANGED bq
                       \/ /\ pc'[t] = "suspended" /\ where'[t] = q
                          /\ bq' = [bq EXCEPT ![q] = Append(bq[q], t)]
<1>1. SemTypeOK /\ TypeOK /\ CallInv(t) /\ None \notin Queues
  BY ConstantsAssumption DEF SemInv, IInv
<1>2. /\ call[t].op = "P" /\ q \in Queues /\ counter' = counter /\ pc[t] \in {"held", "held2"}
      /\ PWaitTimed(t) => cur[t] = q
  BY Zenon, <1>1 DEF PWait, InP, PWaitTimed, TimedBlock, CallInv
<1>3. Fails \/ Waits
  <2>1. CASE PWait(t)
    <3>1. CASE call[t].timeout = 0 /\ Release(t, LockOf[q]) /\ Returns(t, FALSE)
      BY Zenon, <1>1, <3>1 DEF Release, Goto, info, TypeOK, Actors
    <3>2. CASE Block(t, q) /\ IF MayBlock(t) THEN UNCHANGED <<call, outcome>> ELSE Returns(t, FALSE)
      BY Zenon, <1>1, <1>2, <3>2 DEF Block, Suspend, Goto, info, TypeOK, Actors
    <3>3. CASE StartTimedBlock(t, q, call[t].timeout) /\ UNCHANGED <<call, outcome>>
      BY Zenon, <1>1, <3>3 DEF StartTimedBlock, Goto, TypeOK, Actors
    <3> QED
      BY Zenon, <2>1, <3>1, <3>2, <3>3 DEF PWait
  <2>2. CASE PWaitTimed(t)
    BY Zenon, <1>1, <1>2, <2>2 DEF PWaitTimed, TimedBlock, Suspend, Goto, info, TypeOK, Actors
  <2> QED
    BY Zenon, <2>1, <2>2
<1>4. \A x \in Threads : x # t => call'[x] = call[x]
  BY Zenon, <1>1, <1>3 DEF Returns, SemTypeOK
<1>5. pc'[t] \in {"run", "spinTimeout", "suspended"} /\ Gone' = Gone /\ t \notin Gone /\ Giving' = Giving
  <2>1. pc'[t] \in {"run", "spinTimeout", "suspended"} /\ Giving'[t] = None /\ Giving[t] = None
    BY Zenon, <1>1, <1>2, <1>3 DEF Returns, Giving, Idle, SemTypeOK
  <2> QED
    BY Zenon, <1>2, <1>4, <2>1, QuietView
<1>6. Tokens' = Tokens
  <2>1. /\ pc'[t] # "suspended" \/ t \in Range(bq'[where'[t]])
        /\ \A x \in Threads : x # t => timedOut'[x] = timedOut[x] /\ \A r \in Queues : x \in Range(bq'[r]) <=> x \in Range(bq[r])
    BY Zenon, <1>1, <1>2, <1>3, SuspendLinks
  <2>2. \A r \in Queues : Batons(r)' = Batons(r)
    BY Zenon, <1>2, <1>4, <1>5, <2>1, QuietBatons
  <2> QED
    BY Zenon, <1>2, <2>2, TokensStay
<1>7. CASE Fails
  BY Zenon, <1>5, <1>6, <1>7 DEF Returns, Promised!SNext, Promised!PFails
<1>8. CASE Waits
  BY Zenon, <1>5, <1>6, <1>8 DEF Promised!svars
<1> QED
  BY Zenon, <1>3, <1>7, <1>8

\* P with a token: it takes it from the counter.
LEMMA RefineTake ==
  ASSUME SemInv, NEW t \in Threads, PTake(t), ThreadStep(t) \/ ClientStep(t) \/ SchedStep(t)
  PROVE  [Promised!SNext]_(Promised!svars)
<1> DEFINE q == call[t].q
<1>1. SemTypeOK /\ TypeOK /\ CallInv(t)
  BY DEF SemInv, IInv
<1>2. /\ q \in Queues /\ call[t].op = "P" /\ counter[q] >= 1 /\ counter' = [counter EXCEPT ![q] = @ - 1]
      /\ pc[t] = "held" /\ pc'[t] = "run" /\ UNCHANGED <<bq, timedOut>> /\ Returns(t, TRUE)
  BY Zenon, <1>1 DEF PTake, InP, CallInv, Release, Goto, info, TypeOK, Actors
<1>3. call'[t] = Idle /\ \A x \in Threads : x # t => call'[x] = call[x]
  BY Zenon, <1>1, <1>2 DEF Returns, SemTypeOK
<1>4. Giving' = Giving /\ Gone' = Gone /\ t \notin Gone
  BY Zenon, <1>2, <1>3, QuietView DEF Giving, Idle
<1>5. Tokens' = [Tokens EXCEPT ![q] = Tokens[q] - 1] /\ Tokens[q] > 0
  BY Zenon, <1>1, <1>2, <1>3, QuietBatons, TokensCounted
<1> QED
  BY Zenon, <1>2, <1>4, <1>5 DEF Returns, Promised!SNext, Promised!PSucceeds, Promised!Take

\* P returns after it has waited: true with the token in hand, false after a
\* timeout; a cancelled thread finishes and takes the token with it.
LEMMA RefineReturn ==
  ASSUME SemInv, NEW t \in Threads, PReturn(t), ThreadStep(t) \/ ClientStep(t) \/ SchedStep(t)
  PROVE  [Promised!SNext]_(Promised!svars)
<1> DEFINE q == call[t].q
<1>1. SemTypeOK /\ TypeOK /\ IInv /\ CallInv(t)
  BY DEF SemInv, IInv
<1>2. /\ pc[t] = "ready" /\ call[t].op = "P" /\ q \in Queues /\ where[t] = q /\ counter' = counter /\ UNCHANGED bq
      /\ \A x \in Threads : x # t => timedOut'[x] = timedOut[x]
  BY Zenon, <1>1 DEF PReturn, Dispatch, CallInv, TypeOK
<1>3. \/ state[t] = "Cancelled" /\ pc'[t] = "dead" /\ call' = [call EXCEPT ![t] = Idle] /\ outcome' = outcome
      \/ state[t] # "Cancelled" /\ pc'[t] = "run" /\ Returns(t, ~timedOut[t])
  BY <1>1 DEF PReturn, Dispatch, Goto, TypeOK, Actors
<1>4. call'[t] = Idle /\ \A x \in Threads : x # t => call'[x] = call[x]
  BY Zenon, <1>1, <1>3 DEF Returns, SemTypeOK
<1>5. \A r \in Queues : \A x \in Threads : x # t => (x \in Batons(r)' <=> x \in Batons(r))
  BY Zenon, <1>2, <1>4, BatonStands
<1>6. /\ \A r \in Queues : t \notin Batons(r)' /\ (r # q => t \notin Batons(r))
      /\ t \in Batons(q) <=> ~timedOut[t]
  <2>1. ~OnQueue(q, t)
    BY Zenon, <1>1, <1>2, RunningIsFree DEF OnQueue
  <2>2. \A r \in Queues : t \notin Batons(r)'
    BY Zenon, <1>3 DEF Batons
  <2> QED
    BY Zenon, <1>2, <2>1, <2>2 DEF Batons
<1>7. \A r \in Queues : Batons(r)' = Batons(r) \ {t} /\ (r # q => Batons(r)' = Batons(r))
  <2>1. \A r \in Queues : Batons(r)' \subseteq Threads /\ Batons(r) \subseteq Threads
    BY Zenon DEF Batons
  <2> QED
    BY <1>5, <1>6, <2>1
<1>8. /\ timedOut[t] => Tokens' = Tokens
      /\ ~timedOut[t] => Tokens' = [Tokens EXCEPT ![q] = Tokens[q] - 1] /\ Tokens[q] > 0
  <2>1. CASE timedOut[t]
    <3>1. \A r \in Queues : Batons(r)' = Batons(r)
      BY Zenon, <1>6, <1>7, <2>1
    <3> QED
      BY Zenon, <1>2, <2>1, <3>1, TokensStay
  <2>2. CASE ~timedOut[t]
    BY Zenon, <1>1, <1>2, <1>6, <1>7, <2>2, TokensHanded
  <2> QED
    BY Zenon, <2>1, <2>2
<1>9. Giving'[t] = Giving[t]
  BY <1>2, <1>4 DEF Giving, Idle
<1>10. CASE pc'[t] = "run" /\ Returns(t, ~timedOut[t])
  <2>1. Giving' = Giving /\ Gone' = Gone /\ t \notin Gone
    BY Zenon, <1>2, <1>4, <1>9, <1>10, QuietView
  <2>2. CASE timedOut[t]
    BY Zenon, <1>8, <1>10, <2>1, <2>2 DEF Returns, Promised!SNext, Promised!PFails
  <2>3. CASE ~timedOut[t]
    BY Zenon, <1>2, <1>8, <1>10, <2>1, <2>3 DEF Returns, Promised!SNext, Promised!PSucceeds, Promised!Take
  <2> QED
    BY <2>2, <2>3
<1>11. CASE pc'[t] = "dead" /\ outcome' = outcome
  <2>1. Giving' = [Giving EXCEPT ![t] = Giving'[t]] /\ \A x \in Threads : x # t => (x \in Gone' <=> x \in Gone)
    BY Zenon, <1>4, ViewStands
  <2>2. Giving' = Giving
    BY Zenon, <1>9, <2>1 DEF Giving
  <2>3. t \notin Gone /\ Gone' = Gone \cup {t}
    <3>1. t \notin Gone /\ t \in Gone' /\ Gone \subseteq Threads /\ Gone' \subseteq Threads
      BY <1>2, <1>11 DEF Gone
    <3> QED
      BY <2>1, <3>1
  <2> QED
    BY Zenon, <1>2, <1>8, <1>11, <2>2, <2>3 DEF Promised!SNext, Promised!Finish, Promised!Take
<1> QED
  BY Zenon, <1>3, <1>10, <1>11

\* V that finds nobody counts its token; its other steps are not seen outside.
LEMMA RefineV ==
  ASSUME SemInv, NEW t \in Threads, VWalk(t) \/ VMiss(t) \/ VWake(t), ThreadStep(t) \/ ClientStep(t) \/ SchedStep(t)
  PROVE  [Promised!SNext]_(Promised!svars)
<1> DEFINE q == call[t].q
<1>1. SemTypeOK /\ TypeOK /\ IInv /\ CallInv(t) /\ None \notin Queues
  BY ConstantsAssumption DEF SemInv, IInv
<1>2. CASE VWalk(t)
  <2>1. /\ pc[t] = "held" /\ pc'[t] = "walk" /\ UNCHANGED <<bq, timedOut, counter, call, outcome>>
    BY Zenon, <1>1, <1>2 DEF VWalk, StartResume, Goto, info, semvars, TypeOK, Actors
  <2>2. Giving' = Giving /\ Gone' = Gone
    BY Zenon, <2>1, QuietView DEF Giving
  <2>3. Tokens' = Tokens
    BY Zenon, <2>1, QuietBatons, TokensStay
  <2> QED
    BY <2>1, <2>2, <2>3 DEF Promised!svars
<1>3. CASE VWake(t)
  <2>1. /\ victim[t] \in Threads /\ pc[victim[t]] = "suspended" /\ victim[t] # t
    BY Zenon, <1>1, <1>3, WonThread DEF VWake, Wake, Actors, WakePC, CancelPC
  <2>2. /\ pc[t] = "resume" /\ pc'[t] = "run" /\ UNCHANGED <<bq, timedOut, counter, outcome>>
        /\ call' = [call EXCEPT ![t] = Idle]
    BY Zenon, <1>1, <1>3, <2>1 DEF VWake, Wake, info, TypeOK, Actors
  <2>3. call'[t] = Idle /\ \A x \in Threads : x # t => call'[x] = call[x]
    BY Zenon, <1>1, <2>2 DEF SemTypeOK
  <2>4. Giving' = Giving /\ Gone' = Gone
    BY Zenon, <2>2, <2>3, QuietView DEF Giving, Idle
  <2>5. Tokens' = Tokens
    BY Zenon, <2>2, <2>3, QuietBatons, TokensStay
  <2> QED
    BY Zenon, <2>2, <2>4, <2>5 DEF Promised!svars
<1>4. CASE VMiss(t)
  <2>1. /\ q \in Queues /\ call[t].op = "V" /\ pc[t] = "missed" /\ pc'[t] = "run" /\ UNCHANGED <<bq, timedOut, outcome>>
        /\ call' = [call EXCEPT ![t] = Idle] /\ counter' = [counter EXCEPT ![q] = @ + 1]
    BY Zenon, <1>1, <1>4 DEF VMiss, InV, Release, Goto, info, CallInv, TypeOK, Actors
  <2>2. call'[t] = Idle /\ \A x \in Threads : x # t => call'[x] = call[x]
    BY Zenon, <1>1, <2>1 DEF SemTypeOK
  <2>3. Giving[t] = q /\ Giving'[t] = None
    BY Zenon, <2>1, <2>2 DEF Giving, Idle
  <2>4. Giving' = [Giving EXCEPT ![t] = None] /\ Gone' = Gone
    BY Zenon, <2>1, <2>2, <2>3, ViewStands DEF Gone
  <2>5. Tokens' = [Tokens EXCEPT ![q] = Tokens[q] + 1]
    BY Zenon, <1>1, <2>1, <2>2, QuietBatons, TokensCounted
  <2> QED
    BY Zenon, <2>1, <2>3, <2>4, <2>5 DEF Promised!SNext, Promised!V
<1> QED
  BY <1>2, <1>3, <1>4

\* cancelBlocking takes a thread off its queue and says that it timed out: no
\* token changes hands, whoever does it.
LEMMA CancelledHasNoBaton ==
  ASSUME SemInv, SemInv', NEW a \in Actors, CancelBlocking(a), UNCHANGED semvars
  PROVE  \A r \in Queues : Batons(r)' = Batons(r)
<1> DEFINE w == victim[a]  q == where[w]
<1>1. TypeOK /\ IInv /\ pc[a] = "xCancelBlocking" /\ pc' = [pc EXCEPT ![a] = "xResume"]
  BY Zenon DEF SemInv, IInv, CancelBlocking, Goto
<1>2. w \in Threads /\ pc[w] = "suspended" /\ w # a
  BY <1>1, WonThread DEF WakePC, CancelPC
<1>3. q \in Queues /\ w \in Range(bq[q]) /\ IsInjective(bq[q]) /\ bq[q] \in Seq(Threads)
  <2>1. ClaimInv /\ NoStaleLinks /\ where \in [Threads -> Queues \cup {None}] /\ bq \in [Queues -> Seq(Threads)]
    BY Zenon, <1>1 DEF IInv, Core, TypeOK
  <2>2. where[w] # None /\ StillQueued(w)
    BY Zenon, <1>1, <2>1 DEF ClaimInv
  <2>3. q \in Queues
    BY Zenon, <1>2, <2>1, <2>2
  <2>4. w \in Range(bq[q])
    BY Zenon, <2>2 DEF StillQueued, OnQueue
  <2> QED
    BY Zenon, <2>1, <2>3, <2>4 DEF NoStaleLinks
<1>4. /\ bq' = [bq EXCEPT ![q] = Unlink(bq[q], w)] /\ timedOut' = [timedOut EXCEPT ![w] = TRUE]
      /\ where' = where /\ call' = call
  BY Zenon DEF CancelBlocking, semvars
<1>5. Range(bq'[q]) = Range(bq[q]) \ {w} /\ \A r \in Queues : r # q => bq'[r] = bq[r]
  BY <1>1, <1>3, <1>4, RemoveElement DEF TypeOK
<1>6. ASSUME NEW r \in Queues, NEW x \in Threads, x # w PROVE x \in Batons(r)' <=> x \in Batons(r)
  <2>1. (x \in Range(bq'[r]) <=> x \in Range(bq[r])) /\ timedOut'[x] = timedOut[x]
    BY Zenon, <1>1, <1>4, <1>5, <1>6 DEF TypeOK
  <2>2. pc'[x] \in {"suspended", "ready"} <=> pc[x] \in {"suspended", "ready"}
    BY <1>1 DEF TypeOK, Actors
  <2> QED
    BY Zenon, <1>4, <2>1, <2>2 DEF Batons, OnQueue
<1>7. ASSUME NEW r \in Queues PROVE w \notin Batons(r)' /\ w \notin Batons(r)
  BY Zenon, <1>1, <1>2, <1>3, <1>4 DEF Batons, OnQueue, TypeOK
<1>8. ASSUME NEW r \in Queues PROVE Batons(r)' = Batons(r)
  <2>1. Batons(r)' \subseteq Threads /\ Batons(r) \subseteq Threads
    BY Zenon DEF Batons
  <2> QED
    BY <1>6, <1>7, <2>1
<1> QED
  BY Zenon, <1>8

\* Baton passing: the walk that wins a waiter hands it the token.
LEMMA RefineUnblock ==
  ASSUME SemInv, FreshWait, NEW t \in Threads, TryUnblock(t), UNCHANGED semvars
  PROVE  [Promised!SNext]_(Promised!svars)
<1>1. SemTypeOK /\ TypeOK /\ IInv /\ CallInv(t) /\ None \notin Queues /\ ThreadStep(t)
  BY Zenon, ConstantsAssumption DEF SemInv, IInv, ThreadStep
<1>2. PICK q \in Queues : q = call[t].q /\ cur[t] = q /\ call[t].op = "V"
  BY Zenon, <1>1 DEF TryUnblock, CallInv
<1>3. PICK w \in Threads : w = bq[q][idx[t]] /\ w \in Range(bq[q])
  <2>1. bq[q] \in Seq(Threads) /\ idx[t] \in Nat /\ idx[t] >= 1 /\ idx[t] <= Len(bq[q])
    BY Zenon, <1>1, <1>2 DEF TryUnblock, TypeOK
  <2>2. idx[t] \in DOMAIN bq[q]
    BY <2>1
  <2> QED
    BY <2>1, <2>2 DEF Range
<1>4. pc[t] = "walk" /\ timedOut' = timedOut /\ where' = where /\ counter' = counter /\ call' = call /\ outcome' = outcome
  BY Zenon DEF TryUnblock, info, semvars
<1>5. CASE UNCHANGED <<pc, bq>>
  BY Zenon, <1>4, <1>5 DEF Promised!svars, Tokens, Giving, Gone, Batons, OnQueue
<1>6. CASE /\ state[w] = "Blocked" /\ bq' = [bq EXCEPT ![q] = Unlink(bq[q], w)]
           /\ pc'[t] \in {"cancelTimeout", "resume"} /\ \A x \in Threads : x # t => pc'[x] = pc[x]
  <2>1. IsInjective(bq[q]) /\ bq[q] \in Seq(Threads) /\ pc[w] = "suspended" /\ where[w] = q
    BY Zenon, <1>1, <1>3 DEF IInv, Core, NoStaleLinks, TypeOK
  <2>2. ~timedOut[w] /\ call[w].op = "P" /\ w # t
    BY Zenon, <1>4, <1>6, <2>1 DEF FreshWait, SemInv, CallInv
  <2>3. Range(bq'[q]) = Range(bq[q]) \ {w} /\ \A r \in Queues : r # q => bq'[r] = bq[r]
    BY SMTT(30), <1>1, <1>3, <1>6, <2>1, RemoveElement DEF TypeOK
  <2>4. ASSUME NEW r \in Queues, NEW x \in Threads, x # w PROVE x \in Batons(r)' <=> x \in Batons(r)
    <3>1. CASE x = t
      BY Zenon, <1>4, <1>6, <3>1 DEF Batons
    <3>2. CASE x # t
      <4>1. (x \in Range(bq'[r]) <=> x \in Range(bq[r])) /\ pc'[x] = pc[x]
        BY Zenon, <1>6, <2>3, <2>4, <3>2
      <4> QED
        BY Zenon, <1>4, <4>1 DEF Batons, OnQueue
    <3> QED
      BY Zenon, <3>1, <3>2
  <2>5. ASSUME NEW r \in Queues PROVE w \notin Batons(r) /\ (w \in Batons(r)' <=> r = q)
    <3>1. pc'[w] = "suspended"
      BY Zenon, <1>6, <2>1, <2>2
    <3> QED
      BY Zenon, <1>3, <1>4, <2>1, <2>2, <2>3, <3>1 DEF Batons, OnQueue
  <2>6. ASSUME NEW r \in Queues PROVE Batons(r)' = IF r = q THEN Batons(r) \cup {w} ELSE Batons(r)
    <3>1. Batons(r)' \subseteq Threads /\ Batons(r) \subseteq Threads
      BY Zenon DEF Batons
    <3> QED
      BY <2>4, <2>5, <3>1
  <2>7. Tokens' = [Tokens EXCEPT ![q] = Tokens[q] + 1]
    BY <1>1, <1>4, <2>5, <2>6, TokensHanded
  <2>8. Giving[t] = q /\ Giving'[t] = None
    BY Zenon, <1>2, <1>4, <1>6 DEF Giving
  <2>9. Gone' = Gone
    BY <1>4, <1>6 DEF Gone
  <2>10. Giving' = [Giving EXCEPT ![t] = None]
    BY Zenon, <1>1, <1>4, <2>8, ViewStands
  <2> QED
    BY Zenon, <1>4, <2>7, <2>8, <2>9, <2>10 DEF Promised!SNext, Promised!V
<1>7. \/ UNCHANGED <<pc, bq>>
      \/ /\ state[w] = "Blocked" /\ bq' = [bq EXCEPT ![q] = Unlink(bq[q], w)]
         /\ pc' = [pc EXCEPT ![t] = IF timed[w] THEN "cancelTimeout" ELSE "resume"]
  BY Zenon, <1>2, <1>3 DEF TryUnblock, Goto
<1> QED
  BY <1>1, <1>5, <1>6, <1>7 DEF TypeOK, Actors

\* The other steps of the machinery are not seen outside.
LEMMA RefineInside ==
  ASSUME SemInv, SemInv', FreshWait, NEW t \in Threads, Inside(t), UNCHANGED semvars
  PROVE  [Promised!SNext]_(Promised!svars)
<1>1. SemTypeOK /\ TypeOK /\ IInv /\ CallInv(t) /\ counter' = counter /\ call' = call /\ outcome' = outcome
  BY Zenon DEF SemInv, IInv, semvars
<1>2. ThreadStep(t)
  BY Zenon DEF Inside, ThreadStep
<1>3. ASSUME UNCHANGED <<bq, timedOut>>, pc[t] \notin {"suspended", "ready", "dead"},
             pc'[t] \notin {"suspended", "ready", "dead"}, Giving'[t] = Giving[t]
      PROVE  [Promised!SNext]_(Promised!svars)
  <2>1. Giving' = Giving /\ Gone' = Gone
    BY Zenon, <1>1, <1>2, <1>3, QuietView
  <2>2. Tokens' = Tokens
    BY Zenon, <1>1, <1>2, <1>3, QuietBatons, TokensStay
  <2> QED
    BY <1>1, <2>1, <2>2 DEF Promised!svars
<1>4. CASE TryUnblock(t)
  BY Zenon, <1>4, RefineUnblock
<1>5. CASE CancelBlocking(t)
  <2>1. pc[t] = "xCancelBlocking" /\ pc'[t] = "xResume"
    BY Zenon, <1>1, <1>5 DEF CancelBlocking, Goto, TypeOK, Actors
  <2>2. Giving' = Giving /\ Gone' = Gone
    BY Zenon, <1>1, <1>2, <2>1, QuietView DEF Giving
  <2>3. Tokens' = Tokens
    BY Zenon, <1>1, <1>5, CancelledHasNoBaton, TokensStay DEF Actors
  <2> QED
    BY <1>1, <2>2, <2>3 DEF Promised!svars
<1>6. CASE AcquireTimeoutLock(t) \/ ResumeMisses(t)
  BY Zenon, <1>1, <1>3, <1>6 DEF AcquireTimeoutLock, ResumeMisses, Goto, info, Giving, TypeOK, Actors
<1>7. CASE CancelTimeout(t, "cancelTimeout", "resume") \/ CancelTimeout(t, "xCancelTimeout", AfterTimeout(victim[t]))
  BY Zenon, <1>1, <1>3, <1>7 DEF CancelTimeout, AfterTimeout, Goto, info, Giving, TypeOK, Actors
<1>8. CASE Wake(t, "xResume", "held")
  <2>1. victim[t] \in Threads /\ victim[t] # t
    BY Zenon, <1>1, <1>8, WonThread DEF Wake, Actors, WakePC, CancelPC
  <2>2. UNCHANGED <<bq, timedOut>> /\ pc[t] = "xResume" /\ pc'[t] = "held"
    BY Zenon, <1>1, <1>8, <2>1 DEF Wake, info, TypeOK, Actors
  <2>3. call[t].op = "none"
    BY Zenon, <1>1, <2>2 DEF SemInv, CallInv
  <2> QED
    BY Zenon, <1>1, <1>3, <2>2, <2>3 DEF Giving
<1> QED
  BY <1>4, <1>5, <1>6, <1>7, <1>8 DEF Inside

\* A thread that finishes outside P and V takes no token with it; what a
\* canceller does is not seen at all.
LEMMA RefineOutside ==
  ASSUME SemInv, NEW t \in Threads,
         Finishes(t) \/ (call[t] = Idle /\ ExitStep(t) /\ UNCHANGED semvars)
  PROVE  [Promised!SNext]_(Promised!svars)
<1>1. SemTypeOK /\ TypeOK /\ (ClientStep(t) \/ SchedStep(t))
  BY OutsideIsClient DEF SemInv, IInv
<1>2. /\ counter' = counter /\ outcome' = outcome /\ call' = [call EXCEPT ![t] = Idle]
      /\ UNCHANGED <<bq, timedOut>>
  BY Zenon, <1>1 DEF Finishes, FinishCancelled, Terminate, ExitStep, Acquire, Cancel, Release, info, semvars, SemTypeOK
<1>3. call'[t] = Idle /\ \A x \in Threads : x # t => call'[x] = call[x]
  BY <1>1, <1>2 DEF SemTypeOK
<1>4. /\ pc[t] \notin {"suspended", "ready", "dead"}
      /\ Finishes(t) => pc'[t] = "dead" /\ (call[t] = Idle \/ pc[t] \in Preemptible)
      /\ ExitStep(t) => pc'[t] \in {"run", "held", "xCancelTimeout", "xCancelBlocking", "xResume"}
  BY Zenon, <1>1 DEF Finishes, FinishCancelled, Terminate, ExitStep, Acquire, Cancel, Release, AfterTimeout,
     Goto, Preemptible, TypeOK, Actors
<1>5. Tokens' = Tokens
  BY Zenon, <1>1, <1>2, <1>3, <1>4, QuietBatons, TokensStay
<1>6. Giving[t] = None /\ Giving'[t] = None
  <2>1. Idle.op # "V"
    BY DEF Idle
  <2>2. call'[t].op # "V"
    BY Zenon, <1>3, <2>1
  <2>3. call[t].op # "V" \/ pc[t] \notin {"held", "walk", "missed"}
    BY Zenon, <1>4, <2>1 DEF Preemptible
  <2> QED
    BY Zenon, <2>2, <2>3 DEF Giving
<1>7. CASE Finishes(t)
  <2>1. Giving' = [Giving EXCEPT ![t] = Giving'[t]] /\ \A x \in Threads : x # t => (x \in Gone' <=> x \in Gone)
    BY Zenon, <1>1, <1>3, ViewStands
  <2>2. Giving' = Giving
    BY Zenon, <1>6, <2>1 DEF Giving
  <2>3. t \notin Gone /\ t \in Gone' /\ Gone \subseteq Threads /\ Gone' \subseteq Threads
    BY Zenon, <1>4, <1>7 DEF Gone
  <2>4. Gone' = Gone \cup {t}
    BY <2>1, <2>3
  <2> QED
    BY Zenon, <1>2, <1>5, <2>2, <2>3, <2>4 DEF Promised!SNext, Promised!Finish
<1>8. CASE ExitStep(t)
  <2>1. Giving' = Giving /\ Gone' = Gone
    BY Zenon, <1>1, <1>3, <1>4, <1>6, <1>8, QuietView
  <2> QED
    BY <1>2, <1>5, <2>1 DEF Promised!svars
<1> QED
  BY <1>7, <1>8

\* The timer moves no token: whom it wakes gets none.
LEMMA RefineTimer ==
  ASSUME SemInv, SemInv', Tick \/ TimerStep, UNCHANGED semvars
  PROVE  [Promised!SNext]_(Promised!svars)
<1>1. TypeOK /\ IInv /\ counter' = counter /\ call' = call /\ outcome' = outcome
  BY DEF SemInv, IInv, semvars
<1>2. \A x \in Threads : /\ pc'[x] = pc[x] \/ (pc[x] = "suspended" /\ pc'[x] = "ready")
                        /\ where'[x] = where[x]
  BY <1>1, TimerBystander
<1>3. Giving' = Giving /\ Gone' = Gone
  BY <1>1, <1>2 DEF Giving, Gone
<1>4. \A r \in Queues : Batons(r)' = Batons(r)
  <2>1. CASE CancelBlocking(Timer)
    BY <2>1, CancelledHasNoBaton DEF Actors
  <2>2. CASE UNCHANGED <<bq, timedOut>>
    BY <1>1, <1>2, <2>2 DEF Batons, OnQueue
  <2>3. CancelBlocking(Timer) \/ UNCHANGED <<bq, timedOut>>
    BY Zenon DEF Tick, TimerStep, ExpiryStart, ExpiryVisit, ExpiryFire, ExpiryUnlock, ExpiryDone, Wake, info
  <2> QED
    BY <2>1, <2>2, <2>3
<1>5. Tokens' = Tokens
  BY <1>1, <1>4, TokensStay
<1> QED
  BY Zenon, <1>1, <1>3, <1>5 DEF Promised!svars

\* Every step of the semaphore is a step of the abstract one, or not seen by it.
LEMMA RefineStep ==
  ASSUME SemInv, SemInv', FreshWait, [SemNext]_vars
  PROVE  [Promised!SNext]_(Promised!svars)
<1>1. ASSUME NEW t \in Threads, Working(t) PROVE [Promised!SNext]_(Promised!svars)
  <2>1. ThreadStep(t) \/ ClientStep(t) \/ SchedStep(t)
    BY Zenon, <1>1, WorkingIsClient
  <2> QED
    BY Zenon, <1>1, <2>1, RefineTake, RefineWait, RefineReturn, RefineV, RefineInside DEF Working
<1>2. CASE UNCHANGED vars
  BY Zenon, <1>2 DEF vars, bsvars, semvars, Promised!svars, Tokens, Giving, Gone, Batons, OnQueue
<1> QED
  BY <1>1, <1>2, RefineStart, RefineOutside, RefineTimer DEF SemNext

\* P and V of class Semaphore implement the abstract semaphore: no token is lost,
\* duplicated or given to two threads, and P returns true exactly when it took
\* one, for any number of threads, semaphores and tokens.
THEOREM SemaphoreImplements == SemSpec => ImplementsSemaphore
<1>1. SemInit => Promised!SInit /\ FreshWait
  <2> SUFFICES ASSUME SemInit PROVE Promised!SInit /\ FreshWait
    OBVIOUS
  <2>1. \A q \in Queues : Batons(q) = {}
    BY DEF SemInit, BSInit, Batons, Actors
  <2>2. Tokens = [q \in Queues |-> InitCount]
    BY <2>1, FS_EmptySet, SemaphoreAssumption DEF SemInit, Tokens
  <2>3. Giving = [t \in Threads |-> None] /\ Gone = {} /\ FreshWait
    BY Zenon DEF SemInit, BSInit, Giving, Gone, Idle, FreshWait, Actors
  <2> QED
    BY Zenon, <2>2, <2>3 DEF SemInit, Promised!SInit
<1>2. SemInv /\ FreshWait /\ [SemNext]_vars => FreshWait'
  BY SemaphoreIsClient, FreshWaitStep DEF SemInv
<1>3. SemInv /\ SemInv' /\ FreshWait /\ [SemNext]_vars => [Promised!SNext]_(Promised!svars)
  BY RefineStep
<1> QED
  BY <1>1, <1>2, <1>3, SemInvariance, PTL DEF SemSpec, ImplementsSemaphore, Promised!SSpec
=============================================================================
