------------------------- MODULE MessageQueueProofs -------------------------
(***************************************************************************)
(* Slots are conserved and the message queue is a bounded first-in         *)
(* first-out channel, for any number of threads and any capacity.          *)
(*                                                                         *)
(* SlotsConserved is not inductive: that a slot is passed on or counted    *)
(* once depends on where every thread is in send() or recv(), on the walk  *)
(* having seen the waiters it has passed, and on a thread that is about to *)
(* block having seen no slot.  MQInv adds this.                            *)
(***************************************************************************)
EXTENDS MessageQueue, BlockingSyncProofs, FiniteSetTheorems

\* Sequences of the same messages in the same order are the same.
LEMMA SeqSame ==
  ASSUME NEW T, NEW p \in Seq(T), NEW q \in Seq(T), Len(p) = Len(q), \A k \in 1..Len(p) : p[k] = q[k]
  PROVE  p = q
OBVIOUS

Rings == [next : 0..Size - 1, count : 0..Size, array : [0..Size - 1 -> Messages \cup {Blank}]]
Calls == [op : Ops \cup {"none"}, elem : Messages \cup {Blank}, timeout : Timeouts, granted : BOOLEAN]

MQTypeOK ==
  /\ ring \in Rings
  /\ slots \in [Ops -> Nat]
  /\ call \in [Threads -> Calls]
  /\ got \in [Threads -> Messages \cup {Blank}]

\* Where a thread is tells which call it is in and whether it has been passed a
\* slot; a thread about to block has seen no slot, and the waiters a walk has
\* passed had been won by others.
CallInv(t) ==
  LET op == call[t].op
      other == QueueOf(Other(op))
  IN
  /\ pc[t] \in {"suspended", "ready"} => op \in Ops /\ where[t] = QueueOf(op) /\ ~call[t].granted
  /\ pc[t] \in {"spinTimeout", "held2"} =>
       op \in Ops /\ cur[t] = QueueOf(op) /\ ~call[t].granted /\ slots[op] = 0
  /\ pc[t] = "walk" =>
       /\ op \in Ops /\ cur[t] = other
       /\ \A j \in 1..Len(bq[other]) : j < idx[t] => state[bq[other][j]] # "Blocked"
  /\ pc[t] = "missed" =>
       /\ op \in Ops /\ lock[MQLock] = t
       /\ \A j \in 1..Len(bq[other]) : state[bq[other][j]] # "Blocked"
  /\ pc[t] \in CancelPC => op = "none"
  /\ pc[t] = "run" /\ op \in Ops => call[t].granted
  /\ op = "none" => ~call[t].granted
  /\ op = "send" /\ pc[t] \notin {"walk", "missed", "cancelTimeout", "resume", "dead"} => call[t].elem \in Messages

MQCalls == (\A t \in Threads : CallInv(t)) /\ SlotsConserved

MQInv == IInv /\ LockInv /\ FreshWait /\ MQTypeOK /\ MQCalls

\* The facts about functions that the steps below update.
LEMMA Shapes ==
  ASSUME MQInv
  PROVE  /\ IInv /\ LockInv /\ pc \in [Actors -> ThreadPC \cup TimerPC] /\ Threads \subseteq Actors
         /\ cur \in [Threads -> Queues \cup {None}] /\ idx \in [Threads -> Nat]
         /\ where \in [Threads -> Queues \cup {None}] /\ bq \in [Queues -> Seq(Threads)]
         /\ state \in [Threads -> ThreadState] /\ timedOut \in [Threads -> BOOLEAN]
         /\ DOMAIN call = Threads /\ slots \in [Ops -> Nat] /\ ring \in Rings
BY DEF MQInv, MQTypeOK, IInv, TypeOK, Actors

\* The two queues have one lock.
LEMMA TwoQueues ==
  /\ Ops = {"send", "recv"} /\ \A op \in Ops : QueueOf(op) \in Queues /\ Other(op) \in Ops /\ Other(Other(op)) = op
  /\ QueueOf("send") # QueueOf("recv")
  /\ \A q \in Queues : LockOf[q] = MQLock /\ MQLock \in Locks
BY MQAssumption, ConstantsAssumption DEF Ops, QueueOf, Other

\* What a thread does inside send() and recv() are steps the blocking machinery
\* offers its clients.
LEMMA WorkingIsClient ==
  ASSUME MQInv, NEW t \in Threads, Working(t)
  PROVE  ThreadStep(t) \/ ClientStep(t) \/ SchedStep(t)
<1>1. InCall(t) => /\ QueueOf(call[t].op) \in Queues /\ QueueOf(Other(call[t].op)) \in Queues
                   /\ call[t].timeout \in Timeouts
  BY TwoQueues DEF InCall, MQInv, MQTypeOK, Calls
<1>2. ASSUME Wait(t) PROVE CriticalSection(t)
  <2>1. MQLock \in Locks /\ (call[t].timeout \notin {0, None} => call[t].timeout \in 1..MaxTime)
    BY <1>1, <1>2, TwoQueues DEF Wait, Timeouts
  <2> QED
    BY Zenon, <1>1, <1>2, <2>1 DEF Wait, CriticalSection
<1>3. ASSUME Transfer(t) \/ Miss(t) PROVE CriticalSection(t)
  BY Zenon, <1>1, <1>3, TwoQueues DEF Transfer, TakeSlot, Miss, CriticalSection
<1>4. ASSUME WaitTimed(t) \/ Return(t) \/ WakeOther(t) \/ Inside(t) PROVE ThreadStep(t) \/ SchedStep(t)
  BY Zenon, <1>4 DEF WaitTimed, Return, WakeOther, Inside, ThreadStep, SchedStep
<1> QED
  BY Zenon, <1>2, <1>3, <1>4 DEF Working, ClientStep

\* So are the steps that enter and those outside.
LEMMA OutsideIsClient ==
  ASSUME NEW t \in Threads,
         \/ \E op \in Ops, m \in Messages \cup {Blank}, d \in Timeouts : Call(t, op, m, d)
         \/ Relock(t) \/ Finishes(t) \/ ExitStep(t)
  PROVE  ClientStep(t) \/ SchedStep(t)
<1>1. ThreadLock \in Locks /\ MQLock \in Locks
  BY ConstantsAssumption, MQAssumption
<1> QED
  BY Zenon, <1>1 DEF Call, Relock, Finishes, ExitStep, ClientStep, CriticalSection, SchedStep

\* send() and recv() take no step that the blocking machinery does not offer.
LEMMA MQIsClient ==
  ASSUME MQInv, [MQNext]_vars
  PROVE  [BSNext]_bsvars
<1>1. ASSUME MQNext PROVE BSNext
  BY Zenon, <1>1, TwoQueues, WorkingIsClient, OutsideIsClient DEF MQNext, BSNext
<1> QED
  BY <1>1 DEF vars

-----------------------------------------------------------------------------
\* What a thread knows in send() or recv() stays true while others take steps,
\* if they count slots only with the lock held.
LEMMA CallStands ==
  ASSUME MQInv, [BSNext]_bsvars, NEW x \in Threads,
         UNCHANGED <<call[x], cur[x], idx[x], where[x]>>,
         pc'[x] = pc[x] \/ (pc[x] = "suspended" /\ pc'[x] = "ready"),
         slots' # slots => lock[MQLock] # x
  PROVE  CallInv(x)'
<1>1. IInv /\ LockInv /\ CallInv(x) /\ bq \in [Queues -> Seq(Threads)]
  BY Shapes DEF MQInv, MQCalls
<1>2. CASE pc[x] \in {"walk", "missed"}
  <2>1. PICK q \in Queues : q = QueueOf(Other(call[x].op)) /\ lock[LockOf[q]] = x /\ MQLock = LockOf[q]
    <3>1. call[x].op \in Ops /\ (pc[x] = "walk" => cur[x] = QueueOf(Other(call[x].op)))
      BY Zenon, <1>1, <1>2 DEF CallInv
    <3>2. pc[x] = "missed" => lock[MQLock] = x
      BY Zenon, <1>1 DEF CallInv
    <3> QED
      BY <1>1, <1>2, <3>1, <3>2, TwoQueues DEF LockInv
  <2>2. pc'[x] = pc[x] /\ bq'[q] = bq[q] /\ lock'[LockOf[q]] = x
    BY Zenon, <1>1, <1>2, <2>1, HolderDecides, LockKept, TwoQueues
  <2>3. ASSUME NEW j \in 1..Len(bq[q]) PROVE bq[q][j] \in Threads /\ pc[bq[q][j]] = "suspended"
    <3>1. bq[q][j] \in Range(bq[q]) /\ bq[q][j] \in Threads
      BY <1>1, <2>1, <2>3 DEF Range
    <3> QED
      BY <1>1, <2>1, <3>1 DEF IInv, Core, NoStaleLinks
  <2>4. \A j \in 1..Len(bq[q]) : state[bq[q][j]] # "Blocked" => state'[bq[q][j]] # "Blocked"
    BY <1>1, <2>3, BlockedOnce
  <2> QED
    BY Zenon, <1>1, <1>2, <2>1, <2>2, <2>4 DEF CallInv
<1>3. CASE pc[x] \in {"spinTimeout", "held2"}
  <2>1. lock[MQLock] = x
    BY <1>1, <1>3, TwoQueues DEF CallInv, LockInv
  <2> QED
    BY Zenon, <1>1, <1>3, <2>1 DEF CallInv
<1>4. CASE pc[x] \notin {"walk", "missed", "spinTimeout", "held2"}
  <2>1. pc'[x] \notin {"walk", "missed", "spinTimeout", "held2"}
    BY <1>4
  <2>2. /\ pc'[x] \in {"suspended", "ready"} => pc[x] \in {"suspended", "ready"}
        /\ pc'[x] \in CancelPC => pc[x] \in CancelPC
        /\ pc'[x] = "run" => pc[x] = "run"
        /\ pc[x] \in {"walk", "missed", "cancelTimeout", "resume", "dead"}
             => pc'[x] \in {"walk", "missed", "cancelTimeout", "resume", "dead"}
    BY <1>4 DEF CancelPC
  <2> QED
    BY Zenon, <1>1, <2>1, <2>2 DEF CallInv
<1> QED
  BY <1>2, <1>3, <1>4

\* A step of thread t leaves the calls of the others as they were.
LEMMA OthersStand ==
  ASSUME MQInv, NEW t \in Threads, ThreadStep(t) \/ ClientStep(t) \/ SchedStep(t),
         \A x \in Threads : x # t => call'[x] = call[x], slots' # slots => lock[MQLock] = t,
         CallInv(t)'
  PROVE  \A x \in Threads : CallInv(x)'
<1> SUFFICES ASSUME NEW x \in Threads, x # t PROVE CallInv(x)'
  OBVIOUS
<1>1. IInv /\ BSNext
  BY DEF BSNext, MQInv
<1>2. /\ pc'[x] = pc[x] \/ (pc[x] = "suspended" /\ pc'[x] = "ready")
      /\ UNCHANGED <<call[x], cur[x], idx[x], where[x]>>
  BY <1>1, Bystander
<1> QED
  BY <1>1, <1>2, CallStands

\* A thread that has left its call is bound by nothing.
LEMMA CallOver ==
  ASSUME NEW t \in Threads, call'[t] = Idle, pc'[t] \in {"run", "dead"}
  PROVE  CallInv(t)'
<1>1. call'[t].op = "none" /\ ~call'[t].granted /\ "none" \notin Ops /\ "none" # "send"
  BY DEF Idle, Ops
<1>2. pc'[t] \notin {"suspended", "ready", "spinTimeout", "held2", "walk", "missed"} \cup CancelPC
  BY DEF CancelPC
<1> QED
  BY Zenon, <1>1, <1>2 DEF CallInv

-----------------------------------------------------------------------------
(* Accounting. *)

Bit(b) == IF b THEN 1 ELSE 0

\* A slot that is owed becomes a slot that is granted.
LEMMA Passed ==
  ASSUME NEW s \in Nat, NEW G \in Nat, NEW G1 \in Nat, NEW O \in Nat, NEW O1 \in Nat, G1 = G + 1, O1 + 1 = O
  PROVE  s + G + O = s + G1 + O1
OBVIOUS

\* Two sets of threads that differ at most in t.
LEMMA Toggle ==
  ASSUME NEW S \in SUBSET Threads, NEW T \in SUBSET Threads, NEW t \in Threads,
         \A x \in Threads : x # t => (x \in T <=> x \in S)
  PROVE  /\ Cardinality(S) \in Nat /\ Cardinality(T) \in Nat
         /\ Cardinality(T) + Bit(t \in S) = Cardinality(S) + Bit(t \in T)
<1>1. IsFiniteSet(S) /\ IsFiniteSet(T) /\ Cardinality(S) \in Nat /\ Cardinality(T) \in Nat
  BY MQAssumption, FS_Subset, FS_CardinalityType
<1>2. CASE (t \in S) <=> (t \in T)
  <2>1. S = T
    BY <1>2
  <2> QED
    BY <1>1, <2>1 DEF Bit
<1>3. CASE t \in S /\ t \notin T
  <2>1. T = S \ {t}
    BY <1>3
  <2>2. Cardinality(T) = Cardinality(S) - 1
    BY <1>1, <1>3, <2>1, FS_RemoveElement
  <2> QED
    BY <1>1, <1>3, <2>2 DEF Bit
<1>4. CASE t \notin S /\ t \in T
  <2>1. T = S \cup {t}
    BY <1>4
  <2>2. Cardinality(T) = Cardinality(S) + 1
    BY <1>1, <1>4, <2>1, FS_AddElement
  <2> QED
    BY <1>1, <1>4, <2>2 DEF Bit
<1> QED
  BY <1>2, <1>3, <1>4

\* What another thread has been passed, or owes, is not touched by a step of t,
\* unless t wins it.
LEMMA SlotStands ==
  ASSUME MQInv, NEW t \in Threads, ThreadStep(t) \/ ClientStep(t) \/ SchedStep(t),
         NEW x \in Threads, x # t, call'[x] = call[x], NEW op \in Ops
  PROVE  /\ x \in Owing(op)' <=> x \in Owing(op)
         /\ \/ x \in Granted(op)' <=> x \in Granted(op)
            \/ TryUnblock(t) /\ cur[t] = QueueOf(op) /\ x = bq[QueueOf(op)][idx[t]] /\ state[x] = "Blocked"
<1>1. /\ pc'[x] = pc[x] \/ (pc[x] = "suspended" /\ pc'[x] = "ready")
      /\ where'[x] = where[x]
  BY Zenon, Shapes, Bystander
<1>2. PICK q \in Queues : q = QueueOf(op)
  BY TwoQueues
<1>3. pc[x] \in {"suspended", "ready"} /\ call[x].op = op => where[x] = q
  BY <1>2 DEF MQInv, MQCalls, CallInv
<1>4. /\ Heir(x, q)' => \/ Heir(x, q)
                        \/ TryUnblock(t) /\ cur[t] = q /\ x = bq[q][idx[t]] /\ state[x] = "Blocked"
      /\ Heir(x, q) => Heir(x, q)'
  BY Shapes, HeirStep
<1>5. pc'[x] \in {"run", "held", "walk", "missed"} \/ pc[x] \in {"run", "held", "walk", "missed"} => pc'[x] = pc[x]
  BY <1>1
<1>6. pc'[x] \in {"suspended", "ready"} <=> pc[x] \in {"suspended", "ready"}
  BY <1>1
<1> QED
  BY <1>1, <1>2, <1>3, <1>4, <1>5, <1>6 DEF Granted, Owing, Heir

\* The timer touches nobody's slot.
LEMMA TimerSlotStands ==
  ASSUME MQInv, Tick \/ TimerStep, NEW x \in Threads, call'[x] = call[x], NEW op \in Ops
  PROVE  (x \in Owing(op)' <=> x \in Owing(op)) /\ (x \in Granted(op)' <=> x \in Granted(op))
<1>1. /\ pc'[x] = pc[x] \/ (pc[x] = "suspended" /\ pc'[x] = "ready")
      /\ where'[x] = where[x]
  BY Shapes, TimerBystander
<1>2. PICK q \in Queues : q = QueueOf(op)
  BY TwoQueues
<1>3. pc[x] \in {"suspended", "ready"} /\ call[x].op = op => where[x] = q
  BY <1>2 DEF MQInv, MQCalls, CallInv
<1>4. Heir(x, q)' <=> Heir(x, q)
  BY Shapes, TimerMakesNoHeir
<1>5. pc'[x] \in {"run", "held", "walk", "missed"} \/ pc[x] \in {"run", "held", "walk", "missed"} => pc'[x] = pc[x]
  BY <1>1
<1> QED
  BY <1>1, <1>2, <1>3, <1>4, <1>5 DEF Granted, Owing, Heir

-----------------------------------------------------------------------------
Clean == \A x \in Threads : state[x] \in {"Running", "Blocked"}

\* A thread that has been cancelled, or has finished, stays so.
LEMMA CleanBefore ==
  ASSUME IInv, [BSNext]_bsvars, Clean'
  PROVE  Clean
<1> SUFFICES ASSUME NEW x \in Threads PROVE state'[x] \in {"Running", "Blocked"} => state[x] \in {"Running", "Blocked"}
  BY DEF Clean
<1>1. state \in [Threads -> ThreadState]
  BY DEF IInv, TypeOK
<1>2. ASSUME NEW t \in Threads, TimedBlock(t) \/ (\E q \in Queues : Block(t, q)) \/ \E d \in 1..MaxTime : Sleep(t, d)
      PROVE  state'[x] = state[x] \/ state[x] = "Running"
  BY <1>1, <1>2 DEF TimedBlock, Block, Sleep, MayBlock, Suspend
<1>3. ASSUME NEW t \in Threads, TryUnblock(t)
      PROVE  state'[x] = state[x] \/ state[x] = "Blocked"
  BY Zenon, <1>1, <1>3 DEF TryUnblock
<1>4. ASSUME NEW w \in Threads, ExpiryVisit(w)
      PROVE  state'[x] = state[x] \/ state[x] = "Blocked"
  BY <1>1, <1>4 DEF ExpiryVisit
<1>5. ASSUME NEW t \in Threads, (\E w \in Threads : Cancel(t, w)) \/ Dispatch(t) \/ FinishCancelled(t) \/ Terminate(t)
      PROVE  state'[x] = state[x] \/ state'[x] \in {"Cancelled", "Finishing"}
  BY Zenon, <1>1, <1>5 DEF Cancel, Dispatch, FinishCancelled, Terminate
<1>6. ASSUME NEW t \in Threads, ThreadStep(t), ~TimedBlock(t), ~TryUnblock(t) PROVE state' = state
  BY Zenon, <1>6 DEF ThreadStep, AcquireTimeoutLock, ResumeMisses, CancelTimeout, Wake, CancelBlocking
<1>7. ASSUME NEW t \in Threads, NEW l \in Locks, Acquire(t, l) \/ Release(t, l) PROVE state' = state
  BY <1>7 DEF Acquire, Release
<1>8. ASSUME NEW t \in Threads, NEW q \in Queues, NEW d, StartResume(t, q) \/ StartTimedBlock(t, q, d) PROVE state' = state
  BY <1>8 DEF StartResume, StartTimedBlock
<1>9. ASSUME Tick \/ TimerStep, ~(\E w \in Threads : ExpiryVisit(w)) PROVE state' = state
  BY Zenon, <1>9 DEF Tick, TimerStep, ExpiryStart, ExpiryFire, ExpiryUnlock, ExpiryDone, Wake, CancelBlocking
<1>10. ASSUME NEW t \in Threads, ThreadStep(t) \/ ClientStep(t) \/ SchedStep(t)
       PROVE  state'[x] \in {"Running", "Blocked"} => state[x] \in {"Running", "Blocked"}
  <2>1. "Running" \notin {"Cancelled", "Finishing"} /\ "Blocked" \notin {"Cancelled", "Finishing"}
    BY Zenon
  <2> QED
    BY Zenon, <1>2, <1>3, <1>5, <1>6, <1>7, <1>8, <1>10, <2>1 DEF ClientStep, CriticalSection, SchedStep
<1>11. ASSUME UNCHANGED bsvars PROVE state' = state
  BY <1>11 DEF bsvars
<1> QED
  BY Zenon, <1>4, <1>9, <1>10, <1>11 DEF BSNext

\* The elements there are to receive, and the places there are to send to.
Places(op) == IF op = "recv" THEN ring.count ELSE Size - ring.count

Balanced(op) == Slots(op) <= Places(op) /\ (Clean => Slots(op) = Places(op))

NoneWaits(op) == slots[op] > 0 => \A x \in Range(bq[QueueOf(op)]) : state[x] # "Blocked"

\* SlotsConserved, one side at a time.
LEMMA Sides == SlotsConserved <=> \A op \in Ops : Balanced(op) /\ NoneWaits(op)
BY DEF SlotsConserved, Ops, Places, Balanced, NoneWaits, Clean

\* What thread t itself holds of one kind of slot.
Hold(t, op) == Bit(t \in Granted(op)) + Bit(t \in Owing(op))

\* A step that wins no thread moves slots only between the counter, what the
\* thread itself holds, and the buffer.
LEMMA Balance ==
  ASSUME MQInv, MQTypeOK', NEW t \in Threads, ThreadStep(t) \/ ClientStep(t) \/ SchedStep(t),
         \A x \in Threads : x # t => call'[x] = call[x],
         TryUnblock(t) => state[bq[cur[t]][idx[t]]] # "Blocked",
         NEW op \in Ops,
         \/ slots'[op] + Hold(t, op)' + Places(op) = slots[op] + Hold(t, op) + Places(op)'
         \/ ~Clean' /\ slots'[op] + Hold(t, op)' + Places(op) <= slots[op] + Hold(t, op) + Places(op)'
  PROVE  Balanced(op)'
<1>1. ASSUME NEW x \in Threads, x # t
      PROVE  (x \in Owing(op)' <=> x \in Owing(op)) /\ (x \in Granted(op)' <=> x \in Granted(op))
  BY <1>1, SlotStands
<1>2. PICK G, O, G1, O1 :
        /\ G = Cardinality(Granted(op)) /\ G1 = Cardinality(Granted(op)')
        /\ O = Cardinality(Owing(op)) /\ O1 = Cardinality(Owing(op)')
  OBVIOUS
<1>3. /\ G \in Nat /\ G1 \in Nat
      /\ G1 + Bit(t \in Granted(op)) = G + Bit(t \in Granted(op)')
  <2>1. Granted(op) \in SUBSET Threads /\ Granted(op)' \in SUBSET Threads
    BY Zenon DEF Granted
  <2> QED
    BY <1>1, <1>2, <2>1, Toggle
<1>4. /\ O \in Nat /\ O1 \in Nat
      /\ O1 + Bit(t \in Owing(op)) = O + Bit(t \in Owing(op)')
  <2>1. Owing(op) \in SUBSET Threads /\ Owing(op)' \in SUBSET Threads
    BY DEF Owing
  <2> QED
    BY <1>1, <1>2, <2>1, Toggle
<1>5. PICK g \in 0..1, o \in 0..1, g1 \in 0..1, o1 \in 0..1 :
        /\ g = Bit(t \in Granted(op)) /\ g1 = Bit(t \in Granted(op)')
        /\ o = Bit(t \in Owing(op)) /\ o1 = Bit(t \in Owing(op)')
  BY DEF Bit
<1>6. PICK s \in Nat, s1 \in Nat, p \in Nat, p1 \in Nat :
        s = slots[op] /\ s1 = slots'[op] /\ p = Places(op) /\ p1 = Places(op)'
  BY SizeAssumption DEF MQInv, MQTypeOK, Rings, Places, Ops
<1>7. Slots(op) = s + G + O /\ Slots(op)' = s1 + G1 + O1 /\ Hold(t, op) = g + o /\ Hold(t, op)' = g1 + o1
  BY Zenon, <1>2, <1>5, <1>6 DEF Slots, Hold
<1>8. Slots(op) <= p /\ (Clean => Slots(op) = p)
  BY Zenon, <1>6, Sides DEF MQInv, MQCalls, Balanced
<1>9. Clean' => Clean
  BY Zenon, CleanBefore DEF MQInv, BSNext
<1>10. Slots(op)' <= p1 /\ (Clean' => Slots(op)' = p1)
  <2>1. \/ s1 + (g1 + o1) + p = s + (g + o) + p1
        \/ ~Clean' /\ s1 + (g1 + o1) + p <= s + (g + o) + p1
    BY Zenon, <1>6, <1>7
  <2>2. G1 + g = G + g1 /\ O1 + o = O + o1
    BY Zenon, <1>3, <1>4, <1>5
  <2>3. s + G + O <= p /\ (Clean' => s + G + O = p)
    BY Zenon, <1>7, <1>8, <1>9
  <2>4. s1 + G1 + O1 <= p1 /\ (Clean' => s1 + G1 + O1 = p1)
    BY <1>3, <1>4, <2>1, <2>2, <2>3
  <2> QED
    BY Zenon, <1>7, <2>4
<1> QED
  BY <1>6, <1>10 DEF Balanced

\* A thread is never left blocked beside a counted slot.
LEMMA WaitersStand ==
  ASSUME MQInv, IInv', NEW t \in Threads, ThreadStep(t) \/ ClientStep(t) \/ SchedStep(t), NEW op \in Ops,
         slots'[op] > 0 => slots[op] > 0,
         pc'[t] = "suspended" /\ where'[t] = QueueOf(op) => ~(slots[op] > 0)
  PROVE  NoneWaits(op)'
<1>1. PICK q \in Queues : q = QueueOf(op)
  BY TwoQueues
<1>2. ASSUME slots'[op] > 0, NEW x \in Range(bq'[q]), state'[x] = "Blocked" PROVE FALSE
  <2>1. x \in Threads /\ where'[x] = q /\ pc'[x] = "suspended"
    BY <1>2, QueuedAreThreads DEF IInv, Core, NoStaleLinks, TypeOK, Range
  <2>2. x # t
    BY Zenon, <1>1, <1>2, <2>1
  <2>3. state[x] = "Blocked" /\ where[x] = q /\ None # q
    BY Zenon, <1>1, <1>2, <2>1, <2>2, Shapes, Bystander, ConstantsAssumption
  <2>4. x \in Range(bq[q])
    BY Zenon, <2>1, <2>3 DEF MQInv, IInv, Core, BlockedIsLinked, OnQueue
  <2> QED
    BY Zenon, <1>1, <1>2, <2>3, <2>4, Sides DEF MQInv, MQCalls, NoneWaits
<1> QED
  BY Zenon, <1>1, <1>2 DEF NoneWaits

-----------------------------------------------------------------------------
\* A step that wins no thread: it is enough to look at what the thread itself
\* knows, holds and leaves behind.
LEMMA Settle ==
  ASSUME MQInv, IInv', MQTypeOK', NEW t \in Threads, ThreadStep(t) \/ ClientStep(t) \/ SchedStep(t),
         \A x \in Threads : x # t => call'[x] = call[x],
         TryUnblock(t) => state[bq[cur[t]][idx[t]]] # "Blocked",
         slots' # slots => lock[MQLock] = t,
         CallInv(t)',
         \A op \in Ops :
           /\ \/ slots'[op] + Hold(t, op)' + Places(op) = slots[op] + Hold(t, op) + Places(op)'
              \/ ~Clean' /\ slots'[op] + Hold(t, op)' + Places(op) <= slots[op] + Hold(t, op) + Places(op)'
           /\ NoneWaits(op)'
  PROVE  MQCalls'
<1>1. \A x \in Threads : CallInv(x)'
  BY Zenon, OthersStand
<1>2. \A op \in Ops : Balanced(op)'
  BY Zenon, Balance
<1>3. SlotsConserved'
  BY Zenon, <1>2 DEF SlotsConserved, Ops, Places, Balanced, NoneWaits, Clean
<1> QED
  BY Zenon, <1>1, <1>3 DEF MQCalls

\* A step that touches neither the counters nor the buffer.
LEMMA QuietStep ==
  ASSUME MQInv, IInv', MQTypeOK', NEW t \in Threads, ThreadStep(t) \/ ClientStep(t) \/ SchedStep(t),
         UNCHANGED <<ring, slots>>,
         \A x \in Threads : x # t => call'[x] = call[x],
         TryUnblock(t) => state[bq[cur[t]][idx[t]]] # "Blocked",
         CallInv(t)',
         pc'[t] = "suspended" => call[t].op \in Ops /\ where'[t] = QueueOf(call[t].op) /\ slots[call[t].op] = 0,
         \A op \in Ops : Hold(t, op)' = Hold(t, op) \/ (~Clean' /\ Hold(t, op)' = 0)
  PROVE  MQCalls'
<1>1. ASSUME NEW op \in Ops
      PROVE  /\ \/ slots'[op] + Hold(t, op)' + Places(op) = slots[op] + Hold(t, op) + Places(op)'
                \/ ~Clean' /\ slots'[op] + Hold(t, op)' + Places(op) <= slots[op] + Hold(t, op) + Places(op)'
             /\ NoneWaits(op)'
  <2>1. Hold(t, op) \in 0..2
    BY DEF Hold, Bit
  <2>2. PICK s \in Nat, p \in Nat : s = slots[op] /\ s = slots'[op] /\ p = Places(op) /\ p = Places(op)'
    BY SizeAssumption DEF MQInv, MQTypeOK, Rings, Places, Ops
  <2>3. ASSUME pc'[t] = "suspended", where'[t] = QueueOf(op) PROVE slots[op] = 0
    BY Zenon, <2>3, TwoQueues
  <2>4. NoneWaits(op)'
    BY <2>2, <2>3, WaitersStand
  <2>5. CASE Hold(t, op)' = Hold(t, op)
    BY Zenon, <2>2, <2>4, <2>5
  <2>6. CASE ~Clean' /\ Hold(t, op)' = 0
    <3>1. s + 0 + p <= s + Hold(t, op) + p
      BY <2>1, <2>2
    <3> QED
      BY Zenon, <2>2, <2>4, <2>6, <3>1
  <2> QED
    BY Zenon, <2>5, <2>6
<1> QED
  BY Zenon, <1>1, Settle

\* A thread that neither was passed a slot nor owes one.
EmptyHanded(t) ==
  \/ call[t].op = "none"
  \/ pc[t] \in {"spinTimeout", "held2", "cancelTimeout", "resume", "dead"} \cup CancelPC
  \/ pc[t] \in {"run", "held"} /\ ~call[t].granted

\* Such a thread holds no slot.
LEMMA EmptyHold ==
  ASSUME NEW t \in Threads, NEW op \in Ops
  PROVE  (EmptyHanded(t) => Hold(t, op) = 0) /\ (EmptyHanded(t)' => Hold(t, op)' = 0)
<1>1. EmptyHanded(t) => t \notin Granted(op) /\ t \notin Owing(op)
  BY DEF EmptyHanded, Granted, Owing, Ops, Other, CancelPC
<1>2. EmptyHanded(t)' => t \notin Granted(op)' /\ t \notin Owing(op)'
  BY DEF EmptyHanded, Granted, Owing, Ops, Other, CancelPC
<1> QED
  BY <1>1, <1>2 DEF Hold, Bit

\* A thread holds what it held before.
LEMMA SameHold ==
  ASSUME NEW t \in Threads, NEW op \in Ops,
         t \in Granted(op)' <=> t \in Granted(op), t \in Owing(op)' <=> t \in Owing(op)
  PROVE  Hold(t, op)' = Hold(t, op)
BY Zenon DEF Hold, Bit

\* A thread that has just gone to sleep is on its queue: it was passed nothing.
LEMMA SleepHold ==
  ASSUME MQInv, NEW t \in Threads, ThreadStep(t) \/ ClientStep(t) \/ SchedStep(t),
         pc[t] \in {"held", "held2"}, pc'[t] = "suspended", NEW op \in Ops,
         where'[t] = QueueOf(call'[t].op), call'[t].op \in Ops
  PROVE  Hold(t, op)' = 0
<1>1. PICK q \in Queues : q = QueueOf(call'[t].op)
  BY TwoQueues
<1>2. ~TryUnblock(t)
  BY Zenon DEF TryUnblock
<1>3. Heir(t, q)' => Heir(t, q) \/ TryUnblock(t)
  BY Zenon, Shapes, HeirStep
<1>4. t \notin Granted(op)' /\ t \notin Owing(op)'
  BY <1>1, <1>2, <1>3 DEF Granted, Owing, Heir
<1> QED
  BY <1>4 DEF Hold, Bit

\* The thread leaves its call with empty hands, or dies with what it has.
LEMMA LeavesQuietly ==
  ASSUME MQInv, IInv', MQTypeOK', NEW t \in Threads, ThreadStep(t) \/ ClientStep(t) \/ SchedStep(t),
         UNCHANGED <<ring, slots>>, Leaves(t), pc[t] # "walk", pc'[t] \in {"run", "dead"},
         (\A op \in Ops : Hold(t, op) = 0) \/ ~Clean'
  PROVE  MQCalls'
<1>1. call'[t] = Idle /\ call'[t].op = "none" /\ \A x \in Threads : x # t => call'[x] = call[x]
  BY Zenon, Shapes DEF Leaves, Idle
<1>2. CallInv(t)' /\ ~TryUnblock(t) /\ pc'[t] # "suspended"
  BY Zenon, <1>1, CallOver DEF TryUnblock
<1>3. \A op \in Ops : Hold(t, op)' = 0
  BY <1>1, EmptyHold DEF EmptyHanded
<1> QED
  BY Zenon, <1>1, <1>2, <1>3, QuietStep

-----------------------------------------------------------------------------
(* Steps that leave the counters and the buffer as they were. *)

\* send() and recv() take the lock, for the first time or again.
LEMMA EnterSteps ==
  ASSUME MQInv, IInv', MQTypeOK', NEW t \in Threads, ThreadStep(t) \/ ClientStep(t) \/ SchedStep(t),
         \/ \E d \in Timeouts : (\E m \in Messages : Call(t, "send", m, d)) \/ Call(t, "recv", Blank, d)
         \/ Relock(t)
  PROVE  MQCalls'
<1>1. UNCHANGED <<ring, slots>> /\ CallInv(t)
  BY DEF Call, Relock, mqvars, MQInv, MQCalls
<1>2. pc[t] = "run" /\ pc'[t] = "held" /\ ~TryUnblock(t)
  BY Zenon, Shapes DEF Call, Relock, Acquire, Goto, TryUnblock
<1>3. CASE Relock(t)
  <2>1. call[t].op \in Ops /\ call[t].granted /\ UNCHANGED call
    BY Zenon, <1>1, <1>2, <1>3 DEF Relock, InCall, mqvars, CallInv
  <2>2. CallInv(t)'
    <3>1. /\ call'[t] = call[t] /\ "none" \notin Ops
          /\ call[t].op = "send" => call[t].elem \in Messages
      BY Zenon, <1>1, <1>2, <2>1 DEF CallInv, Ops
    <3> QED
      BY Zenon, <1>2, <2>1, <3>1 DEF CallInv, CancelPC
  <2>3. \A op \in Ops : Hold(t, op)' = Hold(t, op)
    <3>1. /\ pc[t] \in {"run", "held"} /\ pc'[t] \in {"run", "held"} /\ call'[t] = call[t]
          /\ pc[t] \notin {"suspended", "ready", "walk", "missed"} /\ pc'[t] \notin {"suspended", "ready", "walk", "missed"}
      BY Zenon, <1>2, <2>1
    <3>2. \A op \in Ops : (t \in Granted(op)' <=> t \in Granted(op)) /\ (t \in Owing(op)' <=> t \in Owing(op))
      BY Zenon, <3>1 DEF Granted, Owing
    <3> QED
      BY Zenon, <3>2, SameHold
  <2> QED
    BY Zenon, <1>1, <1>2, <2>1, <2>2, <2>3, QuietStep
<1>4. CASE \E d \in Timeouts : (\E m \in Messages : Call(t, "send", m, d)) \/ Call(t, "recv", Blank, d)
  <2>0. PICK o \in Ops, m \in Messages \cup {Blank}, d \in Timeouts :
               /\ call[t] = Idle /\ (o = "send" => m \in Messages)
               /\ call' = [call EXCEPT ![t] = [op |-> o, elem |-> m, timeout |-> d, granted |-> FALSE]]
    <3>1. "send" \in Ops /\ "recv" \in Ops /\ "recv" # "send"
      BY DEF Ops
    <3> QED
      BY Zenon, <1>4, <3>1 DEF Call
  <2>1. /\ call[t].op = "none" /\ call'[t].op \in Ops /\ ~call'[t].granted
        /\ call'[t].op = "send" => call'[t].elem \in Messages
        /\ \A x \in Threads : x # t => call'[x] = call[x]
    <3>1. PICK r : r = [op |-> o, elem |-> m, timeout |-> d, granted |-> FALSE]
      BY Zenon
    <3>2. call'[t] = r /\ \A x \in Threads : x # t => call'[x] = call[x]
      BY Zenon, <2>0, <3>1, Shapes
    <3>3. r.op = o /\ r.elem = m /\ r.granted = FALSE
      BY Zenon, <3>1
    <3>4. Idle.op = "none"
      BY DEF Idle
    <3> QED
      BY Zenon, <2>0, <3>2, <3>3, <3>4
  <2>2. CallInv(t)'
    BY Zenon, <1>2, <2>1 DEF CallInv, CancelPC, Ops
  <2>3. EmptyHanded(t) /\ EmptyHanded(t)'
    BY Zenon, <1>2, <2>1 DEF EmptyHanded
  <2>4. \A op \in Ops : Hold(t, op)' = Hold(t, op)
    BY <2>3, EmptyHold
  <2> QED
    BY Zenon, <1>1, <1>2, <2>1, <2>2, <2>4, QuietStep
<1> QED
  BY <1>3, <1>4

\* No slot: the thread gives up or goes to sleep.
LEMMA WaitSteps ==
  ASSUME MQInv, IInv', MQTypeOK', NEW t \in Threads, ThreadStep(t) \/ ClientStep(t) \/ SchedStep(t),
         Wait(t) \/ WaitTimed(t)
  PROVE  MQCalls'
<1>1. UNCHANGED <<ring, slots>> /\ CallInv(t)
  BY Zenon DEF Wait, WaitTimed, MQInv, MQCalls
<1>2. PICK o \in Ops : o = call[t].op /\ ~call[t].granted /\ slots[o] = 0 /\ (pc[t] = "held2" => cur[t] = QueueOf(o))
  BY Zenon, <1>1 DEF Wait, WaitTimed, TimedBlock, InCall, CallInv
<1>3. pc[t] \in {"held", "held2"} /\ ~TryUnblock(t) /\ EmptyHanded(t)
  BY Zenon, <1>2 DEF Wait, WaitTimed, TimedBlock, TryUnblock, EmptyHanded
<1>4. \A op \in Ops : Hold(t, op) = 0
  BY <1>3, EmptyHold
<1>5. ASSUME Leaves(t), pc'[t] = "run" PROVE MQCalls'
  BY Zenon, <1>1, <1>3, <1>4, <1>5, LeavesQuietly
<1>6. ASSUME \A x \in Threads : x # t => call'[x] = call[x], call'[t].op = o, ~call'[t].granted,
             call'[t].elem = call[t].elem,
             \/ pc'[t] \in {"spinTimeout", "held2"} /\ cur'[t] = QueueOf(o)
             \/ pc'[t] = "suspended" /\ where'[t] = QueueOf(o)
      PROVE  MQCalls'
  <2>1. o = "send" => call'[t].elem \in Messages
    BY Zenon, <1>1, <1>2, <1>3, <1>6 DEF CallInv
  <2>2. CallInv(t)'
    BY Zenon, <1>1, <1>2, <1>6, <2>1 DEF CallInv, CancelPC, Ops
  <2>3. \A op \in Ops : Hold(t, op)' = 0
    <3>1. CASE pc'[t] = "suspended"
      BY Zenon, <1>2, <1>3, <1>6, <3>1, SleepHold
    <3>2. CASE pc'[t] \in {"spinTimeout", "held2"}
      BY Zenon, <3>2, EmptyHold DEF EmptyHanded
    <3> QED
      BY Zenon, <1>6, <3>1, <3>2
  <2> QED
    BY Zenon, <1>1, <1>2, <1>3, <1>4, <1>6, <2>2, <2>3, QuietStep
<1>7. ASSUME Forget(t) PROVE /\ call'[t].op = o /\ ~call'[t].granted /\ call'[t].elem = call[t].elem
                             /\ \A x \in Threads : x # t => call'[x] = call[x]
  BY <1>2, <1>7 DEF Forget, MQInv, MQTypeOK, Calls
<1>8. CASE Wait(t)
  <2>1. PICK q \in Queues : q = QueueOf(o)
    BY Zenon, TwoQueues
  <2>2. CASE Release(t, MQLock) /\ Leaves(t)
    BY Zenon, <1>5, <2>2, Shapes DEF Release, Goto
  <2>3. CASE Block(t, q) /\ (IF MayBlock(t) THEN Forget(t) ELSE Leaves(t))
    <3>1. IF MayBlock(t) THEN pc'[t] = "suspended" /\ where'[t] = q ELSE pc'[t] = "run"
      BY Zenon, <2>3, Shapes DEF Block, Suspend, Goto
    <3> QED
      BY Zenon, <1>5, <1>6, <1>7, <2>1, <2>3, <3>1
  <2>4. CASE (\E d \in Timeouts : StartTimedBlock(t, q, d)) /\ Forget(t)
    <3>1. pc'[t] = "spinTimeout" /\ cur'[t] = q
      BY Zenon, <2>4, Shapes DEF StartTimedBlock, Goto
    <3> QED
      BY Zenon, <1>6, <1>7, <2>1, <2>4, <3>1
  <2>5. call[t].timeout \in Timeouts
    BY DEF MQInv, MQTypeOK, Calls
  <2> QED
    BY Zenon, <1>2, <1>8, <2>1, <2>2, <2>3, <2>4, <2>5 DEF Wait
<1>9. CASE WaitTimed(t)
  <2>1. pc[t] = "held2" /\ cur[t] = QueueOf(o)
    BY Zenon, <1>2, <1>9 DEF WaitTimed, TimedBlock
  <2>2. IF MayBlock(t) THEN pc'[t] = "suspended" /\ where'[t] = QueueOf(o) ELSE pc'[t] = "run"
    BY Zenon, <1>9, <2>1, Shapes DEF WaitTimed, TimedBlock, Suspend, Goto
  <2> QED
    BY Zenon, <1>2, <1>5, <1>6, <1>9, <2>2 DEF WaitTimed
<1> QED
  BY <1>8, <1>9

\* block() returns: the slot that was passed on stays with the thread.
LEMMA ReturnStep ==
  ASSUME MQInv, IInv', MQTypeOK', NEW t \in Threads, ThreadStep(t) \/ ClientStep(t) \/ SchedStep(t), Return(t)
  PROVE  MQCalls'
<1>1. UNCHANGED <<ring, slots>> /\ CallInv(t) /\ pc[t] = "ready" /\ ~TryUnblock(t)
  BY DEF Return, Dispatch, TryUnblock, MQInv, MQCalls
<1>2. PICK o \in Ops : o = call[t].op /\ where[t] = QueueOf(o) /\ ~call[t].granted
  BY <1>1 DEF CallInv
<1>3. CASE state[t] = "Cancelled"
  <2>1. pc'[t] = "dead" /\ state'[t] = "Finishing" /\ Leaves(t)
    BY Zenon, <1>3, Shapes DEF Return, Dispatch, Goto
  <2>2. ~Clean'
    BY Zenon, <2>1 DEF Clean
  <2> QED
    BY Zenon, <1>1, <2>1, <2>2, LeavesQuietly
<1>4. CASE state[t] # "Cancelled" /\ timedOut[t]
  <2>1. pc'[t] = "run" /\ Leaves(t)
    BY Zenon, <1>4, Shapes DEF Return, Dispatch, Goto
  <2>2. \A op \in Ops : Hold(t, op) = 0
    BY <1>1, <1>2, <1>4 DEF Hold, Granted, Owing, Bit
  <2> QED
    BY Zenon, <1>1, <2>1, <2>2, LeavesQuietly
<1>5. CASE state[t] # "Cancelled" /\ ~timedOut[t]
  <2>1. /\ pc'[t] = "run" /\ call'[t].op = o /\ call'[t].granted /\ call'[t].elem = call[t].elem
        /\ \A x \in Threads : x # t => call'[x] = call[x]
    <3>1. pc'[t] = "run" /\ call' = [call EXCEPT ![t].granted = TRUE]
      BY <1>5, Shapes DEF Return, Dispatch, Goto
    <3> QED
      BY <1>2, <3>1 DEF MQInv, MQTypeOK, Calls
  <2>2. CallInv(t)'
    <3>1. o = "send" => call'[t].elem \in Messages
      BY Zenon, <1>1, <1>2, <2>1 DEF CallInv
    <3> QED
      BY Zenon, <2>1, <3>1 DEF CallInv, CancelPC, Ops
  <2>3. ~OnQueue(QueueOf(o), t)
    <3>1. PICK q \in Queues : q = QueueOf(o)
      BY TwoQueues
    <3> QED
      BY Zenon, <1>1, <3>1 DEF OnQueue, MQInv, IInv, Core, NoStaleLinks
  <2>4. \A op \in Ops : Hold(t, op)' = Hold(t, op)
    <3>1. \A op \in Ops : t \in Granted(op)' <=> t \in Granted(op)
      BY Zenon, <1>1, <1>2, <1>5, <2>1, <2>3 DEF Granted
    <3>2. \A op \in Ops : t \in Owing(op)' <=> t \in Owing(op)
      BY Zenon, <1>1, <2>1 DEF Owing
    <3> QED
      BY <3>1, <3>2 DEF Hold, Bit
  <2> QED
    BY Zenon, <1>1, <2>1, <2>2, <2>4, QuietStep
<1> QED
  BY Zenon, <1>3, <1>4, <1>5

\* What a thread does between calls, or returning from them.
LEMMA OutsideSteps ==
  ASSUME MQInv, IInv', MQTypeOK', NEW t \in Threads, ThreadStep(t) \/ ClientStep(t) \/ SchedStep(t),
         WakeOther(t) \/ Finishes(t) \/ (call[t] = Idle /\ ExitStep(t) /\ UNCHANGED mqvars)
  PROVE  MQCalls'
<1>1. UNCHANGED <<ring, slots>>
  BY DEF WakeOther, Finishes, mqvars
<1>2. CASE WakeOther(t)
  <2>1. victim[t] # t /\ pc[t] = "resume"
    BY <1>2, Shapes, WonThread DEF WakeOther, Wake, WakePC
  <2>2. pc'[t] = "run" /\ Leaves(t)
    BY Zenon, <1>2, <2>1, Shapes DEF WakeOther, Wake
  <2>3. \A op \in Ops : Hold(t, op) = 0
    BY Zenon, <2>1, EmptyHold DEF EmptyHanded
  <2> QED
    BY Zenon, <1>1, <2>1, <2>2, <2>3, LeavesQuietly
<1>3. CASE Finishes(t)
  <2>1. pc[t] # "walk" /\ pc'[t] = "dead" /\ state'[t] = "Finishing" /\ Leaves(t)
    BY Zenon, <1>3, Shapes DEF Finishes, FinishCancelled, Terminate, Goto, Preemptible
  <2>2. ~Clean'
    BY <2>1 DEF Clean
  <2> QED
    BY Zenon, <1>1, <2>1, <2>2, LeavesQuietly
<1>4. CASE call[t] = Idle /\ ExitStep(t) /\ UNCHANGED mqvars
  <2>1. UNCHANGED call /\ call[t].op = "none" /\ ~call[t].granted /\ pc[t] \in {"run", "held", "missed"}
    BY <1>4 DEF mqvars, Idle, ExitStep, Acquire, Release, Cancel
  <2>2. pc'[t] \in {"run", "held"} \cup CancelPC
    BY Zenon, <1>4, Shapes DEF ExitStep, Acquire, Release, Cancel, Goto, AfterTimeout, CancelPC
  <2>3. CallInv(t)' /\ pc'[t] # "suspended" /\ ~TryUnblock(t)
    BY Zenon, <2>1, <2>2 DEF CallInv, CancelPC, Ops, TryUnblock
  <2>4. \A op \in Ops : Hold(t, op)' = Hold(t, op)
    BY Zenon, <2>1, EmptyHold DEF EmptyHanded
  <2> QED
    BY Zenon, <1>1, <2>1, <2>3, <2>4, QuietStep
<1> QED
  BY <1>2, <1>3, <1>4

\* The walk of resume() on the other queue.
LEMMA Walks ==
  ASSUME MQInv, NEW t \in Threads, pc[t] = "walk"
  PROVE  \E o \in Ops, q \in Queues :
           /\ o = Other(call[t].op) /\ call[t].op = Other(o) /\ q = QueueOf(o) /\ cur[t] = q
           /\ lock[MQLock] = t /\ bq[q] \in Seq(Threads) /\ idx[t] \in Nat /\ idx[t] >= 1
           /\ \A j \in 1..Len(bq[q]) : j < idx[t] => state[bq[q][j]] # "Blocked"
<1>1. call[t].op \in Ops /\ CallInv(t)
  BY Zenon DEF MQInv, MQCalls, CallInv
<1>2. PICK o \in Ops, q \in Queues : o = Other(call[t].op) /\ call[t].op = Other(o) /\ q = QueueOf(o)
  BY <1>1, TwoQueues
<1>3. cur[t] = q /\ \A j \in 1..Len(bq[q]) : j < idx[t] => state[bq[q][j]] # "Blocked"
  BY Zenon, <1>1, <1>2 DEF CallInv
<1>4. lock[MQLock] = t
  BY Zenon, <1>2, <1>3, Shapes, TwoQueues DEF LockInv
<1>5. idx[t] >= 1
  BY Zenon DEF MQInv, IInv, TypeOK
<1> QED
  BY Zenon, <1>2, <1>3, <1>4, <1>5, Shapes

\* The steps of the machinery that return to no caller and win nobody.
LEMMA InsideSteps ==
  ASSUME MQInv, IInv', MQTypeOK', NEW t \in Threads, ThreadStep(t) \/ ClientStep(t) \/ SchedStep(t),
         Inside(t), ~TryUnblock(t), UNCHANGED mqvars
  PROVE  MQCalls'
<1>1. UNCHANGED <<ring, slots>> /\ UNCHANGED call /\ CallInv(t)
  BY Zenon DEF mqvars, MQInv, MQCalls
<1>2. ASSUME CallInv(t)', pc'[t] # "suspended", \A op \in Ops : Hold(t, op)' = Hold(t, op) PROVE MQCalls'
  BY Zenon, <1>1, <1>2, QuietStep
<1>3. ASSUME EmptyHanded(t), EmptyHanded(t)' PROVE \A op \in Ops : Hold(t, op)' = Hold(t, op)
  BY <1>3, EmptyHold
<1>4. CASE AcquireTimeoutLock(t)
  <2>1. pc[t] = "spinTimeout" /\ pc'[t] = "held2" /\ cur'[t] = cur[t]
    BY Zenon, <1>4, Shapes DEF AcquireTimeoutLock, Goto, walk
  <2>2. pc'[t] \in {"spinTimeout", "held2"} /\ pc'[t] \notin {"suspended", "ready", "walk", "missed", "run"} \cup CancelPC
    BY <2>1 DEF CancelPC
  <2>3. pc[t] \notin {"walk", "missed", "cancelTimeout", "resume", "dead"}
    BY <2>1
  <2>4. CallInv(t)'
    BY Zenon, <1>1, <2>1, <2>2, <2>3 DEF CallInv
  <2>5. EmptyHanded(t) /\ EmptyHanded(t)'
    BY Zenon, <2>1 DEF EmptyHanded
  <2> QED
    BY Zenon, <1>2, <1>3, <2>2, <2>4, <2>5
<1>5. CASE ResumeMisses(t)
  <2>1. /\ pc[t] = "walk" /\ pc'[t] = "missed"
        /\ UNCHANGED lock /\ UNCHANGED bq /\ UNCHANGED state
    BY Zenon, <1>5, Shapes DEF ResumeMisses, Goto
  <2>2. PICK o \in Ops, q \in Queues :
           /\ o = Other(call[t].op) /\ call[t].op = Other(o) /\ q = QueueOf(o) /\ cur[t] = q
           /\ lock[MQLock] = t /\ bq[q] \in Seq(Threads) /\ idx[t] \in Nat /\ idx[t] >= 1
           /\ \A j \in 1..Len(bq[q]) : j < idx[t] => state[bq[q][j]] # "Blocked"
    BY Zenon, <2>1, Walks
  <2>3. \A j \in 1..Len(bq[q]) : j < idx[t]
    BY <1>5, <2>2 DEF ResumeMisses
  <2>4. call[t].op \in Ops /\ call[t].op # "none"
    BY Zenon, <2>2, TwoQueues DEF Ops
  <2>5. CallInv(t)'
    BY Zenon, <1>1, <2>1, <2>2, <2>3, <2>4 DEF CallInv, CancelPC
  <2>6. \A op \in Ops : Hold(t, op)' = Hold(t, op)
    <3>1. /\ pc[t] \in {"walk", "missed"} /\ pc'[t] \in {"walk", "missed"} /\ call'[t] = call[t]
          /\ pc[t] \notin {"suspended", "ready", "run", "held"} /\ pc'[t] \notin {"suspended", "ready", "run", "held"}
      BY Zenon, <1>1, <2>1
    <3>2. \A op \in Ops : (t \in Granted(op)' <=> t \in Granted(op)) /\ (t \in Owing(op)' <=> t \in Owing(op))
      BY Zenon, <3>1 DEF Granted, Owing
    <3> QED
      BY Zenon, <3>2, SameHold
  <2> QED
    BY Zenon, <1>2, <2>1, <2>5, <2>6
<1>6. CASE CancelTimeout(t, "cancelTimeout", "resume")
  <2>1. pc[t] = "cancelTimeout" /\ pc'[t] = "resume"
    BY Zenon, <1>6, Shapes DEF CancelTimeout, Goto
  <2>2. CallInv(t)'
    BY Zenon, <1>1, <2>1 DEF CallInv, CancelPC
  <2>3. EmptyHanded(t) /\ EmptyHanded(t)'
    BY Zenon, <2>1 DEF EmptyHanded
  <2> QED
    BY Zenon, <1>2, <1>3, <2>1, <2>2, <2>3
<1>7. CASE \/ CancelTimeout(t, "xCancelTimeout", AfterTimeout(victim[t]))
           \/ CancelBlocking(t) \/ Wake(t, "xResume", "held")
  <2>1. pc[t] \in CancelPC
    BY Zenon, <1>7 DEF CancelTimeout, CancelBlocking, Wake, CancelPC
  <2>2. victim[t] # t
    BY Zenon, <2>1, Shapes, WonThread DEF WakePC
  <2>3. pc'[t] \in {"held"} \cup CancelPC
    BY Zenon, <1>7, <2>2, Shapes DEF CancelTimeout, CancelBlocking, Wake, Goto, AfterTimeout, CancelPC
  <2>4. call[t].op = "none" /\ call'[t].op = "none" /\ ~call'[t].granted
    BY Zenon, <1>1, <2>1 DEF CallInv
  <2>5. CallInv(t)' /\ pc'[t] # "suspended"
    BY Zenon, <2>3, <2>4 DEF CallInv, CancelPC, Ops
  <2>6. EmptyHanded(t) /\ EmptyHanded(t)'
    BY Zenon, <2>4 DEF EmptyHanded
  <2> QED
    BY Zenon, <1>2, <1>3, <2>5, <2>6
<1> QED
  BY Zenon, <1>4, <1>5, <1>6, <1>7 DEF Inside

-----------------------------------------------------------------------------
(* Steps that move slots. *)

\* push or pop: the slot that is used up becomes a slot owed to the other side.
LEMMA TransferStep ==
  ASSUME MQInv, IInv', MQTypeOK', NEW t \in Threads, ThreadStep(t) \/ ClientStep(t) \/ SchedStep(t), Transfer(t)
  PROVE  MQCalls'
<1>1. PICK o \in Ops, p \in Ops : o = call[t].op /\ p = Other(o) /\ o = Other(p) /\ o # p /\ Ops = {o, p}
  BY Zenon, TwoQueues DEF Transfer, TakeSlot, InCall, Other
<1>2. /\ pc[t] = "held" /\ pc'[t] = "walk" /\ cur'[t] = QueueOf(p) /\ idx'[t] = 1 /\ lock[MQLock] = t
      /\ ~TryUnblock(t)
  BY <1>1, Shapes, TwoQueues DEF Transfer, StartResume, Goto, TryUnblock
<1>3. /\ call'[t].op = o /\ call'[t].granted = call[t].granted
      /\ \A x \in Threads : x # t => call'[x] = call[x]
  <2>1. call' = [call EXCEPT ![t].elem = Blank, ![t].timeout = 0]
    BY DEF Transfer
  <2> QED
    BY Zenon, <1>1, <2>1 DEF MQInv, MQTypeOK, Calls
<1>4. CallInv(t)'
  <2>1. \A j \in 1..Len(bq'[QueueOf(p)]) : ~(j < idx'[t])
    BY Zenon, <1>2, FirstPlace
  <2>2. o # "none"
    BY <1>1 DEF Ops
  <2> QED
    BY Zenon, <1>1, <1>2, <1>3, <2>1, <2>2 DEF CallInv, CancelPC
<1>5. /\ Hold(t, o) = Bit(call[t].granted) /\ Hold(t, p) = 0
      /\ Hold(t, o)' = 0 /\ Hold(t, p)' = 1
  <2>1. /\ pc[t] \notin {"suspended", "ready", "walk", "missed"} /\ pc[t] \in {"run", "held"}
        /\ pc'[t] \notin {"suspended", "ready", "run", "held"} /\ pc'[t] \in {"walk", "missed"}
    BY Zenon, <1>2
  <2>2. (t \in Granted(o) <=> call[t].granted) /\ t \notin Owing(o) /\ t \notin Granted(p) /\ t \notin Owing(p)
    BY Zenon, <1>1, <2>1 DEF Granted, Owing
  <2>3. t \notin Granted(o)' /\ t \notin Owing(o)' /\ t \notin Granted(p)' /\ t \in Owing(p)'
    BY Zenon, <1>1, <1>3, <2>1 DEF Granted, Owing
  <2>4. Hold(t, o)' = 0 /\ Hold(t, p)' = 1
    BY <2>3 DEF Hold, Bit
  <2>5. Hold(t, o) = Bit(call[t].granted) /\ Hold(t, p) = 0
    BY <2>2 DEF Hold, Bit
  <2> QED
    BY <2>4, <2>5
<1>6. PICK s \in Nat, s1 \in Nat, r \in Nat : s = slots[o] /\ s1 = slots'[o] /\ r = slots[p] /\ slots'[p] = r
  BY Zenon, <1>1, Shapes DEF Transfer, TakeSlot, MQTypeOK
<1>7. /\ (call[t].granted /\ s1 = s) \/ (~call[t].granted /\ s > 0 /\ s1 = s - 1)
      /\ slots' # slots => ~call[t].granted
  <2>1. \/ call[t].granted /\ UNCHANGED slots
        \/ ~call[t].granted /\ slots[o] > 0 /\ slots' = [slots EXCEPT ![o] = @ - 1]
    BY Zenon, <1>1 DEF Transfer, TakeSlot
  <2>2. ASSUME slots' = [slots EXCEPT ![o] = @ - 1] PROVE s1 = s - 1
    BY <1>6, <2>2, Shapes
  <2> QED
    BY Zenon, <1>6, <2>1, <2>2
<1>8. Places(o) \in Nat /\ Places(p) \in Nat /\ Places(o)' = Places(o) - 1 /\ Places(p)' = Places(p) + 1
  <2>1. ring.count \in 0..Size /\ ring'.count \in 0..Size /\ Size \in Nat /\ ring \in Rings
    BY Zenon, SizeAssumption DEF MQInv, MQTypeOK, Rings
  <2>2. IF o = "send" THEN ring'.count = ring.count + 1 ELSE ring'.count = ring.count - 1
    BY Zenon, <1>1, <2>1 DEF Transfer, Push, Pop, Rings, Ops
  <2> QED
    BY <1>1, <2>1, <2>2 DEF Places, Ops
<1>9. s1 + 0 + Places(o) = s + Bit(call[t].granted) + Places(o)'
  BY <1>6, <1>7, <1>8 DEF Bit
<1>10. r + 1 + Places(p) = r + 0 + Places(p)'
  BY <1>6, <1>8
<1>11. ASSUME NEW op \in Ops PROVE NoneWaits(op)'
  <2>1. slots'[op] > 0 => slots[op] > 0
    BY Zenon, <1>1, <1>6, <1>7
  <2> QED
    BY Zenon, <1>2, <2>1, WaitersStand
<1> QED
  BY ZenonT(60), <1>1, <1>2, <1>3, <1>4, <1>5, <1>6, <1>9, <1>10, <1>11, Settle

\* Baton not passed: the slot owed is counted, and nobody waits for it.
LEMMA MissStep ==
  ASSUME MQInv, IInv', MQTypeOK', NEW t \in Threads, ThreadStep(t) \/ ClientStep(t) \/ SchedStep(t), Miss(t)
  PROVE  MQCalls'
<1>1. PICK o \in Ops, p \in Ops : o = call[t].op /\ p = Other(o) /\ o = Other(p) /\ o # p /\ Ops = {o, p}
  BY TwoQueues DEF Miss, InCall, Other
<1>2. /\ pc[t] = "missed" /\ pc'[t] = "run" /\ lock[MQLock] = t /\ ~TryUnblock(t)
      /\ UNCHANGED <<bq, state, ring>> /\ call'[t] = Idle /\ \A x \in Threads : x # t => call'[x] = call[x]
  BY Zenon, Shapes DEF Miss, Release, Goto, TryUnblock, Leaves
<1>3. CallInv(t)' /\ call'[t].op = "none"
  <2>1. pc'[t] \in {"run", "dead"} /\ Idle.op = "none"
    BY Zenon, <1>2 DEF Idle
  <2> QED
    BY Zenon, <1>2, <2>1, CallOver
<1>4. Hold(t, o) = 0 /\ Hold(t, p) = 1 /\ Hold(t, o)' = 0 /\ Hold(t, p)' = 0
  <2>1. Hold(t, o)' = 0 /\ Hold(t, p)' = 0
    BY Zenon, <1>3, EmptyHold DEF EmptyHanded
  <2>2. pc[t] \notin {"suspended", "ready", "run", "held"} /\ pc[t] \in {"walk", "missed"}
    BY <1>2
  <2>3. t \notin Granted(o) /\ t \notin Owing(o) /\ t \notin Granted(p) /\ t \in Owing(p)
    BY Zenon, <1>1, <2>2 DEF Granted, Owing
  <2>4. Hold(t, o) = 0 /\ Hold(t, p) = 1
    BY <2>3 DEF Hold, Bit
  <2> QED
    BY <2>1, <2>4
<1>5. PICK s \in Nat, r \in Nat : s = slots[o] /\ slots'[o] = s /\ r = slots[p] /\ slots'[p] = r + 1
  BY <1>1, Shapes DEF Miss
<1>6. Places(o) \in Nat /\ Places(p) \in Nat /\ Places(o)' = Places(o) /\ Places(p)' = Places(p)
  BY <1>1, <1>2, SizeAssumption DEF MQInv, MQTypeOK, Rings, Places, Ops
<1>7. s + 0 + Places(o) = s + 0 + Places(o)' /\ r + 1 + 0 + Places(p) = r + 1 + Places(p)'
  BY <1>5, <1>6
<1>8. NoneWaits(o)'
  BY Zenon, <1>2, <1>5, WaitersStand
<1>9. NoneWaits(p)'
  <2>1. PICK q \in Queues : q = QueueOf(p) /\ bq[q] \in Seq(Threads)
    BY Shapes, TwoQueues
  <2>2. \A j \in 1..Len(bq[q]) : state[bq[q][j]] # "Blocked"
    BY Zenon, <1>1, <1>2, <2>1 DEF MQInv, MQCalls, CallInv
  <2>3. \A x \in Range(bq[q]) : state[x] # "Blocked"
    BY <2>1, <2>2 DEF Range
  <2> QED
    BY Zenon, <1>2, <2>1, <2>3 DEF NoneWaits
<1>10. ASSUME NEW op \in Ops
       PROVE  /\ slots'[op] + Hold(t, op)' + Places(op) = slots[op] + Hold(t, op) + Places(op)'
              /\ NoneWaits(op)'
  BY Zenon, <1>1, <1>4, <1>5, <1>7, <1>8, <1>9
<1> QED
  BY Zenon, <1>2, <1>3, <1>10, Settle

\* The walk finds an entry that the timer or a canceller has won.
LEMMA WalkOnStep ==
  ASSUME MQInv, IInv', MQTypeOK', NEW t \in Threads, ThreadStep(t) \/ ClientStep(t) \/ SchedStep(t),
         TryUnblock(t), UNCHANGED mqvars, state[bq[cur[t]][idx[t]]] # "Blocked"
  PROVE  MQCalls'
<1>1. pc[t] = "walk" /\ UNCHANGED <<state, bq, pc, cur>> /\ idx' = [idx EXCEPT ![t] = @ + 1]
  BY Zenon DEF TryUnblock
<1>2. UNCHANGED <<ring, slots>> /\ UNCHANGED call /\ CallInv(t)
  BY Zenon DEF mqvars, MQInv, MQCalls
<1>3. PICK o \in Ops, q \in Queues :
         /\ o = Other(call[t].op) /\ call[t].op = Other(o) /\ q = QueueOf(o) /\ cur[t] = q
         /\ lock[MQLock] = t /\ bq[q] \in Seq(Threads) /\ idx[t] \in Nat /\ idx[t] >= 1
         /\ \A j \in 1..Len(bq[q]) : j < idx[t] => state[bq[q][j]] # "Blocked"
  BY Zenon, <1>1, Walks
<1>4. \A j \in 1..Len(bq[q]) : j < idx'[t] => state[bq[q][j]] # "Blocked"
  <2>1. idx'[t] = idx[t] + 1 /\ state[bq[q][idx[t]]] # "Blocked"
    BY Zenon, <1>1, <1>3, Shapes
  <2>2. \A j \in 1..Len(bq[q]) : j < idx'[t] => j < idx[t] \/ j = idx[t]
    BY Zenon, <1>3, <2>1, NextPlace
  <2> QED
    BY Zenon, <1>3, <2>1, <2>2
<1>5. call[t].op \in Ops /\ call[t].op # "none"
  BY Zenon, <1>3, TwoQueues DEF Ops
<1>6. CallInv(t)'
  BY Zenon, <1>1, <1>2, <1>3, <1>4, <1>5 DEF CallInv, CancelPC
<1>7. \A op \in Ops : Hold(t, op)' = Hold(t, op)
  <2>1. /\ pc[t] \in {"walk", "missed"} /\ pc'[t] \in {"walk", "missed"} /\ call'[t] = call[t]
        /\ pc[t] \notin {"suspended", "ready", "run", "held"} /\ pc'[t] \notin {"suspended", "ready", "run", "held"}
    BY Zenon, <1>1, <1>2
  <2>2. \A op \in Ops : (t \in Granted(op)' <=> t \in Granted(op)) /\ (t \in Owing(op)' <=> t \in Owing(op))
    BY Zenon, <2>1 DEF Granted, Owing
  <2> QED
    BY Zenon, <2>2, SameHold
<1>8. pc'[t] # "suspended"
  BY Zenon, <1>1
<1> QED
  BY Zenon, <1>2, <1>6, <1>7, <1>8, QuietStep

\* A queue belongs to one operation.
LEMMA QueuesDiffer == \A a, b \in Ops : QueueOf(a) = QueueOf(b) => a = b
BY MQAssumption DEF Ops, QueueOf

\* The walk wins a thread: the slot that t owed is now the winner's.
LEMMA WinStep ==
  ASSUME MQInv, IInv', MQTypeOK', NEW t \in Threads, ThreadStep(t) \/ ClientStep(t) \/ SchedStep(t),
         TryUnblock(t), UNCHANGED mqvars, state[bq[cur[t]][idx[t]]] = "Blocked"
  PROVE  MQCalls'
<1>1. pc[t] = "walk" /\ UNCHANGED <<ring, slots>> /\ UNCHANGED call /\ CallInv(t)
  BY Zenon DEF TryUnblock, mqvars, MQInv, MQCalls
<1>2. PICK o \in Ops, q \in Queues :
         /\ o = Other(call[t].op) /\ call[t].op = Other(o) /\ q = QueueOf(o) /\ cur[t] = q
         /\ lock[MQLock] = t /\ bq[q] \in Seq(Threads) /\ idx[t] \in Nat /\ idx[t] >= 1
         /\ \A j \in 1..Len(bq[q]) : j < idx[t] => state[bq[q][j]] # "Blocked"
  BY Zenon, <1>1, Walks
<1>3. PICK w \in Threads : w = bq[q][idx[t]] /\ w \in Range(bq[q]) /\ state[w] = "Blocked" /\ w # t
  <2>1. idx[t] <= Len(bq[q])
    BY Zenon, <1>2 DEF TryUnblock
  <2>2. PICK w \in Threads : w = bq[q][idx[t]] /\ w \in Range(bq[q])
    BY Zenon, <1>2, <2>1, PlaceOf
  <2>3. pc[w] = "suspended" /\ pc[t] # "suspended"
    BY Zenon, <1>1, <2>2 DEF MQInv, IInv, Core, NoStaleLinks
  <2> QED
    BY Zenon, <1>2, <2>2, <2>3
<1>4. /\ pc'[t] \in {"cancelTimeout", "resume"}
      /\ bq' = [bq EXCEPT ![q] = Unlink(bq[q], w)] /\ timedOut' = timedOut /\ where' = where
  BY Zenon, <1>2, <1>3, Shapes DEF TryUnblock, Goto, info
<1>5. pc[w] = "suspended" /\ where[w] = q /\ IsInjective(bq[q]) /\ ~timedOut[w] /\ pc'[w] \in {"suspended", "ready"}
  <2>1. pc[w] = "suspended" /\ where[w] = q /\ IsInjective(bq[q])
    <3>1. NoStaleLinks
      BY Zenon DEF MQInv, IInv, Core
    <3> QED
      BY Zenon, <1>2, <1>3, <3>1 DEF NoStaleLinks
  <2>2. ~timedOut[w]
    BY Zenon, <1>3 DEF MQInv, FreshWait
  <2>3. pc'[w] = pc[w] \/ pc'[w] = "ready"
    BY Zenon, <1>3, Shapes, Bystander
  <2> QED
    BY Zenon, <2>1, <2>2, <2>3
<1>6. call[w].op = o
  <2>1. call[w].op \in Ops /\ where[w] = QueueOf(call[w].op)
    BY Zenon, <1>5 DEF MQInv, MQCalls, CallInv
  <2> QED
    BY Zenon, <1>2, <1>5, <2>1, QueuesDiffer
<1>7. w \notin Granted(o) /\ w \in Granted(o)'
  <2>0. bq[q] \in Seq(Threads) /\ IsInjective(bq[q]) /\ w \in Range(bq[q]) /\ bq'[q] = Unlink(bq[q], w)
    BY Zenon, <1>2, <1>3, <1>4, <1>5, Shapes
  <2>1. w \notin Range(bq'[q])
    <3>1. Range(Unlink(bq[q], w)) = Range(bq[q]) \ {w}
      BY Zenon, <2>0, RemoveElement
    <3> QED
      BY Zenon, <2>0, <3>1
  <2>2. pc[w] \notin {"run", "held"}
    BY Zenon, <1>5
  <2> QED
    BY Zenon, <1>1, <1>2, <1>3, <1>4, <1>5, <1>6, <2>1, <2>2 DEF Granted, OnQueue
<1>8. /\ t \in Owing(o) /\ t \notin Owing(o)' /\ t \notin Owing(Other(o)) /\ t \notin Owing(Other(o))'
      /\ \A op \in Ops : t \notin Granted(op) /\ t \notin Granted(op)'
  <2>1. /\ pc[t] \in {"walk", "missed"} /\ pc[t] \notin {"suspended", "ready", "run", "held"}
        /\ pc'[t] \notin {"walk", "missed", "suspended", "ready", "run", "held"}
    BY Zenon, <1>1, <1>4
  <2>2. call[t].op # Other(Other(o))
    BY Zenon, <1>2, TwoQueues DEF Other, Ops
  <2> QED
    BY Zenon, <1>1, <1>2, <2>1, <2>2 DEF Granted, Owing
<1>9. ASSUME NEW x \in Threads, x # t, NEW op \in Ops
      PROVE  /\ x \in Owing(op)' <=> x \in Owing(op)
             /\ x # w \/ op # o => (x \in Granted(op)' <=> x \in Granted(op))
  <2>1. op # o => QueueOf(op) # q
    BY Zenon, <1>2, TwoQueues DEF Ops
  <2>2. /\ x \in Owing(op)' <=> x \in Owing(op)
        /\ \/ x \in Granted(op)' <=> x \in Granted(op)
           \/ TryUnblock(t) /\ cur[t] = QueueOf(op) /\ x = bq[QueueOf(op)][idx[t]] /\ state[x] = "Blocked"
    BY Zenon, <1>1, <1>9, SlotStands
  <2> QED
    BY Zenon, <1>2, <1>3, <2>1, <2>2
<1>10. \A op \in Ops : Granted(op) \in SUBSET Threads /\ Granted(op)' \in SUBSET Threads
                       /\ Owing(op) \in SUBSET Threads /\ Owing(op)' \in SUBSET Threads
  BY Zenon DEF Granted, Owing
<1>11. Slots(o)' = Slots(o)
  <2>1. PICK G \in Nat, G1 \in Nat : G = Cardinality(Granted(o)) /\ G1 = Cardinality(Granted(o)') /\ G1 = G + 1
    <3>1. \A x \in Threads : x # w => (x \in Granted(o)' <=> x \in Granted(o))
      BY Zenon, <1>8, <1>9
    <3>2. /\ Cardinality(Granted(o)) \in Nat /\ Cardinality(Granted(o)') \in Nat
          /\ Cardinality(Granted(o)') + Bit(w \in Granted(o)) = Cardinality(Granted(o)) + Bit(w \in Granted(o)')
      BY Zenon, <1>10, <3>1, Toggle
    <3>3. PICK a \in Nat, b \in Nat : a = Cardinality(Granted(o)) /\ b = Cardinality(Granted(o)') /\ b + 0 = a + 1
      BY Zenon, <1>7, <3>2 DEF Bit
    <3>4. b = a + 1
      BY <3>3
    <3> QED
      BY Zenon, <3>3, <3>4
  <2>2. PICK O \in Nat, O1 \in Nat : O = Cardinality(Owing(o)) /\ O1 = Cardinality(Owing(o)') /\ O1 + 1 = O
    <3>1. /\ Cardinality(Owing(o)) \in Nat /\ Cardinality(Owing(o)') \in Nat
          /\ Cardinality(Owing(o)') + Bit(t \in Owing(o)) = Cardinality(Owing(o)) + Bit(t \in Owing(o)')
      BY Zenon, <1>9, <1>10, Toggle
    <3>2. PICK a \in Nat, b \in Nat : a = Cardinality(Owing(o)) /\ b = Cardinality(Owing(o)') /\ b + 1 = a + 0
      BY Zenon, <1>8, <3>1 DEF Bit
    <3>3. b + 1 = a
      BY <3>2
    <3> QED
      BY Zenon, <3>2, <3>3
  <2>3. PICK s \in Nat : s = slots[o] /\ s = slots'[o]
    BY Zenon, <1>1, Shapes
  <2>4. Slots(o) = s + G + O /\ Slots(o)' = s + G1 + O1
    BY Zenon, <2>1, <2>2, <2>3 DEF Slots
  <2>5. s + G + O = s + G1 + O1
    <3>1. G1 = G + 1 /\ O1 + 1 = O
      BY Zenon, <2>1, <2>2
    <3> QED
      BY <3>1
  <2> QED
    BY Zenon, <2>4, <2>5
<1>12. Slots(Other(o))' = Slots(Other(o))
  <2>1. Other(o) \in Ops /\ Other(o) # o
    BY TwoQueues DEF Other
  <2>2. Granted(Other(o))' = Granted(Other(o)) /\ Owing(Other(o))' = Owing(Other(o))
    <3>1. PICK p \in Ops : p = Other(o) /\ p # o
      BY Zenon, <2>1
    <3>2. \A x \in Threads : (x \in Granted(p)' <=> x \in Granted(p)) /\ (x \in Owing(p)' <=> x \in Owing(p))
      BY Zenon, <1>8, <1>9, <3>1
    <3>3. Granted(p)' = Granted(p) /\ Owing(p)' = Owing(p)
      BY Zenon, <3>2 DEF Granted, Owing
    <3> QED
      BY Zenon, <3>1, <3>3
  <2> QED
    BY Zenon, <1>1, <2>2 DEF Slots
<1>13. \A op \in Ops : Slots(op)' = Slots(op)
  BY Zenon, <1>11, <1>12, TwoQueues DEF Other
<1>14. ASSUME NEW op \in Ops PROVE Balanced(op)' /\ NoneWaits(op)'
  <2>1. Places(op)' = Places(op)
    BY Zenon, <1>1 DEF Places
  <2>2. Clean' => Clean
    BY Zenon, CleanBefore DEF MQInv, BSNext
  <2>3. Balanced(op)
    BY Zenon, Sides DEF MQInv, MQCalls
  <2>4. NoneWaits(op)'
    BY Zenon, <1>1, <1>4, WaitersStand
  <2> QED
    BY Zenon, <1>13, <2>1, <2>2, <2>3, <2>4 DEF Balanced
<1>15. SlotsConserved'
  BY Zenon, <1>14 DEF SlotsConserved, Ops, Places, Balanced, NoneWaits, Clean
<1>16. CallInv(t)'
  <2>1. pc'[t] \notin {"suspended", "ready", "spinTimeout", "held2", "walk", "missed", "run"} \cup CancelPC
    BY Zenon, <1>4 DEF CancelPC
  <2>2. pc'[t] \in {"walk", "missed", "cancelTimeout", "resume", "dead"} /\ call[t].op \in Ops /\ "none" \notin Ops
    BY Zenon, <1>2, <1>4, TwoQueues DEF Ops
  <2> QED
    BY Zenon, <1>1, <2>1, <2>2 DEF CallInv
<1>17. \A x \in Threads : CallInv(x)'
  BY Zenon, <1>1, <1>16, OthersStand
<1> QED
  BY Zenon, <1>15, <1>17 DEF MQCalls

\* The clock and the timer interrupt move no slot.
LEMMA TimerQuiet ==
  ASSUME MQInv, IInv', Tick \/ TimerStep, UNCHANGED mqvars
  PROVE  MQCalls'
<1>1. IInv /\ BSNext /\ UNCHANGED <<ring, slots, call>>
  BY DEF BSNext, MQInv, mqvars
<1>2. ASSUME NEW x \in Threads PROVE CallInv(x)'
  <2>1. /\ pc'[x] = pc[x] \/ (pc[x] = "suspended" /\ pc'[x] = "ready")
        /\ cur'[x] = cur[x] /\ idx'[x] = idx[x] /\ where'[x] = where[x]
    BY Zenon, <1>1, TimerBystander
  <2> QED
    BY Zenon, <1>1, <2>1, CallStands
<1>3. ASSUME NEW op \in Ops PROVE Balanced(op)' /\ NoneWaits(op)'
  <2>1. Granted(op)' = Granted(op) /\ Owing(op)' = Owing(op)
    <3>1. \A x \in Threads : (x \in Owing(op)' <=> x \in Owing(op)) /\ (x \in Granted(op)' <=> x \in Granted(op))
      BY Zenon, <1>1, TimerSlotStands
    <3> QED
      BY Zenon, <3>1 DEF Granted, Owing
  <2>2. Slots(op)' = Slots(op) /\ Places(op)' = Places(op)
    BY Zenon, <1>1, <2>1 DEF Slots, Places
  <2>3. Clean' => Clean
    BY <1>1, CleanBefore
  <2>4. Balanced(op) /\ NoneWaits(op)
    BY Sides DEF MQInv, MQCalls
  <2>5. PICK q \in Queues : q = QueueOf(op) /\ q # None
    BY TwoQueues, ConstantsAssumption
  <2>6. ASSUME NEW x \in Range(bq'[q]), state'[x] = "Blocked" PROVE x \in Range(bq[q]) /\ state[x] = "Blocked"
    <3>0. bq'[q] \in Seq(Threads) /\ where'[x] = q
      BY Zenon, <2>6 DEF IInv, Core, NoStaleLinks, TypeOK
    <3>1. x \in Threads /\ where'[x] = q
      BY <2>6, <3>0 DEF Range
    <3>2. state[x] = "Blocked" /\ where[x] = q
      BY Zenon, <1>1, <2>6, <3>1, TimerBystander
    <3> QED
      BY Zenon, <2>5, <3>1, <3>2 DEF MQInv, IInv, Core, BlockedIsLinked, OnQueue
  <2>7. NoneWaits(op)'
    BY Zenon, <1>1, <2>4, <2>5, <2>6 DEF NoneWaits
  <2> QED
    BY Zenon, <2>2, <2>3, <2>4, <2>7 DEF Balanced
<1>4. SlotsConserved'
  BY Zenon, <1>3 DEF SlotsConserved, Ops, Places, Balanced, NoneWaits, Clean
<1> QED
  BY <1>2, <1>4 DEF MQCalls

-----------------------------------------------------------------------------
\* Whoever transfers an element has a slot for it: the push finds a free place
\* and the pop an element.
LEMMA SlotIsReal ==
  ASSUME MQInv, NEW t \in Threads, Transfer(t)
  PROVE  /\ call[t].op = "send" => ring.count < Size
         /\ call[t].op = "recv" => ring.count > 0
<1>1. PICK o \in Ops : o = call[t].op /\ pc[t] = "held" /\ (call[t].granted \/ slots[o] > 0)
  BY Zenon DEF Transfer, TakeSlot, InCall
<1>2. PICK G \in Nat, O \in Nat, s \in Nat :
        G = Cardinality(Granted(o)) /\ O = Cardinality(Owing(o)) /\ s = slots[o]
  <2>1. IsFiniteSet(Granted(o)) /\ IsFiniteSet(Owing(o))
    BY Zenon, MQAssumption, FS_Subset DEF Granted, Owing
  <2> QED
    BY <2>1, FS_CardinalityType, Shapes
<1>3. call[t].granted => G # 0
  <2>1. ASSUME call[t].granted PROVE Granted(o) # {} /\ IsFiniteSet(Granted(o))
    BY Zenon, <1>1, <2>1, MQAssumption, FS_Subset DEF Granted
  <2> QED
    BY <1>2, <2>1, FS_EmptySet
<1>4. Slots(o) = s + G + O /\ Slots(o) <= Places(o)
  BY Zenon, <1>2, Sides DEF Slots, MQInv, MQCalls, Balanced
<1>5. ring.count \in 0..Size /\ Size \in Nat
  BY SizeAssumption DEF MQInv, MQTypeOK, Rings
<1>6. s + G + O <= Places(o) /\ s + G + O > 0
  BY <1>1, <1>2, <1>3, <1>4
<1> QED
  BY <1>1, <1>2, <1>5, <1>6 DEF Places, Ops

\* push writes inside the array.
LEMMA PushTypes ==
  ASSUME NEW r \in Rings, r.count < Size, NEW m \in Messages
  PROVE  Push(r, m) \in Rings
<1>1. PICK n \in 0..Size - 1, c \in 0..Size, a \in [0..Size - 1 -> Messages \cup {Blank}] :
        r = [next |-> n, count |-> c, array |-> a]
  BY DEF Rings
<1>2. (n + c) % Size \in 0..Size - 1 /\ c + 1 \in 0..Size
  BY <1>1, SizeAssumption
<1> QED
  BY Zenon, <1>1, <1>2 DEF Push, Rings

\* pop stays inside the array.
LEMMA PopTypes ==
  ASSUME NEW r \in Rings, r.count > 0
  PROVE  Pop(r) \in Rings /\ RingFront(r) \in Messages \cup {Blank}
<1>1. PICK n \in 0..Size - 1, c \in 0..Size, a \in [0..Size - 1 -> Messages \cup {Blank}] :
        r = [next |-> n, count |-> c, array |-> a]
  BY Zenon DEF Rings
<1>2. (n + 1) % Size \in 0..Size - 1 /\ c - 1 \in 0..Size
  BY <1>1, SizeAssumption
<1> QED
  BY Zenon, <1>1, <1>2 DEF Pop, RingFront, Rings

\* What a call forgets of its parameters.
LEMMA ForgetTypes ==
  ASSUME NEW c \in Calls
  PROVE  [c EXCEPT !.timeout = 0] \in Calls /\ [c EXCEPT !.elem = Blank, !.timeout = 0] \in Calls
<1>1. 0 \in Timeouts
  BY ConstantsAssumption DEF Timeouts
<1> QED
  BY Zenon, <1>1 DEF Calls

\* The types are kept.
LEMMA MQTypes ==
  ASSUME MQInv, [MQNext]_vars
  PROVE  MQTypeOK'
<1>1. /\ ring \in Rings /\ slots \in [Ops -> Nat] /\ call \in [Threads -> Calls]
      /\ got \in [Threads -> Messages \cup {Blank}] /\ Idle \in Calls
  BY ConstantsAssumption DEF MQInv, MQTypeOK, Calls, Idle, Timeouts
<1>2. ASSUME NEW t \in Threads, Leaves(t)
      PROVE  call' \in [Threads -> Calls] /\ got' \in [Threads -> Messages \cup {Blank}]
  BY <1>1, <1>2 DEF Leaves
<1>3. ASSUME NEW t \in Threads, Forget(t) PROVE call' \in [Threads -> Calls]
  <2>1. [call[t] EXCEPT !.timeout = 0] \in Calls
    BY Zenon, <1>1, ForgetTypes
  <2> QED
    BY <1>1, <1>3, <2>1 DEF Forget
<1>4. ASSUME NEW t \in Threads, Transfer(t) PROVE MQTypeOK'
  <2>1. call[t].op \in Ops /\ (call[t].op = "send" => call[t].elem \in Messages)
    BY Zenon, <1>4 DEF Transfer, TakeSlot, InCall, MQInv, MQCalls, CallInv
  <2>2. slots' \in [Ops -> Nat]
    BY <1>1, <1>4, <2>1 DEF Transfer, TakeSlot
  <2>3. call' \in [Threads -> Calls]
    <3>1. call' = [call EXCEPT ![t].elem = Blank, ![t].timeout = 0]
      BY <1>4 DEF Transfer
    <3>2. [call[t] EXCEPT !.elem = Blank, !.timeout = 0] \in Calls
      BY Zenon, <1>1, ForgetTypes
    <3> QED
      BY <1>1, <3>1, <3>2
  <2>4. ring' \in Rings /\ got' \in [Threads -> Messages \cup {Blank}]
    <3>1. CASE call[t].op = "send"
      <4>1. Push(ring, call[t].elem) \in Rings
        BY Zenon, <1>1, <1>4, <2>1, <3>1, PushTypes, SlotIsReal
      <4>2. ring' = Push(ring, call[t].elem) /\ UNCHANGED got
        BY Zenon, <1>4, <3>1 DEF Transfer
      <4> QED
        BY <1>1, <4>1, <4>2
    <3>2. CASE call[t].op = "recv"
      <4>1. Pop(ring) \in Rings /\ RingFront(ring) \in Messages \cup {Blank}
        BY Zenon, <1>1, <1>4, <3>2, PopTypes, SlotIsReal
      <4>2. ring' = Pop(ring) /\ got' = [got EXCEPT ![t] = RingFront(ring)]
        BY Zenon, <1>4, <3>2 DEF Transfer
      <4> QED
        BY <1>1, <4>1, <4>2
    <3> QED
      BY Zenon, <2>1, <3>1, <3>2 DEF Ops
  <2> QED
    BY <2>2, <2>3, <2>4 DEF MQTypeOK
<1>5. ASSUME NEW t \in Threads, Miss(t) PROVE MQTypeOK'
  <2>1. PICK p \in Ops : slots' = [slots EXCEPT ![p] = @ + 1]
    BY Zenon, <1>5, TwoQueues DEF Miss, InCall
  <2>2. slots' \in [Ops -> Nat]
    BY <1>1, <2>1
  <2> QED
    BY Zenon, <1>1, <1>2, <1>5, <2>2 DEF Miss, MQTypeOK
<1>6. ASSUME NEW t \in Threads, NEW op \in Ops, NEW m \in Messages \cup {Blank}, NEW d \in Timeouts, Call(t, op, m, d)
      PROVE  MQTypeOK'
  <2>1. call' \in [Threads -> Calls]
    BY Zenon, <1>1, <1>6 DEF Call, Calls
  <2> QED
    BY <1>1, <1>6, <2>1 DEF Call, MQTypeOK
<1>7. ASSUME NEW t \in Threads, Wait(t) \/ WaitTimed(t) PROVE MQTypeOK'
  BY Zenon, <1>1, <1>2, <1>3, <1>7 DEF Wait, WaitTimed, MQTypeOK
<1>8. ASSUME NEW t \in Threads, Return(t) PROVE MQTypeOK'
  <2>1. call' \in [Threads -> Calls] /\ got' \in [Threads -> Messages \cup {Blank}]
    <3>1. CASE Leaves(t)
      BY Zenon, <1>2, <3>1
    <3>2. CASE call' = [call EXCEPT ![t].granted = TRUE] /\ UNCHANGED got
      BY Zenon, <1>1, <3>2 DEF Calls
    <3> QED
      BY Zenon, <1>8, <3>1, <3>2 DEF Return
  <2> QED
    BY Zenon, <1>1, <1>8, <2>1 DEF Return, MQTypeOK
<1>9. ASSUME NEW t \in Threads, WakeOther(t) \/ Finishes(t) PROVE MQTypeOK'
  BY Zenon, <1>1, <1>2, <1>9 DEF WakeOther, Finishes, MQTypeOK
<1>10. ASSUME UNCHANGED mqvars PROVE MQTypeOK'
  BY Zenon, <1>1, <1>10 DEF mqvars, MQTypeOK
<1>11. ASSUME NEW t \in Threads, Relock(t) PROVE MQTypeOK'
  BY Zenon, <1>10, <1>11 DEF Relock
<1>12. "send" \in Ops /\ "recv" \in Ops /\ Messages \subseteq Messages \cup {Blank} /\ Blank \in Messages \cup {Blank}
  BY DEF Ops
<1>13. ASSUME MQNext PROVE MQTypeOK'
  BY Zenon, <1>4, <1>5, <1>6, <1>7, <1>8, <1>9, <1>10, <1>11, <1>12, <1>13 DEF MQNext, Working
<1> QED
  BY Zenon, <1>10, <1>13 DEF vars

\* The invariant is inductive.
LEMMA MQInvStep ==
  ASSUME MQInv, [MQNext]_vars
  PROVE  MQInv'
<1>1. [BSNext]_bsvars /\ IInv /\ LockInv /\ FreshWait
  BY MQIsClient DEF MQInv
<1>2. IInv' /\ LockInv' /\ FreshWait'
  BY <1>1, InductiveStep, LockInvStep, FreshWaitStep
<1>3. MQTypeOK'
  BY MQTypes
<1>4. ASSUME UNCHANGED vars PROVE MQCalls'
  <2>1. UNCHANGED <<call, slots, ring, state, pc, bq, timedOut, cur, idx, where>>
    BY <1>4 DEF vars, bsvars, mqvars
  <2>2. \A x \in Threads : CallInv(x)'
    BY Zenon, <1>1, <2>1, CallStands
  <2>3. \A op \in Ops : Granted(op)' = Granted(op) /\ Owing(op)' = Owing(op)
    BY Zenon, <2>1 DEF Granted, Owing, OnQueue
  <2>4. \A op \in Ops : Slots(op)' = Slots(op)
    BY Zenon, <2>1, <2>3 DEF Slots
  <2>5. Slots("send")' = Slots("send") /\ Slots("recv")' = Slots("recv")
    BY <2>4 DEF Ops
  <2>6. SlotsConserved'
    BY Zenon, <2>1, <2>5 DEF SlotsConserved, MQInv, MQCalls
  <2> QED
    BY <2>2, <2>6 DEF MQCalls
<1>5. ASSUME NEW t \in Threads, Working(t) PROVE MQCalls'
  <2>1. ThreadStep(t) \/ ClientStep(t) \/ SchedStep(t)
    BY Zenon, <1>5, WorkingIsClient
  <2>2. ASSUME Inside(t), UNCHANGED mqvars PROVE MQCalls'
    BY Zenon, <1>2, <1>3, <2>1, <2>2, InsideSteps, WinStep, WalkOnStep
  <2> QED
    BY Zenon, <1>2, <1>3, <1>5, <2>1, <2>2, WaitSteps, ReturnStep, TransferStep, MissStep, OutsideSteps DEF Working
<1>6. ASSUME NEW t \in Threads,
             \/ \E d \in Timeouts : (\E m \in Messages : Call(t, "send", m, d)) \/ Call(t, "recv", Blank, d)
             \/ Relock(t) \/ Finishes(t) \/ (call[t] = Idle /\ ExitStep(t) /\ UNCHANGED mqvars)
      PROVE  MQCalls'
  <2>1. ThreadStep(t) \/ ClientStep(t) \/ SchedStep(t)
    BY Zenon, <1>6, OutsideIsClient, TwoQueues
  <2> QED
    BY Zenon, <1>2, <1>3, <1>6, <2>1, EnterSteps, OutsideSteps
<1>7. ASSUME MQNext PROVE MQCalls'
  BY Zenon, <1>2, <1>5, <1>6, <1>7, TimerQuiet DEF MQNext
<1> QED
  BY Zenon, <1>2, <1>3, <1>4, <1>7 DEF MQInv

\* It holds in a new message queue.
LEMMA MQInitially == MQInit => MQInv
<1> SUFFICES ASSUME MQInit PROVE MQInv
  BY Zenon
<1>1. BSInit /\ Size \in Nat \ {0}
  BY SizeAssumption DEF MQInit
<1>2. IInv
  BY <1>1, InitialStates
<1>3. LockInv /\ FreshWait
  BY Zenon, <1>1, ConstantsAssumption DEF BSInit, LockInv, FreshWait, Actors, CancelPC
<1>4. MQTypeOK
  BY <1>1, ConstantsAssumption DEF MQInit, MQTypeOK, Rings, EmptyRing, Calls, Idle, Timeouts, Ops
<1>5. \A t \in Threads : pc[t] = "run" /\ call[t].op = "none" /\ ~call[t].granted
  BY Zenon, <1>1 DEF MQInit, BSInit, Idle, Actors
<1>6. \A t \in Threads : CallInv(t)
  BY Zenon, <1>5 DEF CallInv, CancelPC, Ops
<1>7. \A op \in Ops : Granted(op) = {} /\ Owing(op) = {}
  BY Zenon, <1>5 DEF Granted, Owing, Ops, Other
<1>8. Slots("recv") = 0 /\ Slots("send") = Size
  BY <1>1, <1>7, FS_EmptySet DEF MQInit, Slots, Ops
<1>9. \A op \in Ops : bq[QueueOf(op)] = <<>>
  BY Zenon, <1>1, TwoQueues DEF BSInit
<1>10. SlotsConserved
  BY <1>1, <1>8, <1>9 DEF MQInit, EmptyRing, SlotsConserved, Range
<1> QED
  BY Zenon, <1>2, <1>3, <1>4, <1>6, <1>10 DEF MQInv, MQCalls

\* The invariant of the message queue, for any number of threads and any
\* capacity.
THEOREM MQInvariance == MQSpec => []MQInv
<1>1. MQInv /\ [MQNext]_vars => MQInv'
  BY MQInvStep
<1> QED
  BY <1>1, MQInitially, PTL DEF MQSpec

\* Every step of the message queue is one the blocking machinery offers, so what
\* is proved of the machinery holds under send() and recv().
THEOREM MQUsesBlockingSync == MQSpec => BSSpec
<1>1. MQInv /\ [MQNext]_vars => [BSNext]_bsvars
  BY MQIsClient
<1>2. MQInit => BSInit
  BY DEF MQInit
<1> QED
  BY <1>1, <1>2, MQInvariance, PTL DEF MQSpec, BSSpec

\* Slots are conserved: one receive slot per element and one send slot per free
\* place, passed on or counted, unless a cancelled thread took one with it
\* (SyncQueues.h:32-63).
THEOREM SlotsConservedHolds == MQSpec => []SlotsConserved
<1>1. MQInv => SlotsConserved
  BY DEF MQInv, MQCalls
<1> QED
  BY <1>1, MQInvariance, PTL

-----------------------------------------------------------------------------
(* The queue implements the channel. *)

\* Indices that differ by less than the capacity are different cells.
LEMMA CellsDiffer ==
  ASSUME NEW n \in 0..Size - 1, NEW c \in 0..Size - 1, NEW i \in 0..Size - 1, i < c
  PROVE  (n + i) % Size # (n + c) % Size
<1>1. Size \in Nat \ {0}
  BY SizeAssumption
<1>2. (n + i) % Size = IF n + i < Size THEN n + i ELSE n + i - Size
  BY <1>1
<1>3. (n + c) % Size = IF n + c < Size THEN n + c ELSE n + c - Size
  BY <1>1
<1> QED
  BY <1>1, <1>2, <1>3

\* push appends.
LEMMA PushAppends ==
  ASSUME NEW r \in Rings, r.count < Size, NEW m \in Messages
  PROVE  Contents(Push(r, m)) = Append(Contents(r), m) /\ Len(Contents(r)) < Size
<1>1. PICK n \in 0..Size - 1, c \in 0..Size - 1, a \in [0..Size - 1 -> Messages \cup {Blank}] :
        r = [next |-> n, count |-> c, array |-> a]
  BY SizeAssumption DEF Rings
<1>2. PICK k \in 0..Size - 1 : k = (n + c) % Size
  BY <1>1, SizeAssumption
<1>3. Push(r, m).next = n /\ Push(r, m).count = c + 1 /\ Push(r, m).array = [a EXCEPT ![k] = m]
  <2>1. r.next = n /\ r.count = c /\ r.array = a /\ DOMAIN r = {"next", "count", "array"}
    BY Zenon, <1>1
  <2> QED
    BY <1>2, <2>1 DEF Push
<1>4. Contents(r) = [i \in 1..c |-> a[(n + i - 1) % Size]]
  BY <1>1 DEF Contents
<1>5. Contents(Push(r, m)) = [i \in 1..c + 1 |-> [a EXCEPT ![k] = m][(n + i - 1) % Size]]
  BY <1>3 DEF Contents
<1>6. ASSUME NEW i \in 1..c PROVE (n + i - 1) % Size \in 0..Size - 1 /\ (n + i - 1) % Size # k
  <2>1. i - 1 \in 0..Size - 1 /\ i - 1 < c /\ n + i - 1 = n + (i - 1)
    BY <1>1, SizeAssumption
  <2>2. (n + (i - 1)) % Size # k
    BY <1>2, <2>1, CellsDiffer
  <2> QED
    BY <2>1, <2>2, SizeAssumption
<1>7. \A i \in 1..c : [a EXCEPT ![k] = m][(n + i - 1) % Size] = a[(n + i - 1) % Size]
  BY Zenon, <1>6
<1>8. [a EXCEPT ![k] = m][(n + (c + 1) - 1) % Size] = m
  <2>1. n + (c + 1) - 1 = n + c
    BY <1>1
  <2> QED
    BY <1>2, <2>1
<1>9. \A i \in 1..c : a[(n + i - 1) % Size] \in Messages \cup {Blank}
  BY Zenon, <1>6
<1>10. Contents(r) \in Seq(Messages \cup {Blank}) /\ Len(Contents(r)) = c
  BY <1>4, <1>9
<1>11. PICK s \in Seq(Messages \cup {Blank}), u \in {Contents(Push(r, m))} :
         s = Contents(r) /\ Len(s) = c /\ u = Contents(Push(r, m))
  BY <1>10
<1>12. \A i \in 1..c : u[i] = s[i]
  <2>1. \A i \in 1..c : i \in 1..c + 1
    BY <1>1
  <2> QED
    BY Zenon, <1>4, <1>5, <1>7, <1>11, <2>1
<1>13. u[c + 1] = m /\ DOMAIN u = 1..c + 1 /\ u = [i \in 1..c + 1 |-> u[i]]
  <2>1. c + 1 \in 1..c + 1
    BY <1>1
  <2> QED
    BY Zenon, <1>5, <1>8, <1>11, <2>1
<1>14. u = Append(s, m)
  <2> DEFINE M == Messages \cup {Blank}
  <2>1. /\ Append(s, m) \in Seq(M) /\ Len(Append(s, m)) = c + 1
        /\ \A i \in 1..c : Append(s, m)[i] = s[i]
        /\ Append(s, m)[c + 1] = m
    BY <1>11, SeqAppend
  <2>2. \A i \in 1..c + 1 : i \in 1..c \/ i = c + 1
    BY <1>1
  <2>3. \A i \in 1..c + 1 : u[i] = Append(s, m)[i]
    BY Zenon, <1>12, <1>13, <2>1, <2>2
  <2>4. \A i \in 1..c + 1 : u[i] \in M
    <3>1. \A i \in 1..c : s[i] \in M
      BY <1>11
    <3> QED
      BY Zenon, <1>12, <1>13, <2>2, <3>1
  <2>5. u \in Seq(M) /\ Len(u) = c + 1
    BY <1>1, <1>13, <2>4
  <2> HIDE DEF M
  <2> QED
    BY Zenon, <2>1, <2>3, <2>5, SeqSame
<1> QED
  BY <1>1, <1>11, <1>14, SizeAssumption

\* pop takes the head, which is what front returns.
LEMMA PopTails ==
  ASSUME NEW r \in Rings, r.count > 0
  PROVE  /\ Contents(r) # <<>> /\ RingFront(r) = Head(Contents(r))
         /\ Contents(Pop(r)) = Tail(Contents(r))
<1>1. PICK n \in 0..Size - 1, c \in 1..Size, a \in [0..Size - 1 -> Messages \cup {Blank}] :
        r = [next |-> n, count |-> c, array |-> a]
  BY SizeAssumption DEF Rings
<1>2. Pop(r).next = (n + 1) % Size /\ Pop(r).count = c - 1 /\ Pop(r).array = a
  <2>1. r.next = n /\ r.count = c /\ r.array = a /\ DOMAIN r = {"next", "count", "array"}
    BY <1>1
  <2> QED
    BY <2>1 DEF Pop
<1>3. Contents(r) = [i \in 1..c |-> a[(n + i - 1) % Size]]
  BY <1>1 DEF Contents
<1>4. Contents(Pop(r)) = [i \in 1..c - 1 |-> a[(((n + 1) % Size) + i - 1) % Size]]
  BY <1>2 DEF Contents
<1>5. \A i \in 1..c : a[(n + i - 1) % Size] \in Messages \cup {Blank}
  BY <1>1, SizeAssumption
<1>6. Contents(r) \in Seq(Messages \cup {Blank}) /\ Len(Contents(r)) = c
  BY <1>3, <1>5
<1>7. RingFront(r) = Head(Contents(r))
  <2>1. (n + 1 - 1) % Size = n
    BY <1>1, SizeAssumption
  <2> QED
    BY <1>1, <1>3, <1>6, <2>1 DEF RingFront
<1>8. ASSUME NEW i \in 1..c - 1 PROVE (((n + 1) % Size) + i - 1) % Size = (n + (i + 1) - 1) % Size
  <2>1. Size \in Nat \ {0} /\ i \in 1..Size - 1
    BY <1>1, SizeAssumption
  <2>2. (n + 1) % Size = IF n + 1 = Size THEN 0 ELSE n + 1
    BY <1>1, <2>1
  <2>3. CASE n + 1 = Size
    <3>1. ((n + 1) % Size) + i - 1 = i - 1 /\ n + (i + 1) - 1 = Size + (i - 1)
      BY <2>1, <2>2, <2>3
    <3>2. (i - 1) % Size = i - 1 /\ (Size + (i - 1)) % Size = i - 1
      BY <2>1
    <3> QED
      BY <3>1, <3>2
  <2>4. CASE n + 1 # Size
    <3>1. ((n + 1) % Size) + i - 1 = n + (i + 1) - 1
      BY <1>1, <2>1, <2>2, <2>4
    <3> QED
      BY <3>1
  <2> QED
    BY <2>3, <2>4
<1>9. Tail(Contents(r)) = [i \in 1..c - 1 |-> Contents(r)[i + 1]]
  <2>1. PICK s \in Seq(Messages \cup {Blank}) : s = Contents(r) /\ Len(s) = c
    BY <1>6
  <2>2. Tail(s) = [i \in 1..c - 1 |-> s[i + 1]]
    BY <1>1, <2>1
  <2> QED
    BY <2>1, <2>2
<1>10. \A i \in 1..c - 1 : Contents(r)[i + 1] = a[(n + (i + 1) - 1) % Size]
  BY <1>3
<1>11. Contents(Pop(r)) = Tail(Contents(r))
  BY Zenon, <1>4, <1>8, <1>9, <1>10
<1> QED
  BY <1>6, <1>7, <1>11

\* Every step of the message queue sends one element, receives one, hands a
\* received one over, or is invisible to the channel's users.
LEMMA ChannelStep ==
  ASSUME MQInv, [MQNext]_vars
  PROVE  [Channel!CNext]_<<Contents(ring), got>>
<1> DEFINE Goal == [Channel!CNext]_<<Contents(ring), got>>
<1>1. ASSUME UNCHANGED <<ring, got>> PROVE Goal
  BY <1>1
<1>2. ASSUME NEW t \in Threads, Leaves(t), UNCHANGED ring PROVE Goal
  <2>1. Channel!Consume(t)
    BY <1>2 DEF Leaves, Channel!Consume
  <2> QED
    BY Zenon, <2>1 DEF Channel!CNext
<1>3. ASSUME NEW t \in Threads, Transfer(t) PROVE Goal
  <2>1. call[t].op \in Ops /\ ring \in Rings
    BY <1>3, Shapes DEF Transfer, TakeSlot, InCall
  <2>2. CASE call[t].op = "send"
    <3>1. call[t].elem \in Messages
      BY <1>3, <2>2 DEF Transfer, TakeSlot, MQInv, MQCalls, CallInv
    <3>2. ring' = Push(ring, call[t].elem) /\ UNCHANGED got
      BY <1>3, <2>2 DEF Transfer
    <3>3. Contents(ring') = Append(Contents(ring), call[t].elem) /\ Len(Contents(ring)) < Size
      BY <1>3, <2>1, <2>2, <3>1, <3>2, SlotIsReal, PushAppends
    <3>4. Channel!Send(call[t].elem)
      BY Zenon, <3>2, <3>3 DEF Channel!Send
    <3> QED
      BY Zenon, <3>1, <3>4 DEF Channel!CNext
  <2>3. CASE call[t].op = "recv"
    <3>1. ring' = Pop(ring) /\ got' = [got EXCEPT ![t] = RingFront(ring)]
      BY <1>3, <2>3 DEF Transfer
    <3>2. /\ Contents(ring) # <<>> /\ RingFront(ring) = Head(Contents(ring))
          /\ Contents(ring') = Tail(Contents(ring))
      BY Zenon, <1>3, <2>1, <2>3, <3>1, SlotIsReal, PopTails
    <3>3. Channel!Recv(t)
      BY Zenon, <3>1, <3>2 DEF Channel!Recv
    <3> QED
      BY Zenon, <3>3 DEF Channel!CNext
  <2> QED
    BY <2>1, <2>2, <2>3 DEF Ops
<1>4. ASSUME NEW t \in Threads, Wait(t) \/ WaitTimed(t) PROVE Goal
  BY Zenon, <1>1, <1>2, <1>4 DEF Wait, WaitTimed
<1>5. ASSUME NEW t \in Threads, Return(t) \/ Miss(t) \/ WakeOther(t) \/ Finishes(t) PROVE Goal
  BY Zenon, <1>1, <1>2, <1>5 DEF Return, Miss, WakeOther, Finishes
<1>6. ASSUME UNCHANGED mqvars PROVE Goal
  BY Zenon, <1>1, <1>6 DEF mqvars
<1>7. ASSUME NEW t \in Threads, Relock(t) PROVE Goal
  BY Zenon, <1>6, <1>7 DEF Relock
<1>8. ASSUME NEW t \in Threads, NEW op, NEW m, NEW d, Call(t, op, m, d) PROVE Goal
  BY Zenon, <1>1, <1>8 DEF Call
<1>9. ASSUME MQNext PROVE Goal
  BY Zenon, <1>3, <1>4, <1>5, <1>6, <1>7, <1>8, <1>9 DEF MQNext, Working
<1> QED
  BY Zenon, <1>6, <1>9 DEF vars

\* The message queue is a bounded first-in first-out channel: no element is lost,
\* duplicated, overwritten or overtaken, whatever its callers, the timer and a
\* cancelling process do (SyncQueues.h:32-63, Buffers.h).
THEOREM ChannelImplements == MQSpec => ImplementsChannel
<1>1. MQInit => Channel!CInit
  <2> SUFFICES ASSUME MQInit PROVE Channel!CInit
    OBVIOUS
  <2>1. ring.count = 0
    BY DEF MQInit, EmptyRing
  <2>2. Contents(ring) = <<>>
    BY <2>1 DEF Contents
  <2> QED
    BY <2>2 DEF MQInit, Channel!CInit
<1>2. MQInv /\ [MQNext]_vars => [Channel!CNext]_<<Contents(ring), got>>
  BY ChannelStep
<1> QED
  BY <1>1, <1>2, MQInvariance, PTL DEF MQSpec, ImplementsChannel, Channel!CSpec
=============================================================================
