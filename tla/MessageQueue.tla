---------------------------- MODULE MessageQueue ----------------------------
(***************************************************************************)
(* MessageQueue (runtime/SyncQueues.h): a ring buffer with a sendQueue and *)
(* a recvQueue under one lock.  A slot is a right to push or to pop one    *)
(* element; whoever finishes a push or a pop passes the opposite slot to a *)
(* thread waiting for it, or counts it.  A thread that was passed a slot   *)
(* takes the lock again before it uses it, so other calls come in between. *)
(***************************************************************************)
EXTENDS BlockingSync, RingBuffer

CONSTANTS SendQueue, RecvQueue, MQLock,
          Messages

VARIABLES ring,   \* buffer
          slots,  \* sendSlots, recvSlots
          call,   \* the call a thread is in
          got     \* the element a thread has received and not yet returned

ASSUME MQAssumption ==
  /\ Queues = {SendQueue, RecvQueue} /\ SendQueue # RecvQueue
  /\ LockOf = [q \in Queues |-> MQLock]
  /\ Blank \notin Messages
  /\ IsFiniteSet(Threads)

mqvars == <<ring, slots, call, got>>
vars == <<bsvars, mqvars>>

Ops == {"send", "recv"}
Other(op) == IF op = "send" THEN "recv" ELSE "send"
QueueOf(op) == IF op = "send" THEN SendQueue ELSE RecvQueue
Timeouts == {None} \cup 0..MaxTime   \* None: limit<mword>(), wait for ever
Idle == [op |-> "none", elem |-> Blank, timeout |-> 0, granted |-> FALSE]

MQInit ==
  /\ BSInit
  /\ ring = EmptyRing
  /\ slots = [send |-> Size, recv |-> 0]
  /\ call = [t \in Threads |-> Idle]
  /\ got = [t \in Threads |-> Blank]

\* The call returns; an element received goes to the caller.
Leaves(t) ==
  /\ call' = [call EXCEPT ![t] = Idle]
  /\ got' = [got EXCEPT ![t] = Blank]
InCall(t) == call[t].op \in Ops

\* The timeout parameter is not read after block().
Forget(t) == call' = [call EXCEPT ![t].timeout = 0]

-----------------------------------------------------------------------------
\* send, trySend, recv, tryRecv: internalSend and internalRecv take the lock.
Call(t, op, elem, timeout) ==
  /\ call[t] = Idle
  /\ Acquire(t, MQLock)
  /\ call' = [call EXCEPT ![t] = [op |-> op, elem |-> elem, timeout |-> timeout, granted |-> FALSE]]
  /\ UNCHANGED <<ring, slots, got>>

\* No slot: BlockingQueue::block decides by the timeout.
Wait(t) ==
  LET q == QueueOf(call[t].op) IN
  /\ InCall(t) /\ pc[t] = "held" /\ ~call[t].granted
  /\ slots[call[t].op] = 0
  /\ \/ call[t].timeout = 0 /\ Release(t, MQLock) /\ Leaves(t)
     \/ /\ call[t].timeout = None /\ Block(t, q)
        /\ IF MayBlock(t) THEN Forget(t) /\ UNCHANGED got ELSE Leaves(t)
     \/ /\ call[t].timeout \notin {0, None}
        /\ StartTimedBlock(t, q, call[t].timeout)
        /\ Forget(t) /\ UNCHANGED got
  /\ UNCHANGED <<ring, slots>>

WaitTimed(t) ==
  /\ TimedBlock(t)
  /\ IF MayBlock(t) THEN UNCHANGED <<call, got>> ELSE Leaves(t)
  /\ UNCHANGED <<ring, slots>>

\* Mutant: a thread that was passed a slot starts over.
Return_StartsOver(t) ==
  /\ Dispatch(t)
  /\ IF state[t] = "Cancelled" \/ timedOut[t] THEN Leaves(t) ELSE UNCHANGED <<call, got>>
  /\ UNCHANGED <<ring, slots>>

\* block() returns; true means that a slot was passed.
Return(t) ==
  /\ Dispatch(t)
  /\ IF state[t] = "Cancelled" \/ timedOut[t]
     THEN Leaves(t)
     ELSE call' = [call EXCEPT ![t].granted = TRUE] /\ UNCHANGED got
  /\ UNCHANGED <<ring, slots>>

\* The second lock.acquire().
Relock(t) ==
  /\ InCall(t)
  /\ Acquire(t, MQLock)
  /\ UNCHANGED mqvars

\* A slot that was passed on, or one from the counter.
TakeSlot(t) ==
  LET op == call[t].op IN
  /\ InCall(t) /\ pc[t] = "held"
  /\ \/ call[t].granted /\ UNCHANGED slots
     \/ ~call[t].granted /\ slots[op] > 0 /\ slots' = [slots EXCEPT ![op] = @ - 1]

\* push or front/pop, and the start of resume() on the other queue.
Transfer(t) ==
  LET op == call[t].op IN
  /\ TakeSlot(t)
  /\ \/ op = "send" /\ ring' = Push(ring, call[t].elem) /\ UNCHANGED got
     \/ op = "recv" /\ ring' = Pop(ring) /\ got' = [got EXCEPT ![t] = RingFront(ring)]
  /\ call' = [call EXCEPT ![t].elem = Blank, ![t].timeout = 0]
  /\ StartResume(t, QueueOf(Other(op)))

\* Mutant: the slot is counted for the side that has just used one.
Miss_SameSide(t) ==
  LET op == call[t].op IN
  /\ InCall(t) /\ pc[t] = "missed"
  /\ slots' = [slots EXCEPT ![op] = @ + 1]
  /\ Release(t, MQLock)
  /\ Leaves(t)
  /\ UNCHANGED ring

\* Baton not passed: count the slot.
Miss(t) ==
  LET op == call[t].op IN
  /\ InCall(t) /\ pc[t] = "missed"
  /\ slots' = [slots EXCEPT ![Other(op)] = @ + 1]
  /\ Release(t, MQLock)
  /\ Leaves(t)
  /\ UNCHANGED ring

\* Baton passed.
WakeOther(t) ==
  /\ InCall(t)
  /\ Wake(t, "resume", "run")
  /\ Leaves(t)
  /\ UNCHANGED <<ring, slots>>

-----------------------------------------------------------------------------
\* Steps of the machinery that return to no caller.
Inside(t) ==
  \/ AcquireTimeoutLock(t)
  \/ TryUnblock(t)
  \/ ResumeMisses(t)
  \/ CancelTimeout(t, "cancelTimeout", "resume")
  \/ CancelTimeout(t, "xCancelTimeout", AfterTimeout(victim[t]))
  \/ CancelBlocking(t)
  \/ Wake(t, "xResume", "held")

Finishes(t) ==
  /\ FinishCancelled(t) \/ (call[t] = Idle /\ Terminate(t))
  /\ Leaves(t)
  /\ UNCHANGED <<ring, slots>>

Working(t) ==
  \/ Wait(t) \/ WaitTimed(t) \/ Return(t)
  \/ Transfer(t) \/ Miss(t) \/ WakeOther(t)
  \/ Inside(t) /\ UNCHANGED mqvars

MQNext ==
  \/ \E t \in Threads :
       \/ \E d \in Timeouts :
            \/ \E m \in Messages : Call(t, "send", m, d)
            \/ Call(t, "recv", Blank, d)
       \/ Relock(t)
       \/ Working(t)
       \/ Finishes(t)
       \/ call[t] = Idle /\ ExitStep(t) /\ UNCHANGED mqvars
  \/ (Tick \/ TimerStep) /\ UNCHANGED mqvars

MQSpec == MQInit /\ [][MQNext]_vars

-----------------------------------------------------------------------------
(* Properties. *)

\* Threads that have been passed a slot and have not used it yet.
Granted(op) ==
  {t \in Threads :
     /\ call[t].op = op
     /\ \/ pc[t] \in {"suspended", "ready"} /\ ~OnQueue(QueueOf(op), t) /\ ~timedOut[t]
        \/ call[t].granted /\ pc[t] \in {"run", "held"}}

\* Threads that have used a slot and still owe the opposite one.
Owing(op) == {t \in Threads : call[t].op = Other(op) /\ pc[t] \in {"walk", "missed"}}

Slots(op) == slots[op] + Cardinality(Granted(op)) + Cardinality(Owing(op))

\* Slots are conserved while they are passed between senders, receivers and
\* the counters: there is one receive slot per element and one send slot per
\* free place, and a counted slot is never left beside a thread blocked for it.
\* Only a thread that is cancelled may take a slot with it (SyncQueues.h:32-63).
SlotsConserved ==
  /\ Slots("recv") <= ring.count
  /\ Slots("send") <= Size - ring.count
  /\ (\A t \in Threads : state[t] \in {"Running", "Blocked"}) =>
       Slots("recv") = ring.count /\ Slots("send") = Size - ring.count
  /\ \A op \in Ops :
       slots[op] > 0 => \A t \in Range(bq[QueueOf(op)]) : state[t] # "Blocked"

Channel == INSTANCE ChannelSpec WITH
  chan <- Contents(ring), Capacity <- Size, NoMessage <- Blank

\* The queue is a bounded first-in first-out channel: no element is lost,
\* duplicated, overwritten (the !full and !empty assertions of push, pop and
\* front hold) or overtaken.
ImplementsChannel == Channel!CSpec
=============================================================================
