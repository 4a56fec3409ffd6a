--------------------------- MODULE SchedulerProofs --------------------------
(***************************************************************************)
(* What holds of the scheduler for every number of processors and threads. *)
(* OnePlace holds whatever the threads do.  StackIsSaved, NoSleepOnWork    *)
(* and the two assertions DestroyedOnce and SuccessorFound need            *)
(* SchedulerIsOwn: a thread that can be moved to another processor never   *)
(* keeps a Scheduler* it has read (Scheduler.cc:82 and :96 are the places  *)
(* where it would, and where the assertions then fail).                    *)
(***************************************************************************)
EXTENDS Scheduler, FiniteSetTheorems, TLAPS

\* A list is a function on 1..size().
LEMMA SeqLength ==
  ASSUME NEW T, NEW q \in Seq(T)
  PROVE  DOMAIN q = 1..Len(q) /\ Len(q) \in Nat /\ q \in [1..Len(q) -> T]
OBVIOUS

\* A list that is not empty has a first entry.
LEMMA SeqEmpty ==
  ASSUME NEW T
  PROVE  /\ Len(<<>>) = 0 /\ <<>> \in Seq(T)
         /\ \A q \in Seq(T) : q # <<>> => Len(q) \in Nat \ {0}
OBVIOUS

\* push_back leaves the entries before the new one as they are.
LEMMA SeqAppend ==
  ASSUME NEW T, NEW q \in Seq(T), NEW e \in T
  PROVE  /\ Append(q, e) \in Seq(T) /\ Append(q, e) # <<>>
         /\ Len(Append(q, e)) = Len(q) + 1 /\ Append(q, e)[Len(q) + 1] = e
         /\ \A k \in 1..Len(q) : Append(q, e)[k] = q[k]
OBVIOUS

\* pop_front takes the first entry and moves the others up.
LEMMA SeqTail ==
  ASSUME NEW T, NEW q \in Seq(T), q # <<>>
  PROVE  /\ Head(q) \in T /\ Tail(q) \in Seq(T) /\ Len(Tail(q)) = Len(q) - 1
         /\ \A k \in 1..Len(Tail(q)) : Tail(q)[k] = q[k + 1]
OBVIOUS

-----------------------------------------------------------------------------
(* The inductive invariant, for any use of the scheduler. *)

Points == {"thread", "pick", "switch", "post", "destroy", "run"}
Ready == {"Running", "Cancelled"}
Classes == 0..idlePriority
Calls == {NoCall} \cup [op : {"yield", "terminate"}, on : CPUs]

STypeOK ==
  /\ curr \in [CPUs -> All]
  /\ cpc \in [CPUs -> Points]
  /\ this \in [CPUs -> CPUs]
  /\ target \in [CPUs -> CPUs \cup {None}]
  /\ prev \in [CPUs -> All \cup {None}]
  /\ ready \in [CPUs -> [Classes -> Seq(All)]]
  /\ readyCount \in [CPUs -> Int]
  /\ ipc \in [CPUs -> {"spin", "try", "test", "halt"}]
  /\ ipi \in [CPUs -> BOOLEAN]
  /\ state \in [All -> ThreadState]
  /\ next \in [All -> CPUs]
  /\ frame \in [All -> CPUs \cup {None}]
  /\ saved \in [All -> BOOLEAN]
  /\ fresh \subseteq Threads
  /\ pend \in [All -> Calls]
  /\ owe \in [All -> CPUs \cup {None}]

\* The threads in the ready queues of each processor.
InQueue == [c \in CPUs |-> {t \in All : Queued(t, c)}]

\* A preempted thread is on its way from c back to a ready queue.
Leaves(c) == cpc[c] = "switch" /\ target[c] # None

\* A queue holds threads of its class, each once.
QueueInv ==
  \A c \in CPUs, p \in Classes :
    /\ IsInjective(ready[c][p])
    /\ \A t \in Range(ready[c][p]) : Class(t) = p

\* A thread is in one place at most ...
PlaceInv ==
  /\ \A c, d \in CPUs : curr[c] = curr[d] => c = d
  /\ \A t \in All : \A c, d \in CPUs : t \in InQueue[c] /\ t \in InQueue[d] => c = d
  /\ \A c, d \in CPUs : curr[c] \notin InQueue[d]
  /\ \A c \in CPUs : Leaves(c) =>
       \A d \in CPUs : /\ curr[d] # prev[c]
                       /\ prev[c] \notin InQueue[d]
                       /\ Leaves(d) /\ prev[d] = prev[c] => c = d

\* ... and in one exactly if it is ready.
ReadyInv ==
  /\ \A t \in All : state[t] \in Ready =>
       \E c \in CPUs : curr[c] = t \/ t \in InQueue[c] \/ (Leaves(c) /\ prev[c] = t)
  /\ \A t \in All, c \in CPUs : t \in InQueue[c] => state[t] \in Ready
  /\ \A c \in CPUs : Leaves(c) => state[prev[c]] \in Ready
  /\ \A c \in CPUs : cpc[c] # "pick" \/ target[c] # None => state[curr[c]] \in Ready
  /\ \A c \in CPUs : cpc[c] = "pick" /\ target[c] = None => state[curr[c]] \notin Ready

\* The thread switched from is known until the switch is over; the one to be
\* destroyed is not coming back.
PrevInv ==
  \A c \in CPUs :
    /\ cpc[c] \in {"switch", "post", "destroy"} => prev[c] \in All
    /\ cpc[c] = "destroy" => state[prev[c]] \in {"Finishing", "Freed"}

\* A thread that has run and does not run now is inside of a switchThread call.
FrameInv ==
  \A t \in All : frame[t] = None /\ t \notin fresh =>
    \E c \in CPUs : curr[c] = t /\ cpc[c] \in {"thread", "pick"}

SInv == STypeOK /\ QueueInv /\ PlaceInv /\ ReadyInv /\ PrevInv /\ FrameInv

-----------------------------------------------------------------------------
(* The inductive invariant if no thread uses another processor's Scheduler. *)

\* A thread may read its Scheduler* early, or be cancelled inside of
\* switchThread, only if it is not moved between processors.
SchedulerIsOwn ==
  Migrate => \A t \in Threads \ Pinned : Ops[t] \subseteq {"suspend"}

\* The threads that stay where they started, and where that is.
Stay == IF Migrate THEN Pinned \cup Idlers ELSE All
Base(t) == IF t \in Threads THEN Home[t] ELSE CHOOSE c \in CPUs : IdleOf[c] = t

HomeInv ==
  /\ this = [c \in CPUs |-> c]
  /\ \A t \in Stay :
       /\ next[t] = Base(t)
       /\ frame[t] \in {None, Base(t)}
       /\ pend[t].on \in {None, Base(t)}
       /\ \A c \in CPUs : curr[c] = t \/ t \in InQueue[c] => c = Base(t)
  /\ \A t \in All \ Stay : pend[t] = NoCall /\ state[t] # "Cancelled"
  /\ \A c \in CPUs : cpc[c] = "pick" /\ curr[c] \in Stay => target[c] \in {None, c}

\* A stack that is not saved is in use or being left; a suspended thread can be
\* queued only on the processor that is still leaving its stack.
StackInv ==
  /\ \A t \in All : ~saved[t] =>
       \E c \in CPUs : \/ curr[c] = t /\ cpc[c] # "switch"
                       \/ prev[c] = t /\ cpc[c] = "switch"
  /\ \A c \in CPUs : cpc[c] = "switch" /\ target[c] = None =>
       /\ next[prev[c]] = c
       /\ \A d \in CPUs : curr[d] # prev[c] /\ (prev[c] \in InQueue[d] => d = c)

\* readyCount counts the queued threads.
CountInv ==
  \A c \in CPUs :
    readyCount[c] = Len(ready[c][0]) + Len(ready[c][1]) + Len(ready[c][2])

\* Once the idle thread has tried to preempt itself and is not about to look at
\* the queues, a thread in them is announced.
NoneGone == \A t \in Threads : state[t] \in {"Running", "Blocked"}
Announced(c) == ipi[c] \/ \E t \in Threads : owe[t] = c
WakeInv ==
  NoneGone => \A c \in CPUs :
    curr[c] = IdleOf[c] /\ ipc[c] \in {"test", "halt"} /\ cpc[c] # "pick"
      /\ readyCount[c] > 0 => Announced(c)

OwnInv == HomeInv /\ StackInv /\ StackIsSaved /\ CountInv /\ WakeInv

-----------------------------------------------------------------------------
(* Lists and queues. *)

\* push_back adds one thread, at the end of the list.
LEMMA AppendThread ==
  ASSUME NEW S, NEW q \in Seq(S), NEW t \in S
  PROVE  /\ Append(q, t) \in Seq(S)
         /\ Len(Append(q, t)) = Len(q) + 1
         /\ Range(Append(q, t)) = Range(q) \cup {t}
         /\ IsInjective(q) /\ t \notin Range(q) => IsInjective(Append(q, t))
<1>1. /\ Append(q, t) \in Seq(S)
      /\ Len(Append(q, t)) = Len(q) + 1
      /\ \A i \in 1..Len(q) : Append(q, t)[i] = q[i]
      /\ Append(q, t)[Len(q) + 1] = t
  BY SeqAppend
<1>2. DOMAIN q = 1..Len(q) /\ DOMAIN Append(q, t) = 1..(Len(q) + 1) /\ Len(q) \in Nat
  BY <1>1, SeqLength
<1>3. Range(Append(q, t)) = Range(q) \cup {t}
  BY <1>1, <1>2, SMT DEF Range
<1>4. ASSUME IsInjective(q), t \notin Range(q)
      PROVE  IsInjective(Append(q, t))
  BY <1>1, <1>2, <1>4, SMT DEF IsInjective, Range
<1> QED
  BY <1>1, <1>3, <1>4

\* pop_front takes the first thread, which is in the list only once.
LEMMA TailThread ==
  ASSUME NEW S, NEW q \in Seq(S), q # <<>>, IsInjective(q)
  PROVE  /\ Head(q) \in S /\ Head(q) \in Range(q)
         /\ Tail(q) \in Seq(S) /\ Len(Tail(q)) = Len(q) - 1
         /\ Range(Tail(q)) = Range(q) \ {Head(q)}
         /\ IsInjective(Tail(q))
<1>1. /\ Head(q) \in S /\ Tail(q) \in Seq(S) /\ Len(Tail(q)) = Len(q) - 1
      /\ \A i \in 1..Len(Tail(q)) : Tail(q)[i] = q[i + 1]
  BY SeqTail
<1>2. /\ Len(q) \in Nat \ {0} /\ DOMAIN q = 1..Len(q)
      /\ DOMAIN Tail(q) = 1..(Len(q) - 1)
  BY <1>1, SeqLength, SeqEmpty
<1>3. Head(q) = q[1]
  BY DEF Head
<1> DEFINE r == Tail(q)
<1>4. \A i \in 1..(Len(q) - 1) : r[i] = q[i + 1]
  BY <1>1
<1>5. DOMAIN r = 1..(Len(q) - 1)
  BY <1>2
<1> HIDE DEF r
<1>6. \A i, j \in 1..Len(q) : q[i] = q[j] => i = j
  BY <1>2 DEF IsInjective
<1>7. Range(r) = Range(q) \ {q[1]}
  <2>1. ASSUME NEW x \in Range(r) PROVE x \in Range(q) /\ x # q[1]
    <3>1. PICK i \in 1..(Len(q) - 1) : r[i] = x
      BY <1>5, <2>1 DEF Range
    <3>2. i + 1 \in 1..Len(q) /\ i + 1 # 1 /\ 1 \in 1..Len(q)
      BY <1>2
    <3> QED
      BY <1>2, <1>4, <1>6, <3>1, <3>2 DEF Range
  <2>2. ASSUME NEW x \in Range(q), x # q[1] PROVE x \in Range(r)
    <3>1. PICK i \in 1..Len(q) : q[i] = x
      BY <1>2, <2>2 DEF Range
    <3>2. i - 1 \in 1..(Len(q) - 1) /\ (i - 1) + 1 = i
      BY <1>2, <2>2, <3>1
    <3> QED
      BY Zenon, <1>4, <1>5, <3>1, <3>2 DEF Range
  <2> QED
    BY <2>1, <2>2
<1>8. IsInjective(r)
  <2> SUFFICES ASSUME NEW i \in 1..(Len(q) - 1), NEW j \in 1..(Len(q) - 1), r[i] = r[j] PROVE i = j
    BY <1>5 DEF IsInjective
  <2>1. i + 1 \in 1..Len(q) /\ j + 1 \in 1..Len(q) /\ q[i + 1] = q[j + 1]
    BY <1>2, <1>4
  <2>2. i + 1 = j + 1
    BY <1>6, <2>1
  <2> QED
    BY <2>2
<1>9. q[1] \in Range(q)
  BY <1>2 DEF Range
<1> QED
  BY <1>1, <1>3, <1>7, <1>8, <1>9 DEF r

\* The classes a thread can be queued in.
LEMMA ClassType ==
  /\ \A t \in All : Class(t) \in Classes
  /\ \A t \in All : Class(t) = idlePriority <=> t \in Idlers
  BY SchedulerAssumption DEF Class, Classes, All, idlePriority

\* Whoever is queued is a thread.
LEMMA QueuedIsThread ==
  ASSUME STypeOK, NEW c \in CPUs, NEW p \in Classes
  PROVE  ready[c][p] \in Seq(All) /\ Range(ready[c][p]) \subseteq All
<1>1. ready[c][p] \in Seq(All)
  BY DEF STypeOK
<1> QED
  BY <1>1, SeqLength DEF Range

\* A queue and readyCount change by the same amount.
LEMMA CountMoves ==
  ASSUME STypeOK, CountInv, NEW e \in CPUs, NEW k \in Classes, NEW d \in Int,
         readyCount'[e] = readyCount[e] + d,
         Len(ready'[e][k]) = Len(ready[e][k]) + d,
         \A c \in CPUs : c # e => readyCount'[c] = readyCount[c],
         \A c \in CPUs, p \in Classes : c # e \/ p # k => ready'[c][p] = ready[c][p]
  PROVE  CountInv'
<1> SUFFICES ASSUME NEW c \in CPUs
             PROVE  readyCount'[c] = Len(ready'[c][0]) + Len(ready'[c][1]) + Len(ready'[c][2])
  BY Zenon DEF CountInv
<1> DEFINE n(p) == Len(ready[c][p])
           m(p) == Len(ready'[c][p])
<1>1. n(0) \in Nat /\ n(1) \in Nat /\ n(2) \in Nat
  BY QueuedIsThread, SeqLength DEF Classes, idlePriority
<1>2. readyCount[c] = n(0) + n(1) + n(2)
  BY Zenon DEF CountInv
<1>3. 0 \in Classes /\ 1 \in Classes /\ 2 \in Classes /\ k \in {0, 1, 2}
  BY DEF Classes, idlePriority
<1>4. CASE c # e
  <2>1. m(0) = n(0) /\ m(1) = n(1) /\ m(2) = n(2) /\ readyCount'[c] = readyCount[c]
    BY Zenon, <1>3, <1>4
  <2> QED
    BY Zenon, <1>2, <2>1
<1>5. CASE c = e
  <2>1. /\ m(k) = n(k) + d /\ readyCount'[c] = readyCount[c] + d
        /\ \A p \in Classes : p # k => m(p) = n(p)
    BY Zenon, <1>5
  <2> HIDE DEF n, m
  <2>2. readyCount'[c] = m(0) + m(1) + m(2)
    BY <1>1, <1>2, <1>3, <2>1
  <2> QED
    BY Zenon, <2>2 DEF m
<1> QED
  BY Zenon, <1>4, <1>5

\* Scheduler::enqueue adds the thread to one queue, and counts it.
LEMMA EnqueueEffect ==
  ASSUME STypeOK, QueueInv, NEW e \in CPUs, NEW t \in All, t \notin InQueue[e], Enqueue(e, t)
  PROVE  /\ ready' \in [CPUs -> [Classes -> Seq(All)]]
         /\ readyCount' \in [CPUs -> Int]
         /\ readyCount'[e] = readyCount[e] + 1
         /\ \A c \in CPUs : c # e => readyCount'[c] = readyCount[c]
         /\ QueueInv'
         /\ InQueue' = [InQueue EXCEPT ![e] = @ \cup {t}]
         /\ CountInv => CountInv'
<1>1. PICK k \in Classes : k = Class(t)
  BY ClassType
<1>2. PICK q \in Seq(All) : q = ready[e][k]
  BY QueuedIsThread
<1>3. t \notin Range(q) /\ IsInjective(q)
  BY <1>1, <1>2 DEF InQueue, Queued, QueueInv
<1>4. PICK r \in Seq(All) : r = Append(q, t)
  BY Zenon, AppendThread
<1>5. Len(r) = Len(q) + 1 /\ Range(r) = Range(q) \cup {t} /\ IsInjective(r)
  BY <1>3, <1>4, AppendThread
<1>6. /\ ready' \in [CPUs -> [Classes -> Seq(All)]]
      /\ ready'[e][k] = r
      /\ \A c \in CPUs, p \in Classes : c # e \/ p # k => ready'[c][p] = ready[c][p]
  BY <1>1, <1>2, <1>4 DEF Enqueue, STypeOK
<1>7. /\ readyCount' \in [CPUs -> Int] /\ readyCount'[e] = readyCount[e] + 1
      /\ \A c \in CPUs : c # e => readyCount'[c] = readyCount[c]
  BY DEF Enqueue, STypeOK
<1>8. QueueInv'
  <2> SUFFICES ASSUME NEW c \in CPUs, NEW p \in Classes
               PROVE  IsInjective(ready'[c][p]) /\ \A x \in Range(ready'[c][p]) : Class(x) = p
    BY DEF QueueInv
  <2>1. CASE c = e /\ p = k
    BY <1>1, <1>2, <1>5, <1>6, <2>1 DEF QueueInv
  <2>2. CASE c # e \/ p # k
    BY <1>6, <2>2 DEF QueueInv
  <2> QED
    BY <2>1, <2>2
<1>9. InQueue' = [InQueue EXCEPT ![e] = @ \cup {t}]
  <2>1. \A c \in CPUs, x \in All : c # e \/ x # t => (Queued(x, c)' <=> Queued(x, c))
    BY <1>2, <1>5, <1>6, ClassType DEF Queued
  <2>2. Queued(t, e)'
    BY <1>1, <1>5, <1>6 DEF Queued
  <2> QED
    BY Zenon, <2>1, <2>2 DEF InQueue
<1>10. CountInv => CountInv'
  <2>1. 1 \in Int /\ Len(ready'[e][k]) = Len(ready[e][k]) + 1
    BY <1>2, <1>5, <1>6
  <2> QED
    BY Zenon, <1>6, <1>7, <2>1, CountMoves
<1> QED
  BY <1>6, <1>7, <1>8, <1>9, <1>10

\* switchThread's pop_front.
Dequeue(s, k) ==
  /\ ready' = [ready EXCEPT ![s][k] = Tail(@)]
  /\ readyCount' = [readyCount EXCEPT ![s] = @ - 1]

\* It takes the thread off the one queue it is in.
LEMMA DequeueEffect ==
  ASSUME STypeOK, QueueInv, NEW s \in CPUs, NEW k \in Classes, ready[s][k] # <<>>, Dequeue(s, k)
  PROVE  LET h == Head(ready[s][k]) IN
         /\ h \in All /\ Class(h) = k /\ h \in InQueue[s]
         /\ ready' \in [CPUs -> [Classes -> Seq(All)]]
         /\ readyCount' \in [CPUs -> Int]
         /\ readyCount'[s] = readyCount[s] - 1
         /\ \A c \in CPUs : c # s => readyCount'[c] = readyCount[c]
         /\ QueueInv'
         /\ InQueue' = [InQueue EXCEPT ![s] = @ \ {h}]
         /\ CountInv => CountInv'
<1>1. PICK q \in Seq(All) : q = ready[s][k]
  BY QueuedIsThread
<1>2. q # <<>> /\ IsInjective(q)
  BY <1>1 DEF QueueInv
<1>3. PICK r \in Seq(All) : r = Tail(q)
  BY Zenon, <1>2, TailThread
<1>4. PICK h \in All :
        /\ h = Head(q) /\ h \in Range(q)
        /\ Len(r) = Len(q) - 1 /\ Range(r) = Range(q) \ {h} /\ IsInjective(r)
  BY <1>2, <1>3, TailThread
<1>5. /\ ready' \in [CPUs -> [Classes -> Seq(All)]]
      /\ ready'[s][k] = r
      /\ \A c \in CPUs, p \in Classes : c # s \/ p # k => ready'[c][p] = ready[c][p]
  BY Zenon, <1>1, <1>3 DEF Dequeue, STypeOK
<1>6. /\ readyCount' \in [CPUs -> Int] /\ readyCount'[s] = readyCount[s] - 1
      /\ \A c \in CPUs : c # s => readyCount'[c] = readyCount[c]
  BY DEF Dequeue, STypeOK
<1>7. Class(h) = k /\ h \in InQueue[s]
  BY <1>1, <1>4 DEF QueueInv, InQueue, Queued
<1>8. QueueInv'
  <2> SUFFICES ASSUME NEW c \in CPUs, NEW p \in Classes
               PROVE  IsInjective(ready'[c][p]) /\ \A x \in Range(ready'[c][p]) : Class(x) = p
    BY DEF QueueInv
  <2>1. CASE c = s /\ p = k
    BY <1>1, <1>4, <1>5, <2>1 DEF QueueInv
  <2>2. CASE c # s \/ p # k
    BY <1>5, <2>2 DEF QueueInv
  <2> QED
    BY <2>1, <2>2
<1>9. InQueue' = [InQueue EXCEPT ![s] = @ \ {h}]
  <2>1. \A c \in CPUs, x \in All : c # s \/ x # h => (Queued(x, c)' <=> Queued(x, c))
    BY <1>1, <1>4, <1>5, ClassType DEF Queued
  <2>2. ~Queued(h, s)'
    <3>1. h \notin Range(r)
      BY <1>4
    <3> QED
      BY Zenon, <1>5, <1>7, <3>1 DEF Queued
  <2> QED
    BY Zenon, <1>4, <2>1, <2>2 DEF InQueue
<1>10. CountInv => CountInv'
  <2>1. -1 \in Int /\ Len(ready'[s][k]) = Len(ready[s][k]) + -1 /\ readyCount'[s] = readyCount[s] + -1
    <3>1. Len(q) \in Nat /\ readyCount[s] \in Int
      BY SeqLength DEF STypeOK
    <3> QED
      BY <1>1, <1>4, <1>5, <1>6, <3>1
  <2> QED
    BY Zenon, <1>5, <1>6, <2>1, CountMoves
<1> QED
  BY <1>1, <1>4, <1>5, <1>6, <1>7, <1>8, <1>9, <1>10

-----------------------------------------------------------------------------
(* The steps, one by one. *)

\* What is in the ready queues (readyQueue, Scheduler.h:32).
LEMMA InQueueType ==
  InQueue \in [CPUs -> SUBSET All]
  BY DEF InQueue

\* A step that leaves the queues alone leaves what is in them.
LEMMA SameQueues ==
  ASSUME ready' = ready
  PROVE  InQueue' = InQueue /\ (QueueInv => QueueInv')
<1>1. InQueue' = InQueue
  BY Zenon DEF InQueue, Queued
<1>2. QueueInv => QueueInv'
  BY Zenon DEF QueueInv
<1> QED
  BY <1>1, <1>2

\* Finished threads.
Gone == {"Finishing", "Freed"}

\* A processor's own step between the switches: threads stay where they are,
\* and its current thread stays ready unless it is about to be switched away.
LEMMA LocalStep ==
  ASSUME SInv, NEW c \in CPUs, ~Leaves(c), NEW k, k # "switch",
         cpc' = [cpc EXCEPT ![c] = k], curr' = curr, ready' = ready,
         \A d \in CPUs : d # c => target'[d] = target[d] /\ prev'[d] = prev[d],
         \A t \in All : t # curr[c] => (state'[t] \in Ready <=> state[t] \in Ready),
         state'[curr[c]] \in Ready <=> (k # "pick" \/ target'[c] # None),
         \A t \in All : state[t] \in Gone => state'[t] \in Gone,
         k \in {"post", "destroy"} => prev'[c] \in All,
         k = "destroy" => state'[prev'[c]] \in Gone
  PROVE  QueueInv' /\ PlaceInv' /\ ReadyInv' /\ PrevInv'
<1>1. InQueue' = InQueue /\ QueueInv'
  BY SameQueues DEF SInv
<1>2. cpc'[c] = k /\ (\A d \in CPUs : d # c => cpc'[d] = cpc[d]) /\ curr \in [CPUs -> All]
  BY DEF SInv, STypeOK
<1>3. \A d \in CPUs : Leaves(d)' => Leaves(d) /\ prev'[d] = prev[d]
  BY <1>2 DEF Leaves
<1>4. \A d \in CPUs : Leaves(d) => Leaves(d)' /\ prev'[d] = prev[d]
  <2> SUFFICES ASSUME NEW d \in CPUs, Leaves(d) PROVE Leaves(d)' /\ prev'[d] = prev[d]
    OBVIOUS
  <2>1. d # c
    OBVIOUS
  <2> QED
    BY <1>2, <2>1 DEF Leaves
<1>5. PlaceInv /\ ReadyInv /\ PrevInv
  BY DEF SInv
<1>6. PlaceInv'
  BY Zenon, <1>1, <1>3, <1>5 DEF PlaceInv
<1>7. PICK u \in All : u = curr[c]
  BY <1>2
<1>8. /\ \A d \in CPUs : d # c => curr[d] # u
      /\ \A d \in CPUs : u \notin InQueue[d]
      /\ \A d \in CPUs : Leaves(d) => prev[d] # u
  BY Zenon, <1>5, <1>7 DEF PlaceInv
<1>9. ReadyInv'
  <2>1. ASSUME NEW t \in All, state'[t] \in Ready
        PROVE  \E d \in CPUs : curr'[d] = t \/ t \in InQueue'[d] \/ (Leaves(d)' /\ prev'[d] = t)
    <3>1. CASE t = u
      BY Zenon, <1>7, <3>1
    <3>2. CASE t # u
      <4>1. state[t] \in Ready
        BY Zenon, <1>7, <2>1, <3>2
      <4>2. PICK d \in CPUs : curr[d] = t \/ t \in InQueue[d] \/ (Leaves(d) /\ prev[d] = t)
        BY Zenon, <1>5, <4>1 DEF ReadyInv
      <4> QED
        BY Zenon, <1>1, <1>4, <4>2
    <3> QED
      BY <3>1, <3>2
  <2>2. ASSUME NEW t \in All, NEW d \in CPUs, t \in InQueue'[d] PROVE state'[t] \in Ready
    <3>1. t \in InQueue[d] /\ t # u
      BY Zenon, <1>1, <1>8, <2>2
    <3>2. state[t] \in Ready
      BY Zenon, <1>5, <3>1 DEF ReadyInv
    <3> QED
      BY Zenon, <1>7, <3>1, <3>2
  <2>3. ASSUME NEW d \in CPUs, Leaves(d)' PROVE state'[prev'[d]] \in Ready
    <3>1. Leaves(d) /\ prev'[d] = prev[d] /\ prev[d] # u /\ state[prev[d]] \in Ready
      BY Zenon, <1>3, <1>5, <1>8, <2>3 DEF ReadyInv
    <3>2. prev[d] \in All
      BY <1>5, <3>1 DEF PrevInv, Leaves
    <3> QED
      BY Zenon, <1>7, <3>1, <3>2
  <2>4. ASSUME NEW d \in CPUs
        PROVE  /\ cpc'[d] # "pick" \/ target'[d] # None => state'[curr'[d]] \in Ready
               /\ cpc'[d] = "pick" /\ target'[d] = None => state'[curr'[d]] \notin Ready
    <3>1. CASE d = c
      BY Zenon, <1>2, <3>1
    <3>2. CASE d # c
      <4>1. curr[d] # u /\ curr[d] \in All
        BY Zenon, <1>2, <1>8, <3>2
      <4>2. /\ cpc[d] # "pick" \/ target[d] # None => state[curr[d]] \in Ready
            /\ cpc[d] = "pick" /\ target[d] = None => state[curr[d]] \notin Ready
        BY Zenon, <1>5 DEF ReadyInv
      <4> QED
        BY Zenon, <1>2, <1>7, <3>2, <4>1, <4>2
    <3> QED
      BY <3>1, <3>2
  <2> QED
    BY Zenon, <2>1, <2>2, <2>3, <2>4 DEF ReadyInv
<1>10. PrevInv'
  <2> SUFFICES ASSUME NEW d \in CPUs
               PROVE  /\ cpc'[d] \in {"switch", "post", "destroy"} => prev'[d] \in All
                      /\ cpc'[d] = "destroy" => state'[prev'[d]] \in Gone
    BY DEF PrevInv, Gone
  <2>1. CASE d = c
    BY Zenon, <1>2, <2>1
  <2>2. CASE d # c
    <3>1. /\ cpc[d] \in {"switch", "post", "destroy"} => prev[d] \in All
          /\ cpc[d] = "destroy" => state[prev[d]] \in Gone
      BY <1>5 DEF PrevInv, Gone
    <3> QED
      BY Zenon, <1>2, <2>2, <3>1
  <2> QED
    BY <2>1, <2>2
<1> QED
  BY <1>1, <1>6, <1>9, <1>10

\* switchThread up to the stack switch: a thread of the best class is taken.
LEMMA PickEffect ==
  ASSUME STypeOK, QueueInv, NEW c \in CPUs, Pick(c)
  PROVE  \E k \in Classes :
           /\ \A j \in Candidates(this[c], Limit(c)) : k <= j
           /\ ready[this[c]][k] # <<>> /\ Dequeue(this[c], k)
           /\ curr' = [curr EXCEPT ![c] = Head(ready[this[c]][k])]
<1> DEFINE P == Candidates(this[c], Limit(c))
           k == CHOOSE i \in P : \A j \in P : i <= j
<1>1. P \subseteq {0, 1, 2} /\ P # {}
  BY DEF Pick, Candidates, Limit, idlePriority, maxPriority
<1> HIDE DEF P
<1>2. \E i \in P : \A j \in P : i <= j
  <2>1. CASE 0 \in P
    BY <1>1, <2>1
  <2>2. CASE 0 \notin P /\ 1 \in P
    BY <1>1, <2>2
  <2>3. CASE 0 \notin P /\ 1 \notin P
    <3>1. P = {2}
      BY Zenon, <1>1, <2>3
    <3> QED
      BY <3>1
  <2> QED
    BY <2>1, <2>2, <2>3
<1>3. k \in P /\ \A j \in P : k <= j
  BY <1>2
<1>4. k \in Classes
  <2>1. {0, 1, 2} \subseteq Classes
    BY DEF Classes, idlePriority
  <2> QED
    BY Zenon, <1>1, <1>3, <2>1
<1>5. ready[this[c]][k] # <<>>
  BY <1>3 DEF P, Candidates
<1>6. Dequeue(this[c], k) /\ curr' = [curr EXCEPT ![c] = Head(ready[this[c]][k])]
  BY DEF Pick, Dequeue, P
<1> HIDE DEF k
<1> QED
  BY Zenon, <1>3, <1>4, <1>5, <1>6 DEF P

\* switchThread takes the next thread out of a ready queue and switches to it
\* (Scheduler.cc:46-73): it has one place again, that of the running thread.
LEMMA PickStep ==
  ASSUME SInv, NEW c \in CPUs, Pick(c)
  PROVE  SInv'
<1> USE DEF SInv
<1>1. PICK k \in Classes : /\ ready[this[c]][k] # <<>> /\ Dequeue(this[c], k)
                           /\ curr' = [curr EXCEPT ![c] = Head(ready[this[c]][k])]
  BY PickEffect
<1>2. PICK s \in CPUs : s = this[c]
  BY DEF STypeOK
<1>3. PICK u \in All : u = curr[c]
  BY DEF STypeOK
<1>4. PICK h \in All : /\ h = Head(ready[s][k]) /\ h \in InQueue[s]
                       /\ InQueue' = [InQueue EXCEPT ![s] = @ \ {h}]
                       /\ ready' \in [CPUs -> [Classes -> Seq(All)]]
                       /\ readyCount' \in [CPUs -> Int]
                       /\ QueueInv'
  BY <1>1, <1>2, DequeueEffect
<1> cpc[c] = "pick"
  BY Zenon DEF Pick
<1>a. /\ curr' = [curr EXCEPT ![c] = h] /\ prev' = [prev EXCEPT ![c] = u]
      /\ cpc' = [cpc EXCEPT ![c] = "switch"]
      /\ frame' = [frame EXCEPT ![u] = s]
      /\ next' = [next EXCEPT ![u] = IF target[c] # None THEN target[c] ELSE s]
      /\ UNCHANGED <<this, target, ipc, ipi, state, saved, fresh, pend, owe>>
  BY Zenon, <1>1, <1>2, <1>3, <1>4 DEF Pick
<1>b. /\ curr \in [CPUs -> All] /\ prev \in [CPUs -> All \cup {None}] /\ cpc \in [CPUs -> Points]
      /\ frame \in [All -> CPUs \cup {None}] /\ next \in [All -> CPUs]
      /\ target[c] \in CPUs \cup {None}
  BY Zenon DEF STypeOK
<1>5. /\ curr'[c] = h /\ prev'[c] = u /\ cpc'[c] = "switch" /\ frame'[u] = s
      /\ \A d \in CPUs : d # c => curr'[d] = curr[d] /\ prev'[d] = prev[d] /\ cpc'[d] = cpc[d]
      /\ \A t \in All : t # u => frame'[t] = frame[t]
      /\ UNCHANGED <<target, state, fresh>>
  BY <1>a, <1>b
<1>6. /\ InQueue'[s] = InQueue[s] \ {h}
      /\ \A d \in CPUs : d # s => InQueue'[d] = InQueue[d]
  BY <1>4, InQueueType
<1>7. STypeOK'
  <2>1. /\ curr' \in [CPUs -> All] /\ cpc' \in [CPUs -> Points]
        /\ prev' \in [CPUs -> All \cup {None}]
    BY <1>a, <1>b DEF Points
  <2>2. next' \in [All -> CPUs] /\ frame' \in [All -> CPUs \cup {None}]
    BY <1>a, <1>b
  <2> QED
    BY Zenon, <1>4, <1>a, <2>1, <2>2 DEF STypeOK
<1>8. PlaceInv'
  <2>1. PlaceInv
    OBVIOUS
  <2>2. \A d \in CPUs : h # curr[d] /\ h \notin InQueue'[d] /\ u \notin InQueue'[d]
    BY <1>3, <1>4, <1>6, <2>1 DEF PlaceInv
  <2>3. \A d \in CPUs : d # c => curr[d] # u
    BY <1>3, <2>1 DEF PlaceInv
  <2>4. \A d \in CPUs : d # c /\ Leaves(d)' => Leaves(d) /\ prev[d] # u /\ prev[d] # h
    BY <1>3, <1>4, <1>5, <2>1 DEF PlaceInv, Leaves
  <2>5. \A d \in CPUs : InQueue'[d] \subseteq InQueue[d]
    BY <1>6
  <2>6. \A a, b \in CPUs : curr'[a] = curr'[b] => a = b
    BY <1>5, <2>1, <2>2 DEF PlaceInv
  <2>7. \A t \in All : \A a, b \in CPUs : t \in InQueue'[a] /\ t \in InQueue'[b] => a = b
    BY <2>1, <2>5 DEF PlaceInv
  <2>8. \A a, b \in CPUs : curr'[a] \notin InQueue'[b]
    BY <1>5, <2>1, <2>2, <2>5 DEF PlaceInv
  <2>9. ASSUME NEW a \in CPUs, Leaves(a)', NEW d \in CPUs
        PROVE  /\ curr'[d] # prev'[a] /\ prev'[a] \notin InQueue'[d]
               /\ Leaves(d)' /\ prev'[d] = prev'[a] => a = d
    <3>1. CASE a = c
      BY <1>3, <1>5, <2>2, <2>3, <2>4, <3>1
    <3>2. CASE a # c
      <4>1. Leaves(a) /\ prev'[a] = prev[a] /\ prev[a] # u /\ prev[a] # h
        BY <1>5, <2>4, <2>9, <3>2
      <4>2. curr[d] # prev[a] /\ prev[a] \notin InQueue[d] /\ (Leaves(d) /\ prev[d] = prev[a] => a = d)
        BY <2>1, <4>1 DEF PlaceInv
      <4> QED
        BY <1>5, <2>4, <2>5, <4>1, <4>2
    <3> QED
      BY <3>1, <3>2
  <2> QED
    BY Zenon, <2>6, <2>7, <2>8, <2>9 DEF PlaceInv
<1>9. ReadyInv'
  <2>1. ReadyInv
    OBVIOUS
  <2>2. target[c] = None => state[u] \notin Ready
    BY Zenon, <1>3, <1>5, <2>1 DEF ReadyInv
  <2>3. target[c] # None => state[u] \in Ready
    BY <1>3, <2>1 DEF ReadyInv
  <2>4. state[h] \in Ready
    BY Zenon, <1>4, <2>1 DEF ReadyInv
  <2>5. ASSUME NEW t \in All, state'[t] \in Ready
        PROVE  \E d \in CPUs : curr'[d] = t \/ t \in InQueue'[d] \/ (Leaves(d)' /\ prev'[d] = t)
    <3>1. PICK d \in CPUs : curr[d] = t \/ t \in InQueue[d] \/ (Leaves(d) /\ prev[d] = t)
      BY Zenon, <1>5, <2>1, <2>5 DEF ReadyInv
    <3>2. CASE t = h
      BY <1>5, <3>2
    <3>3. CASE t = u
      BY <1>5, <2>2, <2>5, <3>3 DEF Leaves
    <3>4. CASE t # h /\ t # u
      <4>1. CASE curr[d] = t
        BY <1>3, <1>5, <3>4, <4>1
      <4>2. CASE t \in InQueue[d]
        BY <1>6, <3>4, <4>2
      <4>3. CASE Leaves(d) /\ prev[d] = t
        BY <1>5, <4>3 DEF Leaves
      <4> QED
        BY <3>1, <4>1, <4>2, <4>3
    <3> QED
      BY <3>2, <3>3, <3>4
  <2>6. \A t \in All, d \in CPUs : t \in InQueue'[d] => state'[t] \in Ready
    BY <1>5, <1>6, <2>1 DEF ReadyInv
  <2>7. \A d \in CPUs : Leaves(d)' => state'[prev'[d]] \in Ready
    BY <1>5, <2>1, <2>3 DEF ReadyInv, Leaves
  <2>8. \A d \in CPUs : cpc'[d] # "pick" \/ target'[d] # None => state'[curr'[d]] \in Ready
    BY Zenon, <1>5, <2>1, <2>4 DEF ReadyInv
  <2>9. \A d \in CPUs : cpc'[d] = "pick" /\ target'[d] = None => state'[curr'[d]] \notin Ready
    BY <1>5, <2>1 DEF ReadyInv
  <2> QED
    BY Zenon, <2>5, <2>6, <2>7, <2>8, <2>9 DEF ReadyInv
<1>10. PrevInv'
  BY <1>5 DEF PrevInv
<1>11. FrameInv'
  <2> SUFFICES ASSUME NEW t \in All, frame'[t] = None, t \notin fresh'
               PROVE  \E d \in CPUs : curr'[d] = t /\ cpc'[d] \in {"thread", "pick"}
    BY DEF FrameInv
  <2>1. t # u /\ frame[t] = None
    BY <1>2, <1>5, SchedulerAssumption
  <2>2. PICK d \in CPUs : curr[d] = t /\ cpc[d] \in {"thread", "pick"}
    BY Zenon, <1>5, <2>1 DEF FrameInv
  <2> QED
    BY <1>3, <1>5, <2>1, <2>2
<1> QED
  BY <1>4, <1>7, <1>8, <1>9, <1>10, <1>11

\* A thread runs until it is inside of switchThread again.
LEMMA FrameStands ==
  ASSUME SInv, NEW c \in CPUs, NEW k, cpc' = [cpc EXCEPT ![c] = k],
         cpc[c] \in {"thread", "pick"} => k \in {"thread", "pick"},
         UNCHANGED <<curr, frame, fresh>>
  PROVE  FrameInv'
<1>1. cpc'[c] = k /\ \A d \in CPUs : d # c => cpc'[d] = cpc[d]
  BY DEF SInv, STypeOK
<1>2. \A d \in CPUs : cpc[d] \in {"thread", "pick"} => cpc'[d] \in {"thread", "pick"}
  BY <1>1
<1> QED
  BY Zenon, <1>2 DEF SInv, FrameInv

\* preempt() chooses a processor.
LEMMA PreemptTargetType ==
  ASSUME STypeOK, NEW t \in All, NEW s \in CPUs
  PROVE  PreemptTarget(t, s) \in CPUs
<1>1. next[t] \in CPUs /\ Partner[s] \in CPUs
  BY SchedulerAssumption DEF STypeOK
<1> QED
  BY Zenon, <1>1 DEF PreemptTarget

\* A thread calls switchThread: to suspend or to end (no target), or to give
\* the processor away.
LEMMA CallSwitchStep ==
  ASSUME SInv, NEW c \in CPUs, cpc[c] = "thread", NEW s \in CPUs, NEW g \in CPUs \cup {None},
         CallSwitch(c, s, g),
         state' \in [All -> ThreadState],
         \A t \in All : t # curr[c] => state'[t] = state[t],
         state'[curr[c]] \in Ready <=> g # None,
         UNCHANGED <<queues, next, frame, saved, fresh>>,
         ipc' \in [CPUs -> {"spin", "try", "test", "halt"}], ipi' \in [CPUs -> BOOLEAN],
         pend' \in [All -> Calls], owe' \in [All -> CPUs \cup {None}]
  PROVE  SInv'
<1>1. /\ cpc' = [cpc EXCEPT ![c] = "pick"] /\ this' = [this EXCEPT ![c] = s]
      /\ target' = [target EXCEPT ![c] = g]
      /\ UNCHANGED <<curr, prev, ready, readyCount, next, frame, saved, fresh>>
  BY Zenon DEF CallSwitch, queues
<1>2. /\ cpc \in [CPUs -> Points] /\ this \in [CPUs -> CPUs] /\ target \in [CPUs -> CPUs \cup {None}]
      /\ curr[c] \in All /\ state[curr[c]] \in Ready
  BY Zenon DEF SInv, STypeOK, ReadyInv
<1>3. /\ cpc' \in [CPUs -> Points] /\ this' \in [CPUs -> CPUs] /\ target' \in [CPUs -> CPUs \cup {None}]
      /\ target'[c] = g /\ \A d \in CPUs : d # c => target'[d] = target[d]
  BY <1>1, <1>2 DEF Points
<1>4. STypeOK'
  BY <1>1, <1>3 DEF SInv, STypeOK
<1>5. \A t \in All : state[t] \in Gone => state'[t] \in Gone
  BY <1>2 DEF Gone, Ready
<1>6. /\ ~Leaves(c) /\ "pick" # "switch" /\ "pick" \notin {"post", "destroy"} /\ "pick" # "destroy"
      /\ \A d \in CPUs : d # c => target'[d] = target[d] /\ prev'[d] = prev[d]
      /\ \A t \in All : t # curr[c] => (state'[t] \in Ready <=> state[t] \in Ready)
      /\ state'[curr[c]] \in Ready <=> ("pick" # "pick" \/ target'[c] # None)
  BY Zenon, <1>1, <1>3 DEF Leaves
<1>7. QueueInv' /\ PlaceInv' /\ ReadyInv' /\ PrevInv'
  BY Zenon, <1>1, <1>5, <1>6, LocalStep
<1>8. FrameInv'
  BY Zenon, <1>1, FrameStands
<1> QED
  BY <1>4, <1>7, <1>8 DEF SInv

\* The calls of switchThread: suspend, yield, terminate, the handlers of the
\* IPIs and the idle loop.
LEMMA CallSteps ==
  ASSUME SInv, NEW c \in CPUs,
         \/ Suspend(c) \/ Yield(c) \/ Terminate(c) \/ Interrupt(c)
         \/ \E s \in CPUs : IdlePreempt(c, s)
  PROVE  SInv'
<1> DEFINE t == curr[c]
<1>1. t \in All /\ STypeOK /\ (cpc[c] = "thread" => state[t] \in Ready)
  BY Zenon DEF SInv, STypeOK, ReadyInv
<1>2. /\ ipc \in [CPUs -> {"spin", "try", "test", "halt"}] /\ ipi \in [CPUs -> BOOLEAN]
      /\ pend \in [All -> Calls] /\ owe \in [All -> CPUs \cup {None}] /\ state \in [All -> ThreadState]
  BY <1>1 DEF STypeOK
<1>3. pend[t] # NoCall /\ pend[t] \in Calls => pend[t].on \in CPUs
  BY DEF Calls
<1>4. \A x \in {"Blocked", "Finishing"} :
        state' = [state EXCEPT ![t] = x] =>
          /\ state' \in [All -> ThreadState] /\ state'[t] \notin Ready
          /\ \A u \in All : u # t => state'[u] = state[u]
  BY <1>1, <1>2 DEF ThreadState, Ready
<1>5. pend' = [pend EXCEPT ![t] = NoCall] => pend' \in [All -> Calls]
  BY <1>1, <1>2 DEF Calls
<1> HIDE DEF t
<1>6. CASE Suspend(c)
  <2>1. /\ cpc[c] = "thread" /\ CallSwitch(c, c, None) /\ state' = [state EXCEPT ![t] = "Blocked"]
        /\ UNCHANGED <<queues, ipc, ipi, next, frame, saved, fresh, pend, owe>>
    BY Zenon, <1>6 DEF Suspend, Free, Executes, t, idle
  <2> QED
    BY Zenon, <1>2, <1>4, <2>1, CallSwitchStep DEF t
<1>7. CASE Terminate(c)
  <2>1. /\ cpc[c] = "thread" /\ pend[t].op = "terminate" /\ CallSwitch(c, pend[t].on, None)
        /\ state' = [state EXCEPT ![t] = "Finishing"] /\ pend' = [pend EXCEPT ![t] = NoCall]
        /\ UNCHANGED <<queues, ipc, ipi, next, frame, saved, fresh, owe>>
    BY Zenon, <1>7 DEF Terminate, Executes, t, idle
  <2>2. pend[t].on \in CPUs
    BY <1>1, <1>2, <1>3, <2>1 DEF NoCall
  <2> QED
    BY <1>2, <1>4, <1>5, <2>1, <2>2, CallSwitchStep DEF t
<1>8. CASE Yield(c)
  <2>1. /\ cpc[c] = "thread" /\ pend[t].op = "yield"
        /\ CallSwitch(c, pend[t].on, PreemptTarget(t, pend[t].on))
        /\ pend' = [pend EXCEPT ![t] = NoCall]
        /\ UNCHANGED <<queues, ipc, ipi, state, next, frame, saved, fresh, owe>>
    BY Zenon, <1>8 DEF Yield, Executes, t, idle
  <2>2. pend[t].on \in CPUs
    BY <1>1, <1>2, <1>3, <2>1 DEF NoCall
  <2>3. PreemptTarget(t, pend[t].on) \in CPUs /\ PreemptTarget(t, pend[t].on) # None
    BY <1>1, <2>2, PreemptTargetType, SchedulerAssumption
  <2> QED
    BY Zenon, <1>1, <1>2, <1>5, <2>1, <2>2, <2>3, CallSwitchStep DEF t
<1>9. CASE Interrupt(c)
  <2>1. /\ cpc[c] = "thread" /\ CallSwitch(c, c, PreemptTarget(t, c))
        /\ ipi' = [ipi EXCEPT ![c] = FALSE]
        /\ ipc' = ipc \/ ipc' = [ipc EXCEPT ![c] = "test"]
        /\ UNCHANGED <<queues, state, next, frame, saved, fresh, pend, owe>>
    BY Zenon, <1>9 DEF Interrupt, t, threadvars
  <2>2. PreemptTarget(t, c) \in CPUs /\ PreemptTarget(t, c) # None
    BY <1>1, PreemptTargetType, SchedulerAssumption
  <2>3. ipi' \in [CPUs -> BOOLEAN] /\ ipc' \in [CPUs -> {"spin", "try", "test", "halt"}]
    BY <1>2, <2>1
  <2> QED
    BY Zenon, <1>1, <1>2, <2>1, <2>2, <2>3, CallSwitchStep DEF t
<1>10. ASSUME NEW s \in CPUs, IdlePreempt(c, s) PROVE SInv'
  <2>1. /\ cpc[c] = "thread" /\ t = IdleOf[s] /\ CallSwitch(c, s, PreemptTarget(t, s))
        /\ ipc' = [ipc EXCEPT ![s] = "test"]
        /\ UNCHANGED <<queues, ipi, state, next, frame, saved, fresh, pend, owe>>
    BY Zenon, <1>10 DEF IdlePreempt, Executes, t, threadvars
  <2>2. PreemptTarget(t, s) \in CPUs /\ PreemptTarget(t, s) # None
    BY <1>1, PreemptTargetType, SchedulerAssumption
  <2>3. ipc' \in [CPUs -> {"spin", "try", "test", "halt"}]
    BY Zenon, <1>2, <2>1
  <2> QED
    BY Zenon, <1>1, <1>2, <2>1, <2>2, <2>3, CallSwitchStep DEF t
<1> QED
  BY <1>6, <1>7, <1>8, <1>9, <1>10

\* Steps that move no thread and no processor.
LEMMA QuietSteps ==
  ASSUME SInv, NEW c \in CPUs,
         \/ WakeUp(c) \/ PreemptIPI(c)
         \/ \E op \in {"yield", "terminate"} : ReadScheduler(c, op)
         \/ \E s \in CPUs : IdleSpin(c, s) \/ IdleTest(c, s)
  PROVE  SInv'
<1>1. /\ ipc \in [CPUs -> {"spin", "try", "test", "halt"}] /\ ipi \in [CPUs -> BOOLEAN]
      /\ pend \in [All -> Calls] /\ owe \in [All -> CPUs \cup {None}] /\ curr[c] \in All
  BY DEF SInv, STypeOK
<1>2. UNCHANGED <<curr, cpc, this, target, prev, ready, readyCount, state, next, frame, saved, fresh>>
  BY Zenon DEF WakeUp, PreemptIPI, ReadScheduler, IdleSpin, IdleTest, cpuvars, queues, threadvars
<1>3. /\ ipc' \in [CPUs -> {"spin", "try", "test", "halt"}] /\ ipi' \in [CPUs -> BOOLEAN]
      /\ pend' \in [All -> Calls] /\ owe' \in [All -> CPUs \cup {None}]
  <2>1. CASE WakeUp(c)
    BY <1>1, <2>1 DEF WakeUp, idle
  <2>2. CASE PreemptIPI(c)
    BY <1>1, <2>2 DEF PreemptIPI, idle, threadvars
  <2>3. ASSUME NEW op \in {"yield", "terminate"}, ReadScheduler(c, op)
        PROVE  /\ ipc' = ipc /\ ipi' = ipi /\ owe' = owe
               /\ pend' \in [All -> Calls]
    BY <1>1, <2>3 DEF ReadScheduler, idle, Calls
  <2>4. ASSUME NEW s \in CPUs, IdleSpin(c, s) \/ IdleTest(c, s)
        PROVE  /\ ipi' = ipi /\ owe' = owe /\ pend' = pend
               /\ ipc' \in [CPUs -> {"spin", "try", "test", "halt"}]
    BY Zenon, <1>1, <2>4 DEF IdleSpin, IdleTest, threadvars
  <2> QED
    BY <1>1, <2>1, <2>2, <2>3, <2>4
<1>4. STypeOK'
  BY <1>2, <1>3 DEF SInv, STypeOK
<1>5. InQueue' = InQueue /\ QueueInv'
  BY <1>2, SameQueues DEF SInv
<1>6. \A d \in CPUs : Leaves(d)' <=> Leaves(d)
  BY <1>2 DEF Leaves
<1>7. PlaceInv' /\ ReadyInv'
  BY Zenon, <1>2, <1>5, <1>6 DEF SInv, PlaceInv, ReadyInv
<1>8. PrevInv' /\ FrameInv'
  BY Zenon, <1>2 DEF SInv, PrevInv, FrameInv
<1> QED
  BY <1>4, <1>5, <1>7, <1>8 DEF SInv

\* switchThread finds no other thread, or postResume looks at the old one, or
\* destroys it.
LEMMA AfterSteps ==
  ASSUME SInv, NEW c \in CPUs, PickNone(c) \/ PostResume(c) \/ Destroy(c)
  PROVE  SInv'
<1>1. /\ cpc \in [CPUs -> Points] /\ target \in [CPUs -> CPUs \cup {None}] /\ curr[c] \in All
      /\ state \in [All -> ThreadState]
      /\ cpc[c] # "pick" \/ target[c] # None => state[curr[c]] \in Ready
      /\ cpc[c] \in {"switch", "post", "destroy"} => prev[c] \in All
      /\ cpc[c] = "destroy" => state[prev[c]] \in Gone
  BY Zenon DEF SInv, STypeOK, ReadyInv, PrevInv, Gone
<1>2. UNCHANGED <<curr, this, prev, ready, readyCount, ipc, ipi, next, frame, saved, fresh, pend, owe>>
  BY Zenon DEF PickNone, PostResume, Destroy, queues, idle, threadvars
<1>3. PICK k \in Points : /\ cpc' = [cpc EXCEPT ![c] = k] /\ k \in {"thread", "destroy", "run"}
                          /\ cpc[c] \in {"pick", "post", "destroy"}
                          /\ cpc[c] = "pick" => k = "thread"
                          /\ k = "destroy" => cpc[c] = "post" /\ state[prev[c]] = "Finishing"
  BY DEF PickNone, PostResume, Destroy, Points
<1>4. target' \in [CPUs -> CPUs \cup {None}] /\ \A d \in CPUs : d # c => target'[d] = target[d]
  BY <1>1 DEF PickNone, PostResume, Destroy
<1>5. /\ state' \in [All -> ThreadState]
      /\ \A t \in All : state'[t] = state[t] \/ (state[t] \in Gone /\ state'[t] = "Freed")
      /\ cpc[c] \in {"pick", "post"} => state' = state
  <2>1. CASE PickNone(c) \/ PostResume(c)
    BY Zenon, <1>1, <2>1 DEF PickNone, PostResume, threadvars
  <2>2. CASE Destroy(c)
    BY <1>1, <2>2 DEF Destroy, ThreadState
  <2> QED
    BY <2>1, <2>2
<1>6. state[curr[c]] \in Ready
  <2>1. cpc[c] = "pick" => target[c] # None
    BY Zenon DEF PickNone, PostResume, Destroy
  <2> QED
    BY <1>1, <2>1
<1>7. cpc' \in [CPUs -> Points]
  BY <1>1, <1>3
<1>8. STypeOK'
  BY <1>2, <1>4, <1>5, <1>7 DEF SInv, STypeOK
<1>9. /\ \A t \in All : state'[t] \in Ready <=> state[t] \in Ready
      /\ \A t \in All : state[t] \in Gone => state'[t] \in Gone
  BY <1>5 DEF Ready, Gone
<1>10. /\ ~Leaves(c) /\ k # "switch" /\ k # "pick"
       /\ k \in {"post", "destroy"} => prev'[c] \in All
       /\ k = "destroy" => state'[prev'[c]] \in Gone
       /\ \A d \in CPUs : d # c => target'[d] = target[d] /\ prev'[d] = prev[d]
  BY <1>1, <1>2, <1>3, <1>4, <1>5 DEF Leaves, Gone
<1>11. QueueInv' /\ PlaceInv' /\ ReadyInv' /\ PrevInv'
  BY Zenon, <1>1, <1>2, <1>3, <1>6, <1>9, <1>10, LocalStep
<1>12. FrameInv'
  <2>1. cpc[c] \in {"thread", "pick"} => k \in {"thread", "pick"}
    BY <1>3
  <2> QED
    BY Zenon, <1>2, <1>3, <2>1, FrameStands
<1> QED
  BY <1>8, <1>11, <1>12 DEF SInv

\* The new thread returns from its switchThread, and leaves if it is cancelled.
LEMMA ReturnStep ==
  ASSUME SInv, NEW c \in CPUs, Return(c)
  PROVE  SInv'
<1>1. PICK t \in All : t = curr[c]
  BY DEF SInv, STypeOK
<1>2. /\ cpc \in [CPUs -> Points] /\ target \in [CPUs -> CPUs \cup {None}] /\ this \in [CPUs -> CPUs]
      /\ prev \in [CPUs -> All \cup {None}] /\ frame \in [All -> CPUs \cup {None}]
      /\ state \in [All -> ThreadState] /\ pend \in [All -> Calls] /\ owe \in [All -> CPUs \cup {None}]
      /\ fresh \subseteq Threads
  BY DEF SInv, STypeOK
<1>3. /\ cpc[c] = "run"
      /\ prev' = [prev EXCEPT ![c] = None] /\ fresh' = fresh \ {t}
      /\ frame' = [frame EXCEPT ![t] = None] /\ target' = [target EXCEPT ![c] = None]
      /\ UNCHANGED <<curr, ready, readyCount, ipc, ipi, next, saved>>
  BY Zenon, <1>1 DEF Return, queues, idle
<1>4. state[t] \in Ready
  BY Zenon, <1>1, <1>3 DEF SInv, ReadyInv
<1>5. t \notin fresh => frame[t] \in CPUs
  <2>1. \A d \in CPUs : ~(curr[d] = t /\ cpc[d] \in {"thread", "pick"})
    <3>1. \A d \in CPUs : curr[d] = t => d = c
      BY Zenon, <1>1 DEF SInv, PlaceInv
    <3> QED
      BY <1>3, <3>1
  <2>2. t \notin fresh => frame[t] # None
    BY Zenon, <2>1 DEF SInv, FrameInv
  <2> QED
    BY <1>2, <2>2
<1>6. PICK k \in {"thread", "pick"} :
        /\ cpc' = [cpc EXCEPT ![c] = k]
        /\ this' \in [CPUs -> CPUs]
        /\ state' = IF k = "pick" THEN [state EXCEPT ![t] = "Finishing"] ELSE state
        /\ pend' \in [All -> Calls] /\ owe' \in [All -> CPUs \cup {None}]
  <2>1. CASE t \notin fresh /\ state[t] = "Cancelled"
    <3>1. /\ cpc' = [cpc EXCEPT ![c] = "pick"] /\ this' = [this EXCEPT ![c] = frame[t]]
          /\ state' = [state EXCEPT ![t] = "Finishing"]
          /\ pend' = [pend EXCEPT ![t] = NoCall] /\ owe' = [owe EXCEPT ![t] = None]
      BY Zenon, <1>1, <2>1 DEF Return
    <3>2. pend' \in [All -> Calls] /\ owe' \in [All -> CPUs \cup {None}] /\ this' \in [CPUs -> CPUs]
      BY <1>2, <1>5, <2>1, <3>1 DEF Calls
    <3> QED
      BY <3>1, <3>2
  <2>2. CASE ~(t \notin fresh /\ state[t] = "Cancelled")
    <3>1. /\ cpc' = [cpc EXCEPT ![c] = "thread"] /\ this' = [this EXCEPT ![c] = c]
          /\ UNCHANGED <<state, pend, owe>>
      BY Zenon, <1>1, <2>2 DEF Return
    <3>2. this' \in [CPUs -> CPUs]
      BY <1>2, <3>1
    <3> QED
      BY <1>2, <3>1, <3>2
  <2> QED
    BY <2>1, <2>2
<1>7. /\ state' \in [All -> ThreadState]
      /\ \A x \in All : x # t => state'[x] = state[x]
      /\ state'[t] = IF k = "pick" THEN "Finishing" ELSE state[t]
  BY <1>2, <1>6 DEF ThreadState
<1>8. /\ cpc' \in [CPUs -> Points] /\ target' \in [CPUs -> CPUs \cup {None}]
      /\ prev' \in [CPUs -> All \cup {None}] /\ frame' \in [All -> CPUs \cup {None}] /\ fresh' \subseteq Threads
      /\ target'[c] = None /\ \A d \in CPUs : d # c => target'[d] = target[d] /\ prev'[d] = prev[d]
      /\ cpc'[c] = k /\ \A d \in CPUs : d # c => cpc'[d] = cpc[d]
      /\ \A x \in All : x # t => frame'[x] = frame[x]
  BY <1>2, <1>3, <1>6 DEF Points
<1>9. STypeOK'
  BY Zenon, <1>3, <1>6, <1>7, <1>8 DEF SInv, STypeOK
<1>10. /\ ~Leaves(c) /\ k # "switch" /\ k \notin {"post", "destroy"} /\ k # "destroy"
       /\ \A x \in All : x # curr[c] => (state'[x] \in Ready <=> state[x] \in Ready)
       /\ state'[curr[c]] \in Ready <=> (k # "pick" \/ target'[c] # None)
       /\ \A x \in All : state[x] \in Gone => state'[x] \in Gone
  BY Zenon, <1>1, <1>3, <1>4, <1>7, <1>8 DEF Leaves, Gone, Ready
<1>11. QueueInv' /\ PlaceInv' /\ ReadyInv' /\ PrevInv'
  BY Zenon, <1>3, <1>6, <1>8, <1>10, LocalStep
<1>12. FrameInv'
  <2> SUFFICES ASSUME NEW x \in All, frame'[x] = None, x \notin fresh'
               PROVE  \E d \in CPUs : curr'[d] = x /\ cpc'[d] \in {"thread", "pick"}
    BY Zenon DEF FrameInv
  <2>1. CASE x = t
    BY Zenon, <1>1, <1>3, <1>8, <2>1
  <2>2. CASE x # t
    <3>1. frame[x] = None /\ x \notin fresh
      BY <1>3, <1>8, <2>2
    <3>2. PICK d \in CPUs : curr[d] = x /\ cpc[d] \in {"thread", "pick"}
      BY Zenon, <3>1 DEF SInv, FrameInv
    <3> QED
      BY Zenon, <1>1, <1>3, <1>8, <2>2, <3>2
  <2> QED
    BY Zenon, <2>1, <2>2
<1> QED
  BY <1>9, <1>11, <1>12 DEF SInv

\* A thread that was nowhere is put on a ready queue.
LEMMA ArriveStep ==
  ASSUME SInv, NEW t \in All, NEW e \in CPUs, NEW x \in Ready, state[t] \notin Gone,
         \A d \in CPUs : curr[d] # t /\ t \notin InQueue[d] /\ ~(Leaves(d) /\ prev[d] = t),
         Enqueue(e, t), state' = [state EXCEPT ![t] = x],
         UNCHANGED <<curr, cpc, target, prev, frame, fresh>>
  PROVE  /\ ready' \in [CPUs -> [Classes -> Seq(All)]] /\ readyCount' \in [CPUs -> Int]
         /\ state' \in [All -> ThreadState]
         /\ QueueInv' /\ PlaceInv' /\ ReadyInv' /\ PrevInv' /\ FrameInv'
<1>1. /\ ready' \in [CPUs -> [Classes -> Seq(All)]] /\ readyCount' \in [CPUs -> Int]
      /\ QueueInv' /\ InQueue' = [InQueue EXCEPT ![e] = @ \cup {t}]
  BY Zenon, EnqueueEffect DEF SInv
<1>2. InQueue'[e] = InQueue[e] \cup {t} /\ \A d \in CPUs : d # e => InQueue'[d] = InQueue[d]
  BY <1>1, InQueueType
<1>3. /\ state' \in [All -> ThreadState] /\ state'[t] \in Ready
      /\ \A u \in All : u # t => state'[u] = state[u]
  BY Zenon DEF SInv, STypeOK, Ready, ThreadState
<1>4. \A d \in CPUs : Leaves(d)' <=> Leaves(d)
  BY Zenon DEF Leaves
<1>5. \A d \in CPUs : curr[d] \in All /\ (Leaves(d) => prev[d] \in All)
  BY Zenon DEF SInv, STypeOK, PrevInv, Leaves
<1>6. \A u \in All, d \in CPUs : u \in InQueue'[d] <=> (u \in InQueue[d] \/ (u = t /\ d = e))
  BY Zenon, <1>2
<1>7. PlaceInv'
  <2>1. PlaceInv
    BY DEF SInv
  <2>2. \A a, d \in CPUs : curr'[a] \notin InQueue'[d]
    BY <1>5, <1>6, <2>1 DEF PlaceInv
  <2>3. \A u \in All : \A a, d \in CPUs : u \in InQueue'[a] /\ u \in InQueue'[d] => a = d
    BY <1>6, <2>1 DEF PlaceInv
  <2>4. \A a, d \in CPUs : Leaves(a) => prev[a] \notin InQueue'[d]
    BY <1>5, <1>6, <2>1 DEF PlaceInv
  <2> QED
    BY Zenon, <1>4, <2>1, <2>2, <2>3, <2>4 DEF PlaceInv
<1>8. ReadyInv'
  <2>1. ReadyInv
    BY DEF SInv
  <2>2. ASSUME NEW u \in All, state'[u] \in Ready
        PROVE  \E d \in CPUs : curr'[d] = u \/ u \in InQueue'[d] \/ (Leaves(d)' /\ prev'[d] = u)
    <3>1. CASE u = t
      BY <1>6, <3>1
    <3>2. CASE u # t
      <4>1. PICK d \in CPUs : curr[d] = u \/ u \in InQueue[d] \/ (Leaves(d) /\ prev[d] = u)
        BY Zenon, <1>3, <2>1, <2>2, <3>2 DEF ReadyInv
      <4> QED
        BY Zenon, <1>4, <1>6, <4>1
    <3> QED
      BY <3>1, <3>2
  <2>3. \A u \in All, d \in CPUs : u \in InQueue'[d] => state'[u] \in Ready
    BY Zenon, <1>3, <1>6, <2>1 DEF ReadyInv
  <2>4. \A d \in CPUs : state'[curr[d]] = state[curr[d]]
    BY Zenon, <1>3, <1>5
  <2>5. \A d \in CPUs : Leaves(d) => state'[prev[d]] = state[prev[d]]
    BY Zenon, <1>3, <1>5
  <2>6. \A d \in CPUs : Leaves(d)' => state'[prev'[d]] \in Ready
    BY <1>4, <2>1, <2>5 DEF ReadyInv
  <2>7. \A d \in CPUs :
          /\ cpc'[d] # "pick" \/ target'[d] # None => state'[curr'[d]] \in Ready
          /\ cpc'[d] = "pick" /\ target'[d] = None => state'[curr'[d]] \notin Ready
    BY <2>1, <2>4 DEF ReadyInv
  <2> QED
    BY Zenon, <2>2, <2>3, <2>6, <2>7 DEF ReadyInv
<1>9. PrevInv'
  <2>1. PrevInv
    BY DEF SInv
  <2>2. \A u \in All : state[u] \in Gone => state'[u] \in Gone
    BY Zenon, <1>3
  <2> QED
    BY <2>1, <2>2 DEF PrevInv, Gone
<1>10. FrameInv'
  BY Zenon DEF SInv, FrameInv
<1> QED
  BY <1>1, <1>3, <1>7, <1>8, <1>9, <1>10

\* A thread that can be woken is nowhere.
LEMMA WakeableIsAway ==
  ASSUME SInv, NEW t \in Threads, Wakeable(t)
  PROVE  /\ t \in All /\ state[t] \notin Gone /\ next[t] \in CPUs
         /\ \A d \in CPUs : curr[d] # t /\ t \notin InQueue[d] /\ ~(Leaves(d) /\ prev[d] = t)
<1>1. t \in All /\ state[t] = "Blocked" /\ next[t] \in CPUs
  BY DEF Wakeable, All, SInv, STypeOK
<1>2. state[t] \notin Ready /\ state[t] \notin Gone
  BY <1>1 DEF Ready, Gone
<1>3. \A d \in CPUs : curr[d] # t
  BY Zenon, <1>2 DEF Wakeable, SInv, ReadyInv
<1>4. \A d \in CPUs : t \notin InQueue[d] /\ ~(Leaves(d) /\ prev[d] = t)
  BY Zenon, <1>1, <1>2 DEF SInv, ReadyInv
<1> QED
  BY <1>1, <1>2, <1>3, <1>4

\* resume() by a thread or by a handler, and cancel().
LEMMA WakeSteps ==
  ASSUME SInv, NEW c \in CPUs, NEW t \in Threads,
         Resume(c, t) \/ InterruptResume(c, t) \/ Cancel(c, t)
  PROVE  SInv'
<1>1. /\ curr[c] \in All /\ ipi \in [CPUs -> BOOLEAN] /\ owe \in [All -> CPUs \cup {None}]
      /\ next \in [All -> CPUs] /\ t \in All /\ state \in [All -> ThreadState]
  BY DEF SInv, STypeOK, All
<1>2. UNCHANGED <<curr, cpc, this, target, prev, ipc, next, frame, saved, fresh, pend>>
  BY Zenon DEF Resume, InterruptResume, Cancel, cpuvars, idle
<1>3. ipi' \in [CPUs -> BOOLEAN] /\ owe' \in [All -> CPUs \cup {None}]
  <2>1. CASE Resume(c, t)
    BY <1>1, <2>1 DEF Resume
  <2>2. CASE InterruptResume(c, t)
    BY Zenon, <1>1, <2>2 DEF InterruptResume, WakeNeeded
  <2>3. CASE Cancel(c, t)
    BY Zenon, <1>1, <2>3 DEF Cancel
  <2> QED
    BY <2>1, <2>2, <2>3
<1>4. CASE Wakeable(t)
  <2>1. PICK x \in Ready : state' = [state EXCEPT ![t] = x] /\ Enqueue(next[t], t)
    <3>1. "Running" \in Ready /\ "Cancelled" \in Ready /\ state[t] # "Running"
      BY <1>4 DEF Ready, Wakeable
    <3> QED
      BY Zenon, <1>4, <3>1 DEF Resume, InterruptResume, Cancel
  <2>2. /\ ready' \in [CPUs -> [Classes -> Seq(All)]] /\ readyCount' \in [CPUs -> Int]
        /\ state' \in [All -> ThreadState]
        /\ QueueInv' /\ PlaceInv' /\ ReadyInv' /\ PrevInv' /\ FrameInv'
    BY Zenon, <1>2, <1>4, <2>1, WakeableIsAway, ArriveStep
  <2>3. STypeOK'
    BY Zenon, <1>2, <1>3, <2>2 DEF SInv, STypeOK
  <2> QED
    BY <2>2, <2>3 DEF SInv
<1>5. CASE ~Wakeable(t)
  <2>1. /\ state[t] = "Running" /\ state' = [state EXCEPT ![t] = "Cancelled"]
        /\ UNCHANGED <<ready, readyCount>>
    BY Zenon, <1>5 DEF Resume, InterruptResume, Cancel, queues
  <2>2. /\ state' \in [All -> ThreadState]
        /\ \A u \in All : state'[u] \in Ready <=> state[u] \in Ready
        /\ \A u \in All : state[u] \in Gone => state'[u] \in Gone
    BY <1>1, <2>1 DEF Ready, Gone, ThreadState
  <2>3. InQueue' = InQueue /\ QueueInv'
    BY <2>1, SameQueues DEF SInv
  <2>4. \A d \in CPUs : Leaves(d)' <=> Leaves(d)
    BY Zenon, <1>2 DEF Leaves
  <2>5. \A d \in CPUs : curr[d] \in All /\ (Leaves(d) => prev[d] \in All)
    BY DEF SInv, STypeOK, PrevInv, Leaves
  <2>6. PlaceInv' /\ FrameInv'
    BY Zenon, <1>2, <2>3, <2>4 DEF SInv, PlaceInv, FrameInv
  <2>7. ReadyInv'
    BY Zenon, <1>2, <2>2, <2>3, <2>4, <2>5 DEF SInv, ReadyInv
  <2>8. PrevInv'
    BY Zenon, <1>2, <2>2 DEF SInv, PrevInv, Gone
  <2>9. STypeOK'
    BY <1>2, <1>3, <2>1, <2>2 DEF SInv, STypeOK
  <2> QED
    BY <2>3, <2>6, <2>7, <2>8, <2>9 DEF SInv
<1> QED
  BY <1>4, <1>5

\* stackSwitch and postSwitch: a preempted thread reaches its ready queue.
LEMMA StackSwitchStep ==
  ASSUME SInv, NEW c \in CPUs, Switch(c)
  PROVE  SInv'
<1>1. PICK t \in All : t = prev[c]
  BY Zenon DEF Switch, SInv, PrevInv
<1>2. /\ cpc \in [CPUs -> Points] /\ saved \in [All -> BOOLEAN] /\ ipi \in [CPUs -> BOOLEAN]
      /\ next[t] \in CPUs /\ curr \in [CPUs -> All] /\ state[curr[c]] \in Ready
  BY Zenon DEF Switch, SInv, STypeOK, ReadyInv
<1>3. /\ cpc[c] = "switch" /\ cpc' = [cpc EXCEPT ![c] = "post"]
      /\ saved' = [saved EXCEPT ![t] = TRUE, ![curr[c]] = FALSE]
      /\ UNCHANGED <<curr, this, target, prev, ipc, state, next, frame, fresh, pend, owe>>
      /\ \/ target[c] = None /\ UNCHANGED <<ready, readyCount, ipi>>
         \/ /\ target[c] # None /\ Enqueue(next[t], t)
            /\ ipi' = [ipi EXCEPT ![next[t]] = @ \/ WakeNeeded(next[t])]
  BY Zenon, <1>1 DEF Switch, queues, idle
<1>4. /\ cpc' \in [CPUs -> Points] /\ saved' \in [All -> BOOLEAN] /\ ipi' \in [CPUs -> BOOLEAN]
      /\ cpc'[c] = "post" /\ \A d \in CPUs : d # c => cpc'[d] = cpc[d]
  BY Zenon, <1>2, <1>3 DEF Points, WakeNeeded
<1>5. FrameInv'
  <2>1. cpc[c] \in {"thread", "pick"} => "post" \in {"thread", "pick"}
    BY Zenon, <1>3
  <2> QED
    BY Zenon, <1>3, <2>1, FrameStands
<1>6. CASE target[c] = None
  <2>1. UNCHANGED <<ready, readyCount>>
    BY Zenon, <1>3, <1>6
  <2>2. ~Leaves(c) /\ "post" # "switch" /\ "post" # "destroy" /\ "post" # "pick" /\ prev'[c] \in All
    BY Zenon, <1>1, <1>3, <1>6 DEF Leaves
  <2>3. \A d \in CPUs : d # c => target'[d] = target[d] /\ prev'[d] = prev[d]
    BY ZenonT(60), <1>3
  <2>4. QueueInv' /\ PlaceInv' /\ ReadyInv' /\ PrevInv'
    BY Zenon, <1>2, <1>3, <2>1, <2>2, <2>3, LocalStep
  <2>5. STypeOK'
    BY Zenon, <1>3, <1>4, <2>1 DEF SInv, STypeOK
  <2> QED
    BY <1>5, <2>4, <2>5 DEF SInv
<1>7. CASE target[c] # None
  <2>1. Leaves(c) /\ PlaceInv /\ ReadyInv /\ PrevInv
    BY Zenon, <1>3, <1>7 DEF Leaves, SInv
  <2>2. /\ \A d \in CPUs : curr[d] # t /\ t \notin InQueue[d]
        /\ \A d \in CPUs : d # c => ~(Leaves(d) /\ prev[d] = t)
        /\ state[t] \in Ready
    BY Zenon, <1>1, <2>1 DEF PlaceInv, ReadyInv
  <2>3. PICK e \in CPUs : e = next[t] /\ Enqueue(e, t)
    BY Zenon, <1>2, <1>3, <1>7
  <2>4. /\ ready' \in [CPUs -> [Classes -> Seq(All)]] /\ readyCount' \in [CPUs -> Int]
        /\ QueueInv' /\ InQueue' = [InQueue EXCEPT ![e] = @ \cup {t}]
    BY Zenon, <2>2, <2>3, EnqueueEffect DEF SInv
  <2>5. \A u \in All, d \in CPUs : u \in InQueue'[d] <=> (u \in InQueue[d] \/ (u = t /\ d = e))
    BY <2>4, InQueueType
  <2>6. /\ ~Leaves(c)' /\ \A d \in CPUs : d # c => (Leaves(d)' <=> Leaves(d))
    BY Zenon, <1>3, <1>4 DEF Leaves
  <2>7. \A d \in CPUs : Leaves(d) => prev[d] \in All
    BY <2>1 DEF PrevInv, Leaves
  <2>8. PlaceInv'
    <3>1. \A a, d \in CPUs : curr'[a] \notin InQueue'[d]
      BY Zenon, <1>2, <1>3, <2>1, <2>2, <2>5 DEF PlaceInv
    <3>2. \A u \in All : \A a, d \in CPUs : u \in InQueue'[a] /\ u \in InQueue'[d] => a = d
      BY <2>1, <2>2, <2>5 DEF PlaceInv
    <3>3. \A a, d \in CPUs : Leaves(a)' => Leaves(a) /\ prev[a] \notin InQueue'[d]
      BY <2>1, <2>2, <2>5, <2>6, <2>7 DEF PlaceInv
    <3>4. \A d \in CPUs : Leaves(d)' => Leaves(d)
      BY Zenon, <2>6
    <3> QED
      BY Zenon, <1>3, <2>1, <3>1, <3>2, <3>3, <3>4 DEF PlaceInv
  <2>9. ReadyInv'
    <3>1. ASSUME NEW u \in All, state'[u] \in Ready
          PROVE  \E d \in CPUs : curr'[d] = u \/ u \in InQueue'[d] \/ (Leaves(d)' /\ prev'[d] = u)
      <4>1. PICK d \in CPUs : curr[d] = u \/ u \in InQueue[d] \/ (Leaves(d) /\ prev[d] = u)
        BY Zenon, <1>3, <2>1, <3>1 DEF ReadyInv
      <4>2. CASE u = t
        BY Zenon, <2>5, <4>2
      <4>3. CASE u # t
        BY Zenon, <1>1, <1>3, <2>5, <2>6, <4>1, <4>3
      <4> QED
        BY Zenon, <4>2, <4>3
    <3>2. \A u \in All, d \in CPUs : u \in InQueue'[d] => state'[u] \in Ready
      BY Zenon, <1>3, <2>1, <2>2, <2>5 DEF ReadyInv
    <3>3. \A d \in CPUs : Leaves(d)' => state'[prev'[d]] \in Ready
      BY Zenon, <1>3, <2>1, <2>6 DEF ReadyInv
    <3>4. ASSUME NEW d \in CPUs
          PROVE  /\ cpc'[d] # "pick" \/ target'[d] # None => state'[curr'[d]] \in Ready
                 /\ cpc'[d] = "pick" /\ target'[d] = None => state'[curr'[d]] \notin Ready
      <4>1. CASE d = c
        BY Zenon, <1>2, <1>3, <1>4, <4>1
      <4>2. CASE d # c
        BY Zenon, <1>3, <1>4, <2>1, <4>2 DEF ReadyInv
      <4> QED
        BY <4>1, <4>2
    <3> QED
      BY Zenon, <3>1, <3>2, <3>3, <3>4 DEF ReadyInv
  <2>10. PrevInv'
    BY Zenon, <1>1, <1>3, <1>4, <2>1 DEF PrevInv
  <2>11. STypeOK'
    BY Zenon, <1>3, <1>4, <2>4 DEF SInv, STypeOK
  <2> QED
    BY <1>5, <2>4, <2>8, <2>9, <2>10, <2>11 DEF SInv
<1> QED
  BY <1>6, <1>7

-----------------------------------------------------------------------------
(* The invariant, and what it says. *)

\* The threads started on a processor, in some order.
LEMMA StartQueueFacts ==
  ASSUME NEW c \in CPUs, NEW p \in {0, 1}
  PROVE  /\ StartQueue(c, p) \in Seq(All) /\ IsInjective(StartQueue(c, p))
         /\ Range(StartQueue(c, p)) = {t \in Threads : Home[t] = c /\ Priority[t] = p}
<1> DEFINE S == {t \in Threads : Home[t] = c /\ Priority[t] = p}
           n == Cardinality(S)
           q == StartQueue(c, p)
<1>1. IsFiniteSet(S)
  BY FS_Subset, SchedulerAssumption
<1>2. n \in Nat /\ Bijection(1..n, S) # {}
  BY Zenon, <1>1, FS_CardinalityType DEF ExistsBijection
<1>3. q \in Bijection(1..n, S)
  BY <1>2 DEF StartQueue
<1>4. q \in [1..n -> S] /\ IsInjective(q) /\ \A t \in S : \E i \in 1..n : q[i] = t
  BY <1>3 DEF Bijection, Injection, Surjection
<1>5. S \subseteq All
  BY DEF All
<1>6. Range(q) = S
  BY <1>4 DEF Range
<1>7. q \in Seq(All)
  <2>1. q \in [1..n -> All]
    BY <1>4, <1>5
  <2> HIDE DEF q, n, S
  <2> QED
    BY <1>2, <2>1 DEF Seq
<1> QED
  BY Zenon, <1>4, <1>6, <1>7

\* The threads that have just been started are queued, the idle threads run.
LEMMA SInitially ==
  ASSUME SInit
  PROVE  SInv /\ CountInv
<1> USE SchedulerAssumption
<1>1. \A c \in CPUs : /\ ready[c] \in [Classes -> Seq(All)]
                      /\ ready[c][0] = StartQueue(c, 0) /\ ready[c][1] = StartQueue(c, 1)
                      /\ ready[c][2] = <<>>
  <2> SUFFICES ASSUME NEW c \in CPUs
               PROVE  /\ ready[c] \in [Classes -> Seq(All)]
                      /\ ready[c][0] = StartQueue(c, 0) /\ ready[c][1] = StartQueue(c, 1)
                      /\ ready[c][2] = <<>>
    OBVIOUS
  <2>1. ready[c] = [p \in 0..idlePriority |-> IF p = idlePriority THEN <<>> ELSE StartQueue(c, p)]
    BY Zenon DEF SInit
  <2>2. StartQueue(c, 0) \in Seq(All) /\ StartQueue(c, 1) \in Seq(All)
    BY StartQueueFacts
  <2>3. ASSUME NEW p \in 0..idlePriority, p # idlePriority PROVE StartQueue(c, p) \in Seq(All)
    <3>1. p = 0 \/ p = 1
      BY <2>3 DEF idlePriority
    <3> QED
      BY <2>2, <3>1
  <2>4. <<>> \in Seq(All)
    BY SeqEmpty
  <2>5. ready[c] \in [Classes -> Seq(All)]
    BY <2>1, <2>3, <2>4 DEF Classes
  <2> QED
    BY <2>1, <2>5 DEF idlePriority
<1>2. \A c \in CPUs : readyCount[c] = Len(ready[c][0]) + Len(ready[c][1])
  BY Zenon DEF SInit
<1>3. \A c \in CPUs : Len(ready[c][0]) \in Nat /\ Len(ready[c][1]) \in Nat /\ Len(ready[c][2]) = 0
  BY <1>1, StartQueueFacts, SeqLength, SeqEmpty
<1>4. STypeOK
  <2>1. ready \in [CPUs -> [Classes -> Seq(All)]]
    BY Zenon, <1>1 DEF SInit
  <2>2. readyCount \in [CPUs -> Int]
    <3>1. \A c \in CPUs : Len(ready[c][0]) + Len(ready[c][1]) \in Int
      BY <1>3
    <3> QED
      BY Zenon, <3>1 DEF SInit
  <2>3. next \in [All -> CPUs]
    <3>1. \A t \in All : t \notin Threads => \E c \in CPUs : IdleOf[c] = t
      BY DEF All, Idlers
    <3>2. \A t \in All : t \notin Threads => (CHOOSE c \in CPUs : IdleOf[c] = t) \in CPUs
      BY Zenon, <3>1
    <3> QED
      BY <3>2 DEF SInit
  <2>4. curr \in [CPUs -> All] /\ this \in [CPUs -> CPUs] /\ fresh \subseteq Threads
    BY DEF SInit, All, Idlers
  <2>5. pend \in [All -> Calls] /\ saved \in [All -> BOOLEAN] /\ state \in [All -> ThreadState]
    BY DEF SInit, Calls, ThreadState
  <2>6. /\ cpc \in [CPUs -> Points] /\ target \in [CPUs -> CPUs \cup {None}]
        /\ prev \in [CPUs -> All \cup {None}] /\ ipc \in [CPUs -> {"spin", "try", "test", "halt"}]
        /\ ipi \in [CPUs -> BOOLEAN]
        /\ frame \in [All -> CPUs \cup {None}] /\ owe \in [All -> CPUs \cup {None}]
    BY DEF SInit, Points
  <2> QED
    BY <2>1, <2>2, <2>3, <2>4, <2>5, <2>6 DEF STypeOK
<1>5. CountInv
  <2>1. \A a, b \in Nat : a + b = a + b + 0
    OBVIOUS
  <2> QED
    BY Zenon, <1>2, <1>3, <2>1 DEF CountInv
<1>6. \A c \in CPUs, t \in All : t \in InQueue[c] <=> t \in Threads /\ Home[t] = c
  <2> SUFFICES ASSUME NEW c \in CPUs, NEW t \in All
               PROVE  Queued(t, c) <=> t \in Threads /\ Home[t] = c
    BY DEF InQueue
  <2>1. CASE t \in Idlers
    <3>1. Class(t) = 2 /\ t \notin Threads
      BY <2>1 DEF Class, idlePriority
    <3> QED
      BY <1>1, <3>1 DEF Queued, Range
  <2>2. CASE t \in Threads /\ Priority[t] = 0
    <3>1. Class(t) = 0 /\ t \notin Idlers
      BY <2>2 DEF Class
    <3> QED
      BY <1>1, <2>2, <3>1, StartQueueFacts DEF Queued
  <2>3. CASE t \in Threads /\ Priority[t] = 1
    <3>1. Class(t) = 1 /\ t \notin Idlers
      BY <2>3 DEF Class
    <3> QED
      BY <1>1, <2>3, <3>1, StartQueueFacts DEF Queued
  <2>4. t \in Threads => Priority[t] \in {0, 1}
    BY DEF idlePriority
  <2> QED
    BY <2>1, <2>2, <2>3, <2>4 DEF All
<1>7. QueueInv
  <2> SUFFICES ASSUME NEW c \in CPUs, NEW p \in Classes
               PROVE  IsInjective(ready[c][p]) /\ \A t \in Range(ready[c][p]) : Class(t) = p
    BY DEF QueueInv
  <2>1. p \in {0, 1, 2}
    BY DEF Classes, idlePriority
  <2>2. CASE p = 2
    BY <1>1, <2>2 DEF IsInjective, Range
  <2>3. CASE p \in {0, 1}
    <3>1. ready[c][p] = StartQueue(c, p)
      BY <1>1, <2>3
    <3>2. \A t \in Threads : t \notin Idlers
      OBVIOUS
    <3> QED
      BY <2>3, <3>1, <3>2, StartQueueFacts DEF Class
  <2> QED
    BY <2>1, <2>2, <2>3
<1>8. /\ \A c \in CPUs : curr[c] = IdleOf[c] /\ cpc[c] = "thread" /\ curr[c] \in Idlers /\ curr[c] \notin Threads
      /\ \A t \in All : state[t] = "Running" /\ (t \in fresh <=> t \in Threads)
      /\ \A c \in CPUs : ~Leaves(c)
  BY DEF SInit, Leaves, All, Idlers
<1>9. PlaceInv
  <2>1. \A t \in Threads : t \in All
    BY DEF All
  <2>2. \A c \in CPUs : curr[c] \in All
    BY <1>4 DEF STypeOK
  <2> QED
    BY <1>6, <1>8, <2>1, <2>2 DEF PlaceInv
<1>10. \A t \in All \ Threads : \E c \in CPUs : curr[c] = t
  BY <1>8 DEF All, Idlers
<1>11. ReadyInv
  <2>1. ASSUME NEW t \in All PROVE \E c \in CPUs : curr[c] = t \/ t \in InQueue[c]
    <3>1. CASE t \in Threads
      <4>1. Home[t] \in CPUs
        BY <3>1
      <4> QED
        BY Zenon, <1>6, <3>1, <4>1
    <3>2. CASE t \notin Threads
      BY Zenon, <1>10, <3>2
    <3> QED
      BY <3>1, <3>2
  <2>2. \A t \in All : state[t] \in Ready
    BY <1>8 DEF Ready
  <2>3. \A c \in CPUs : curr[c] \in All /\ cpc[c] # "pick" /\ ~Leaves(c)
    BY <1>4, <1>8 DEF STypeOK
  <2> QED
    BY Zenon, <2>1, <2>2, <2>3 DEF ReadyInv
<1>12. PrevInv /\ FrameInv
  <2>1. PrevInv
    BY Zenon, <1>8 DEF PrevInv
  <2>2. FrameInv
    <3>1. \A t \in All : t \notin fresh => \E c \in CPUs : curr[c] = t
      BY Zenon, <1>8, <1>10
    <3>2. \A c \in CPUs : cpc[c] \in {"thread", "pick"}
      BY Zenon, <1>8
    <3> QED
      BY Zenon, <3>1, <3>2 DEF FrameInv
  <2> QED
    BY Zenon, <2>1, <2>2
<1> QED
  BY <1>4, <1>5, <1>7, <1>9, <1>11, <1>12 DEF SInv

\* Every step of the scheduler keeps the invariant.
LEMMA SInvStep ==
  ASSUME SInv, [SNext]_vars
  PROVE  SInv'
<1>1. CASE UNCHANGED vars
  <2>1. UNCHANGED <<curr, cpc, this, target, prev, ready, readyCount, ipc, ipi, state, next,
                    frame, saved, fresh, pend, owe>>
    BY Zenon, <1>1 DEF vars, cpuvars, queues, idle, threadvars
  <2>2. STypeOK'
    BY <2>1 DEF SInv, STypeOK
  <2>3. InQueue' = InQueue /\ QueueInv' /\ \A d \in CPUs : Leaves(d)' <=> Leaves(d)
    BY Zenon, <2>1, SameQueues DEF SInv, Leaves
  <2>4. PlaceInv' /\ ReadyInv'
    BY Zenon, <2>1, <2>3 DEF SInv, PlaceInv, ReadyInv
  <2>5. PrevInv' /\ FrameInv'
    BY Zenon, <2>1 DEF SInv, PrevInv, FrameInv
  <2> QED
    BY <2>2, <2>3, <2>4, <2>5 DEF SInv
<1>2. CASE SNext
  <2>1. PICK c \in CPUs : \/ SwitchStep(c) \/ (\E s \in CPUs : IdleStep(c, s)) \/ ThreadStep(c)
                          \/ PreemptIPI(c) \/ Interrupt(c) \/ \E t \in Threads : InterruptResume(c, t)
    BY Zenon, <1>2 DEF SNext
  <2>2. CASE SwitchStep(c)
    BY Zenon, <2>2, AfterSteps, PickStep, StackSwitchStep, ReturnStep DEF SwitchStep
  <2>3. CASE \E s \in CPUs : IdleStep(c, s)
    BY Zenon, <2>3, QuietSteps, CallSteps DEF IdleStep
  <2>4. CASE ThreadStep(c)
    BY Zenon, <2>4, QuietSteps, CallSteps, WakeSteps DEF ThreadStep
  <2>5. CASE PreemptIPI(c) \/ Interrupt(c)
    BY Zenon, <2>5, QuietSteps, CallSteps
  <2>6. CASE \E t \in Threads : InterruptResume(c, t)
    BY Zenon, <2>6, WakeSteps
  <2> QED
    BY <2>1, <2>2, <2>3, <2>4, <2>5, <2>6
<1> QED
  BY <1>1, <1>2

\* The invariant holds for every number of processors and threads, whatever
\* they are allowed to do.
THEOREM SchedulerInvariance == SSpec => []SInv
<1>1. SInit => SInv
  BY SInitially
<1>2. SInv /\ [SNext]_vars => SInv'
  BY SInvStep
<1> QED
  BY <1>1, <1>2, PTL DEF SSpec

\* The places of a thread, as a set: none, or a single one.
LEMMA PlacesBound ==
  ASSUME SInv, NEW t \in All
  PROVE  /\ Places(t) = {} \/ \E x : Places(t) = {x}
         /\ state[t] \in Ready => Places(t) # {}
<1>1. PlaceInv /\ ReadyInv /\ PrevInv
  BY DEF SInv
<1>2. \A c \in CPUs : Queued(t, c) <=> t \in InQueue[c]
  BY DEF InQueue
<1>3. \A c, d \in CPUs :
        /\ curr[c] = t => t \notin InQueue[d] /\ (curr[d] = t => c = d)
        /\ t \in InQueue[c] /\ t \in InQueue[d] => c = d
        /\ Leaves(c) /\ prev[c] = t =>
             /\ curr[d] # t /\ t \notin InQueue[d]
             /\ Leaves(d) /\ prev[d] = t => c = d
  BY <1>1 DEF PlaceInv
<1>4. \A x \in Places(t) : \E c \in CPUs :
        \/ x = <<"runs", c>> /\ curr[c] = t
        \/ x = <<"leaves", c>> /\ Leaves(c) /\ prev[c] = t
        \/ x = <<"queued", c>> /\ t \in InQueue[c]
  BY <1>2 DEF Places, Leaves
<1>5. ASSUME NEW x \in Places(t), NEW y \in Places(t) PROVE x = y
  <2>1. PICK c \in CPUs :
        \/ x = <<"runs", c>> /\ curr[c] = t
        \/ x = <<"leaves", c>> /\ Leaves(c) /\ prev[c] = t
        \/ x = <<"queued", c>> /\ t \in InQueue[c]
    BY Zenon, <1>4
  <2>2. PICK d \in CPUs :
        \/ y = <<"runs", d>> /\ curr[d] = t
        \/ y = <<"leaves", d>> /\ Leaves(d) /\ prev[d] = t
        \/ y = <<"queued", d>> /\ t \in InQueue[d]
    BY Zenon, <1>4
  <2>3. CASE x = <<"runs", c>> /\ curr[c] = t
    BY Zenon, <1>3, <2>2, <2>3
  <2>4. CASE x = <<"leaves", c>> /\ Leaves(c) /\ prev[c] = t
    BY Zenon, <1>3, <2>2, <2>4
  <2>5. CASE x = <<"queued", c>> /\ t \in InQueue[c]
    BY Zenon, <1>3, <2>2, <2>5
  <2> QED
    BY <2>1, <2>3, <2>4, <2>5
<1>6. state[t] \in Ready => Places(t) # {}
  <2> SUFFICES ASSUME state[t] \in Ready PROVE Places(t) # {}
    OBVIOUS
  <2>1. PICK c \in CPUs : curr[c] = t \/ t \in InQueue[c] \/ (Leaves(c) /\ prev[c] = t)
    BY Zenon, <1>1 DEF ReadyInv
  <2> QED
    BY Zenon, <1>2, <2>1 DEF Places, Leaves
<1> QED
  BY Zenon, <1>5, <1>6

\* No thread is ready twice or runs on two processors, and none that is ready is
\* lost: not even when threads are moved and use another processor's Scheduler.
THEOREM OnePlaceHolds == SSpec => []OnePlace
<1>1. SInv => OnePlace
  <2> SUFFICES ASSUME SInv, NEW t \in All
               PROVE  /\ Cardinality(Places(t)) <= 1
                      /\ \A c \in CPUs : IsInjective(ready[c][Class(t)])
                      /\ state[t] \in {"Running", "Cancelled"} => Cardinality(Places(t)) = 1
    BY DEF OnePlace
  <2>1. \A c \in CPUs : IsInjective(ready[c][Class(t)])
    BY Zenon, ClassType DEF SInv, QueueInv
  <2>2. Places(t) = {} => Cardinality(Places(t)) = 0
    BY Zenon, FS_EmptySet
  <2>3. (\E x : Places(t) = {x}) => Cardinality(Places(t)) = 1
    BY Zenon, FS_Singleton
  <2>4. /\ Places(t) = {} \/ \E x : Places(t) = {x}
        /\ state[t] \in Ready => Places(t) # {}
    BY Zenon, PlacesBound
  <2>5. /\ Cardinality(Places(t)) \in {0, 1}
        /\ state[t] \in Ready => Cardinality(Places(t)) = 1
    BY Zenon, <2>2, <2>3, <2>4
  <2>6. \A n \in {0, 1} : n <= 1
    OBVIOUS
  <2> QED
    BY Zenon, <2>1, <2>5, <2>6 DEF Ready
<1> QED
  BY <1>1, SchedulerInvariance, PTL

-----------------------------------------------------------------------------
(* A processor's own Scheduler. *)

\* An idle thread stays with the processor that created it.
LEMMA BaseType ==
  /\ \A t \in All : Base(t) \in CPUs
  /\ \A c \in CPUs : IdleOf[c] \in All /\ IdleOf[c] \in Stay /\ Base(IdleOf[c]) = c
  /\ \A t \in Idlers : t \in Stay /\ t = IdleOf[Base(t)]
  /\ Stay \subseteq All
<1>1. ASSUME NEW t \in Idlers
      PROVE  /\ (CHOOSE c \in CPUs : IdleOf[c] = t) \in CPUs
             /\ IdleOf[CHOOSE c \in CPUs : IdleOf[c] = t] = t
  BY DEF Idlers
<1>2. \A t \in Idlers : t \notin Threads /\ t \in All /\ t \in Stay
  BY SchedulerAssumption DEF All, Stay
<1>3. \A t \in Idlers : Base(t) \in CPUs /\ IdleOf[Base(t)] = t
  BY Zenon, <1>1, <1>2 DEF Base
<1>4. \A t \in Threads : Base(t) \in CPUs
  BY SchedulerAssumption DEF Base
<1>5. \A c \in CPUs : IdleOf[c] \in Idlers
  BY DEF Idlers
<1>6. \A c \in CPUs : Base(IdleOf[c]) = c
  BY Zenon, <1>3, <1>5, SchedulerAssumption
<1> QED
  BY <1>2, <1>3, <1>4, <1>5, <1>6, SchedulerAssumption DEF All, Stay

\* A processor that moves on outside of a stack switch leaves the stacks alone.
LEMMA StackStands ==
  ASSUME SInv, StackInv, StackIsSaved, NEW c \in CPUs, NEW k, k # "switch",
         cpc[c] # "switch", cpc' = [cpc EXCEPT ![c] = k],
         UNCHANGED <<curr, ready, next, saved>>,
         \A d \in CPUs : d # c => target'[d] = target[d] /\ prev'[d] = prev[d]
  PROVE  StackInv' /\ StackIsSaved'
<1>1. cpc'[c] = k /\ \A d \in CPUs : d # c => cpc'[d] = cpc[d]
  BY Zenon DEF SInv, STypeOK
<1>2. InQueue' = InQueue
  BY SameQueues
<1>3. StackIsSaved'
  BY <1>1 DEF StackIsSaved
<1>4. ASSUME NEW t \in All, ~saved'[t]
      PROVE  \E d \in CPUs : \/ curr'[d] = t /\ cpc'[d] # "switch"
                             \/ prev'[d] = t /\ cpc'[d] = "switch"
  <2>1. PICK d \in CPUs : \/ curr[d] = t /\ cpc[d] # "switch"
                          \/ prev[d] = t /\ cpc[d] = "switch"
    BY Zenon, <1>4 DEF StackInv
  <2> QED
    BY <1>1, <2>1
<1>5. ASSUME NEW d \in CPUs, cpc'[d] = "switch", target'[d] = None
      PROVE  /\ next'[prev'[d]] = d
             /\ \A e \in CPUs : curr'[e] # prev'[d] /\ (prev'[d] \in InQueue'[e] => e = d)
  <2>1. d # c
    BY <1>1, <1>5
  <2>2. cpc[d] = "switch" /\ target[d] = None /\ prev'[d] = prev[d]
    BY Zenon, <1>1, <1>5, <2>1
  <2>3. /\ next[prev[d]] = d
        /\ \A e \in CPUs : curr[e] # prev[d] /\ (prev[d] \in InQueue[e] => e = d)
    BY Zenon, <2>2 DEF StackInv
  <2> QED
    BY <1>2, <2>2, <2>3
<1> QED
  BY Zenon, <1>3, <1>4, <1>5 DEF StackInv

\* A wake-up that is announced stays announced until the processor looks.
LEMMA WakeStands ==
  ASSUME WakeInv,
         \A t \in Threads : state'[t] \in {"Running", "Blocked"} => state[t] \in {"Running", "Blocked"},
         NoneGone => \A d \in CPUs :
           /\ curr'[d] = IdleOf[d] /\ ipc'[d] \in {"test", "halt"} /\ cpc'[d] # "pick"
           /\ readyCount'[d] > 0
           => \/ Announced(d)'
              \/ /\ curr[d] = IdleOf[d] /\ ipc[d] \in {"test", "halt"} /\ cpc[d] # "pick"
                 /\ readyCount[d] > 0 /\ (Announced(d) => Announced(d)')
  PROVE  WakeInv'
<1>1. NoneGone' => NoneGone
  BY Zenon DEF NoneGone
<1> QED
  BY Zenon, <1>1 DEF WakeInv

\* switchThread is called on the processor's own Scheduler.
LEMMA OwnCall ==
  ASSUME SInv, OwnInv, NEW c \in CPUs, NEW g, cpc[c] = "thread", CallSwitch(c, c, g),
         curr[c] \in Stay => g \in {None, c},
         UNCHANGED <<queues, next, frame, saved>>,
         \A t \in All : pend'[t] = pend[t] \/ pend'[t] = NoCall,
         \A t \in All : state'[t] = "Cancelled" => state[t] = "Cancelled",
         \A t \in Threads : state'[t] \in {"Running", "Blocked"} => state[t] \in {"Running", "Blocked"},
         \A d \in CPUs : d # c => ipc'[d] = ipc[d] /\ ipi'[d] = ipi[d],
         UNCHANGED owe
  PROVE  OwnInv'
<1>1. /\ cpc' = [cpc EXCEPT ![c] = "pick"] /\ this' = [this EXCEPT ![c] = c]
      /\ target' = [target EXCEPT ![c] = g] /\ UNCHANGED <<curr, prev, ready, readyCount>>
  BY Zenon DEF CallSwitch, queues
<1>2. /\ HomeInv /\ StackInv /\ StackIsSaved /\ CountInv /\ WakeInv
      /\ cpc \in [CPUs -> Points] /\ target \in [CPUs -> CPUs \cup {None}]
  BY Zenon DEF OwnInv, SInv, STypeOK
<1>3. /\ cpc'[c] = "pick" /\ target'[c] = g
      /\ \A d \in CPUs : d # c => cpc'[d] = cpc[d] /\ target'[d] = target[d]
  BY <1>1, <1>2
<1>4. CountInv'
  BY Zenon, <1>1, <1>2 DEF CountInv
<1>5. StackInv' /\ StackIsSaved'
  <2>1. "pick" # "switch" /\ cpc[c] # "switch"
    BY Zenon
  <2> QED
    BY Zenon, <1>1, <1>2, <1>3, <2>1, StackStands
<1>6. HomeInv'
  <2>1. this' = [d \in CPUs |-> d]
    BY Zenon, <1>1, <1>2 DEF HomeInv
  <2>2. InQueue' = InQueue
    BY Zenon, <1>1, SameQueues
  <2>3. \A t \in Stay : pend'[t].on \in {None, Base(t)}
    <3>1. \A t \in Stay : t \in All /\ pend[t].on \in {None, Base(t)}
      BY Zenon, <1>2, BaseType DEF HomeInv
    <3>2. NoCall.on = None
      BY DEF NoCall
    <3> QED
      BY Zenon, <3>1, <3>2
  <2>4. \A d \in CPUs : cpc'[d] = "pick" /\ curr'[d] \in Stay => target'[d] \in {None, d}
    BY Zenon, <1>1, <1>2, <1>3 DEF HomeInv
  <2> QED
    BY Zenon, <1>1, <1>2, <2>1, <2>2, <2>3, <2>4 DEF HomeInv
<1>7. WakeInv'
  <2>1. \A d \in CPUs : d # c => (Announced(d) <=> Announced(d)')
    BY Zenon DEF Announced
  <2> QED
    BY Zenon, <1>1, <1>2, <1>3, <2>1, WakeStands
<1> QED
  BY <1>4, <1>5, <1>6, <1>7 DEF OwnInv

\* preempt() keeps a thread that is not to be moved on its processor.
LEMMA PreemptStays ==
  ASSUME SInv, HomeInv, NEW c \in CPUs, curr[c] \in Stay
  PROVE  PreemptTarget(curr[c], c) = c
<1>1. PICK t \in Stay : t = curr[c]
  OBVIOUS
<1>2. next[t] = Base(t) /\ Base(t) = c
  BY Zenon, <1>1 DEF HomeInv
<1>3. Migrate => t \in Pinned \cup Idlers
  BY <1>1 DEF Stay
<1> QED
  BY Zenon, <1>1, <1>2, <1>3 DEF PreemptTarget

\* suspend, yield, terminate, the IPI handlers and the idle loop call
\* switchThread on the Scheduler of the processor they run on.
LEMMA OwnCalls ==
  ASSUME SInv, OwnInv, NEW c \in CPUs,
         \/ Suspend(c) \/ Yield(c) \/ Terminate(c) \/ Interrupt(c)
         \/ \E s \in CPUs : IdlePreempt(c, s)
  PROVE  OwnInv'
<1>1. PICK t \in All : t = curr[c]
  BY Zenon DEF SInv, STypeOK
<1>2. /\ HomeInv /\ pend \in [All -> Calls] /\ state \in [All -> ThreadState]
      /\ ipc \in [CPUs -> {"spin", "try", "test", "halt"}] /\ ipi \in [CPUs -> BOOLEAN]
  BY DEF OwnInv, SInv, STypeOK
<1>3. curr[c] \in Stay => PreemptTarget(t, c) \in {None, c}
  BY <1>1, <1>2, PreemptStays
<1>4. \A x \in {"Blocked", "Finishing"} :
        state' = [state EXCEPT ![t] = x] /\ (x = "Blocked" => state[t] = "Running") =>
          /\ \A u \in All : state'[u] = "Cancelled" => state[u] = "Cancelled"
          /\ \A u \in Threads : state'[u] \in {"Running", "Blocked"} => state[u] \in {"Running", "Blocked"}
  BY <1>1, <1>2 DEF All
<1>5. pend' = [pend EXCEPT ![t] = NoCall] => \A u \in All : pend'[u] = pend[u] \/ pend'[u] = NoCall
  BY <1>1, <1>2
<1>6. pend[t].op # "none" => pend[t].on = c
  <2> SUFFICES ASSUME pend[t].op # "none" PROVE pend[t].on = c
    OBVIOUS
  <2>1. pend[t] # NoCall /\ pend[t].on \in CPUs /\ pend[t].on # None
    BY <1>1, <1>2, SchedulerAssumption DEF NoCall, Calls
  <2>2. t \in Stay
    BY Zenon, <1>1, <1>2, <2>1 DEF HomeInv
  <2>3. pend[t].on \in {None, Base(t)} /\ Base(t) = c
    BY Zenon, <1>1, <1>2, <2>2 DEF HomeInv
  <2> QED
    BY <2>1, <2>3
<1>7. CASE Suspend(c)
  <2>1. /\ cpc[c] = "thread" /\ CallSwitch(c, c, None)
        /\ state' = [state EXCEPT ![t] = "Blocked"] /\ state[t] = "Running"
        /\ UNCHANGED <<queues, ipc, ipi, next, frame, saved, pend, owe>>
    BY Zenon, <1>1, <1>7 DEF Suspend, Free, Executes, idle
  <2> QED
    BY Zenon, <1>4, <2>1, OwnCall
<1>8. CASE Terminate(c)
  <2>1. /\ cpc[c] = "thread" /\ pend[t].op = "terminate" /\ CallSwitch(c, pend[t].on, None)
        /\ state' = [state EXCEPT ![t] = "Finishing"] /\ pend' = [pend EXCEPT ![t] = NoCall]
        /\ UNCHANGED <<queues, ipc, ipi, next, frame, saved, owe>>
    BY Zenon, <1>1, <1>8 DEF Terminate, Executes, idle
  <2>2. CallSwitch(c, c, None)
    BY Zenon, <1>6, <2>1
  <2> QED
    BY Zenon, <1>4, <1>5, <2>1, <2>2, OwnCall
<1>9. CASE Yield(c)
  <2>1. /\ cpc[c] = "thread" /\ pend[t].op = "yield"
        /\ CallSwitch(c, pend[t].on, PreemptTarget(t, pend[t].on))
        /\ pend' = [pend EXCEPT ![t] = NoCall]
        /\ UNCHANGED <<queues, ipc, ipi, state, next, frame, saved, owe>>
    BY Zenon, <1>1, <1>9 DEF Yield, Executes, idle
  <2>2. CallSwitch(c, c, PreemptTarget(t, c))
    BY Zenon, <1>6, <2>1
  <2> QED
    BY Zenon, <1>3, <1>5, <2>1, <2>2, OwnCall
<1>10. CASE Interrupt(c)
  <2>1. /\ cpc[c] = "thread" /\ CallSwitch(c, c, PreemptTarget(t, c))
        /\ ipi' = [ipi EXCEPT ![c] = FALSE]
        /\ ipc' = ipc \/ ipc' = [ipc EXCEPT ![c] = "test"]
        /\ UNCHANGED <<queues, state, next, frame, saved, pend, owe>>
    BY Zenon, <1>1, <1>10 DEF Interrupt, threadvars
  <2>2. \A d \in CPUs : d # c => ipc'[d] = ipc[d] /\ ipi'[d] = ipi[d]
    BY <1>2, <2>1
  <2> QED
    BY Zenon, <1>3, <2>1, <2>2, OwnCall
<1>11. ASSUME NEW s \in CPUs, IdlePreempt(c, s) PROVE OwnInv'
  <2>1. /\ cpc[c] = "thread" /\ t = IdleOf[s] /\ CallSwitch(c, s, PreemptTarget(t, s))
        /\ ipc' = [ipc EXCEPT ![s] = "test"]
        /\ UNCHANGED <<queues, ipi, state, next, frame, saved, pend, owe>>
    BY Zenon, <1>1, <1>11 DEF IdlePreempt, Executes, threadvars
  <2>2. s = c
    <3>1. t \in Stay /\ Base(t) = s
      BY Zenon, <2>1, BaseType
    <3> QED
      BY Zenon, <1>1, <1>2, <3>1 DEF HomeInv
  <2>3. \A d \in CPUs : d # c => ipc'[d] = ipc[d] /\ ipi'[d] = ipi[d]
    BY Zenon, <1>2, <2>1, <2>2
  <2> QED
    BY Zenon, <1>3, <2>1, <2>2, <2>3, OwnCall
<1> QED
  BY <1>7, <1>8, <1>9, <1>10, <1>11

\* Nothing but the idle thread is queued behind the classes of threads.
LEMMA IdleQueueOwn ==
  ASSUME SInv, HomeInv, CountInv, NEW c \in CPUs, curr[c] = IdleOf[c],
         ready[c][0] = <<>>, ready[c][1] = <<>>
  PROVE  readyCount[c] = 0
<1>1. 2 \in Classes /\ idlePriority = 2
  BY DEF Classes, idlePriority
<1>2. PICK q \in Seq(All) : q = ready[c][2]
  BY <1>1, QueuedIsThread DEF SInv
<1>3. ASSUME NEW t \in Range(q) PROVE FALSE
  <2>1. t \in All /\ Class(t) = 2
    BY <1>1, <1>2, <1>3, QueuedIsThread DEF SInv, QueueInv
  <2>2. t \in Idlers
    BY <1>1, <2>1, ClassType
  <2>3. t \in InQueue[c]
    BY <1>2, <1>3, <2>1 DEF InQueue, Queued
  <2>4. Base(t) = c /\ t = IdleOf[Base(t)]
    BY Zenon, <2>2, <2>3, BaseType DEF HomeInv
  <2> QED
    BY ZenonT(60), <2>3, <2>4 DEF SInv, PlaceInv
<1>4. Len(q) = 0
  <2>1. Len(q) \in Nat /\ DOMAIN q = 1..Len(q)
    BY <1>2, SeqLength
  <2>2. Len(q) > 0 => q[1] \in Range(q)
    BY <2>1 DEF Range
  <2> QED
    BY <1>3, <2>1, <2>2
<1>5. Len(ready[c][0]) = 0 /\ Len(ready[c][1]) = 0
  OBVIOUS
<1>6. readyCount[c] = Len(ready[c][0]) + Len(ready[c][1]) + Len(ready[c][2])
  BY Zenon DEF CountInv
<1> QED
  BY <1>2, <1>4, <1>5, <1>6

\* Steps that move no thread and no processor.
LEMMA OwnQuiet ==
  ASSUME SchedulerIsOwn, SInv, OwnInv, NEW c \in CPUs,
         \/ WakeUp(c) \/ PreemptIPI(c)
         \/ \E op \in {"yield", "terminate"} : ReadScheduler(c, op)
         \/ \E s \in CPUs : IdleSpin(c, s) \/ IdleTest(c, s)
  PROVE  OwnInv'
<1>1. UNCHANGED <<curr, cpc, this, target, prev, ready, readyCount, state, next, frame, saved, fresh>>
  BY Zenon DEF WakeUp, PreemptIPI, ReadScheduler, IdleSpin, IdleTest, cpuvars, queues, threadvars
<1>2. InQueue' = InQueue
  BY <1>1, SameQueues
<1>3. /\ HomeInv /\ StackInv /\ StackIsSaved /\ CountInv /\ WakeInv
      /\ ipc \in [CPUs -> {"spin", "try", "test", "halt"}] /\ ipi \in [CPUs -> BOOLEAN]
      /\ pend \in [All -> Calls] /\ owe \in [All -> CPUs \cup {None}] /\ curr[c] \in All
  BY DEF OwnInv, SInv, STypeOK
<1>4. StackInv' /\ StackIsSaved' /\ CountInv'
  BY Zenon, <1>1, <1>2, <1>3 DEF StackInv, StackIsSaved, CountInv
<1>5. HomeInv'
  <2>1. /\ \A t \in Stay : pend'[t].on \in {None, Base(t)}
        /\ \A t \in All \ Stay : pend'[t] = NoCall
    <3>1. CASE pend' = pend
      BY Zenon, <1>3, <3>1 DEF HomeInv
    <3>2. CASE \E op \in {"yield", "terminate"} : ReadScheduler(c, op)
      <4>1. PICK op \in {"yield", "terminate"} : ReadScheduler(c, op)
        BY Zenon, <3>2
      <4>2. PICK t \in All : t = curr[c]
        BY <1>3
      <4>3. /\ t \in Threads /\ op \in Ops[t]
            /\ pend' = [pend EXCEPT ![t] = [op |-> op, on |-> c]]
        BY Zenon, <4>1, <4>2 DEF ReadScheduler, Free
      <4>4. t \in Stay
        <5>1. op # "suspend"
          OBVIOUS
        <5> QED
          BY Zenon, <4>3, <5>1 DEF SchedulerIsOwn, Stay, All
      <4>5. Base(t) = c
        BY Zenon, <1>3, <4>2, <4>4 DEF HomeInv
      <4>6. pend'[t].on = c /\ \A u \in All : u # t => pend'[u] = pend[u]
        BY Zenon, <1>3, <4>3
      <4>7. \A u \in Stay : u # t => pend'[u].on \in {None, Base(u)}
        BY Zenon, <1>3, <4>6, BaseType DEF HomeInv
      <4>8. \A u \in All \ Stay : pend'[u] = NoCall
        BY Zenon, <1>3, <4>4, <4>6 DEF HomeInv
      <4> QED
        BY Zenon, <4>5, <4>6, <4>7, <4>8
    <3> QED
      BY Zenon, <3>1, <3>2 DEF WakeUp, PreemptIPI, IdleSpin, IdleTest, threadvars
  <2> QED
    BY Zenon, <1>1, <1>2, <1>3, <2>1 DEF HomeInv
<1>6. WakeInv'
  <2>1. \A d \in CPUs : Announced(d) => Announced(d)'
    <3>1. CASE WakeUp(c)
      <4>1. PICK t \in All : t = curr[c]
        BY <1>3
      <4>2. ipi' = [ipi EXCEPT ![owe[t]] = TRUE] /\ owe' = [owe EXCEPT ![t] = None] /\ owe[t] # None
        BY Zenon, <3>1, <4>1 DEF WakeUp
      <4>3. /\ owe[t] \in CPUs /\ ipi'[owe[t]] /\ \A d \in CPUs : ipi[d] => ipi'[d]
            /\ \A u \in All : u # t => owe'[u] = owe[u]
        BY <1>3, <4>2
      <4> QED
        BY <4>3 DEF Announced, All
    <3>2. CASE PreemptIPI(c)
      <4>1. ipi' = [ipi EXCEPT ![c] = TRUE] /\ owe' = owe
        BY Zenon, <3>2 DEF PreemptIPI, threadvars
      <4> QED
        BY <1>3, <4>1 DEF Announced
    <3>3. CASE UNCHANGED <<ipi, owe>>
      BY Zenon, <3>3 DEF Announced
    <3> QED
      BY Zenon, <3>1, <3>2, <3>3 DEF ReadScheduler, IdleSpin, IdleTest, threadvars
  <2>2. \A d \in CPUs : ipc'[d] \in {"test", "halt"} => ipc[d] \in {"test", "halt"}
    <3>1. CASE ipc' = ipc
      BY <3>1
    <3>2. ASSUME NEW s \in CPUs, IdleSpin(c, s)
          PROVE  \A d \in CPUs : ipc'[d] \in {"test", "halt"} => ipc[d] \in {"test", "halt"}
      BY Zenon, <1>3, <3>2 DEF IdleSpin
    <3>3. ASSUME NEW s \in CPUs, IdleTest(c, s)
          PROVE  \A d \in CPUs : ipc'[d] \in {"test", "halt"} => ipc[d] \in {"test", "halt"}
      BY Zenon, <1>3, <3>3 DEF IdleTest
    <3> QED
      BY Zenon, <3>1, <3>2, <3>3 DEF WakeUp, PreemptIPI, ReadScheduler, idle
  <2> QED
    BY Zenon, <1>1, <1>3, <2>1, <2>2, WakeStands
<1> QED
  BY <1>4, <1>5, <1>6 DEF OwnInv

\* switchThread finds no other thread, or postResume looks at the old one, or
\* destroys it: the idle thread goes on only if nobody is queued.
LEMMA OwnAfter ==
  ASSUME SInv, OwnInv, NEW c \in CPUs, PickNone(c) \/ PostResume(c) \/ Destroy(c)
  PROVE  OwnInv'
<1>1. /\ HomeInv /\ StackInv /\ StackIsSaved /\ CountInv /\ WakeInv
      /\ cpc \in [CPUs -> Points] /\ target \in [CPUs -> CPUs \cup {None}] /\ curr[c] \in All
      /\ state \in [All -> ThreadState]
      /\ cpc[c] = "destroy" => state[prev[c]] \in Gone
  BY Zenon DEF OwnInv, SInv, STypeOK, PrevInv, Gone
<1>2. /\ UNCHANGED <<curr, this, prev, ready, readyCount, ipc, ipi, next, frame, saved, pend, owe>>
      /\ cpc[c] \in {"pick", "post", "destroy"}
  BY Zenon DEF PickNone, PostResume, Destroy, queues, idle, threadvars
<1>3. PICK k \in {"thread", "destroy", "run"} : cpc' = [cpc EXCEPT ![c] = k]
  BY Zenon DEF PickNone, PostResume, Destroy
<1>4. /\ cpc'[c] = k /\ \A d \in CPUs : d # c => cpc'[d] = cpc[d] /\ target'[d] = target[d]
  BY Zenon, <1>1, <1>3 DEF PickNone, PostResume, Destroy
<1>5. \A t \in All : state'[t] = state[t] \/ state'[t] = "Freed"
  BY Zenon, <1>1 DEF PickNone, PostResume, Destroy, threadvars
<1>6. InQueue' = InQueue
  BY <1>2, SameQueues
<1>7. CountInv'
  BY Zenon, <1>1, <1>2 DEF CountInv
<1>8. StackInv' /\ StackIsSaved'
  <2>1. k # "switch" /\ cpc[c] # "switch"
    BY Zenon, <1>2
  <2> QED
    BY Zenon, <1>1, <1>2, <1>3, <1>4, <2>1, StackStands
<1>9. HomeInv'
  <2>1. \A d \in CPUs : cpc'[d] = "pick" => d # c
    BY Zenon, <1>4
  <2>2. \A d \in CPUs : cpc'[d] = "pick" /\ curr'[d] \in Stay => target'[d] \in {None, d}
    BY Zenon, <1>1, <1>2, <1>4, <2>1 DEF HomeInv
  <2>3. \A t \in All \ Stay : state'[t] # "Cancelled"
    BY Zenon, <1>1, <1>5 DEF HomeInv
  <2> QED
    BY Zenon, <1>1, <1>2, <1>6, <2>2, <2>3 DEF HomeInv
<1>10. WakeInv'
  <2>1. \A d \in CPUs : Announced(d) <=> Announced(d)'
    BY Zenon, <1>2 DEF Announced
  <2>2. \A t \in Threads :
          state'[t] \in {"Running", "Blocked"} => state[t] \in {"Running", "Blocked"}
    BY Zenon, <1>5 DEF All
  <2>3. ASSUME cpc[c] = "pick", curr[c] = IdleOf[c] PROVE readyCount[c] = 0
    <3>1. PickNone(c)
      BY Zenon, <2>3 DEF PostResume, Destroy
    <3>2. target[c] = c /\ this[c] = c
      <4>1. curr[c] \in Stay
        BY Zenon, <2>3, BaseType
      <4>2. target[c] \in {None, c} /\ target[c] # None
        BY Zenon, <1>1, <2>3, <3>1, <4>1 DEF HomeInv, PickNone
      <4> QED
        BY Zenon, <1>1, <4>2 DEF HomeInv
    <3>3. ready[c][0] = <<>> /\ ready[c][1] = <<>>
      BY <3>1, <3>2 DEF PickNone, Limit, Candidates, idlePriority
    <3> QED
      BY Zenon, <1>1, <2>3, <3>3, IdleQueueOwn
  <2>4. \A d \in CPUs : curr[d] = IdleOf[d] /\ cpc'[d] # "pick" /\ readyCount[d] > 0 => cpc[d] # "pick"
    BY <1>4, <2>3
  <2> QED
    BY Zenon, <1>1, <1>2, <2>1, <2>2, <2>4, WakeStands
<1> QED
  BY <1>7, <1>8, <1>9, <1>10 DEF OwnInv

\* A thread that was cancelled in the middle of switchThread ends on the
\* Scheduler of that call: its own, since it has not been moved.
LEMMA OwnReturn ==
  ASSUME SInv, OwnInv, NEW c \in CPUs, Return(c)
  PROVE  OwnInv'
<1>1. PICK t \in All : t = curr[c]
  BY DEF SInv, STypeOK
<1>2. /\ HomeInv /\ StackInv /\ StackIsSaved /\ CountInv /\ WakeInv
      /\ cpc \in [CPUs -> Points] /\ target \in [CPUs -> CPUs \cup {None}]
      /\ prev \in [CPUs -> All \cup {None}] /\ frame \in [All -> CPUs \cup {None}]
      /\ state \in [All -> ThreadState] /\ pend \in [All -> Calls] /\ owe \in [All -> CPUs \cup {None}]
  BY DEF OwnInv, SInv, STypeOK
<1>3. /\ cpc[c] = "run" /\ prev' = [prev EXCEPT ![c] = None]
      /\ frame' = [frame EXCEPT ![t] = None] /\ target' = [target EXCEPT ![c] = None]
      /\ UNCHANGED <<curr, ready, readyCount, ipc, ipi, next, saved>>
  BY Zenon, <1>1 DEF Return, queues, idle
<1>4. PICK k \in {"thread", "pick"} :
        /\ cpc' = [cpc EXCEPT ![c] = k] /\ this' = [this EXCEPT ![c] = c]
        /\ k = "thread" => UNCHANGED <<state, pend, owe>>
        /\ k = "pick" => /\ state[t] = "Cancelled" /\ state' = [state EXCEPT ![t] = "Finishing"]
                         /\ pend' = [pend EXCEPT ![t] = NoCall] /\ owe' = [owe EXCEPT ![t] = None]
  <2>1. CASE t \notin fresh /\ state[t] = "Cancelled"
    <3>1. /\ cpc' = [cpc EXCEPT ![c] = "pick"] /\ this' = [this EXCEPT ![c] = frame[t]]
          /\ state' = [state EXCEPT ![t] = "Finishing"]
          /\ pend' = [pend EXCEPT ![t] = NoCall] /\ owe' = [owe EXCEPT ![t] = None]
      BY Zenon, <1>1, <2>1 DEF Return
    <3>2. t \in Stay
      BY Zenon, <1>2, <2>1 DEF HomeInv
    <3>3. frame[t] \in {None, Base(t)} /\ Base(t) = c
      BY Zenon, <1>1, <1>2, <3>2 DEF HomeInv
    <3>4. \A d \in CPUs : curr[d] = t => d = c
      BY Zenon, <1>1 DEF SInv, PlaceInv
    <3>5. \A d \in CPUs : ~(curr[d] = t /\ cpc[d] \in {"thread", "pick"})
      BY Zenon, <1>3, <3>4
    <3>6. frame[t] # None
      BY Zenon, <2>1, <3>5 DEF SInv, FrameInv
    <3> QED
      BY Zenon, <2>1, <3>1, <3>3, <3>6
  <2>2. CASE ~(t \notin fresh /\ state[t] = "Cancelled")
    <3>1. /\ cpc' = [cpc EXCEPT ![c] = "thread"] /\ this' = [this EXCEPT ![c] = c]
          /\ UNCHANGED <<state, pend, owe>>
      BY Zenon, <1>1, <2>2 DEF Return
    <3> QED
      BY <3>1
  <2> QED
    BY <2>1, <2>2
<1>5. /\ target'[c] = None /\ cpc'[c] = k
      /\ \A d \in CPUs : d # c => target'[d] = target[d] /\ prev'[d] = prev[d] /\ cpc'[d] = cpc[d]
      /\ \A x \in All : frame'[x] = frame[x] \/ frame'[x] = None
  BY Zenon, <1>2, <1>3, <1>4
<1>6. /\ \A x \in All : pend'[x] = pend[x] \/ pend'[x] = NoCall
      /\ \A x \in All : state'[x] = state[x] \/ state'[x] = "Finishing"
  BY <1>2, <1>4
<1>7. CountInv'
  BY Zenon, <1>2, <1>3 DEF CountInv
<1>8. StackInv' /\ StackIsSaved'
  <2>1. k # "switch" /\ cpc[c] # "switch"
    BY Zenon, <1>3
  <2> QED
    BY Zenon, <1>2, <1>3, <1>4, <1>5, <2>1, StackStands
<1>9. HomeInv'
  <2>1. this' = [d \in CPUs |-> d]
    BY Zenon, <1>2, <1>4 DEF HomeInv
  <2>2. InQueue' = InQueue
    BY <1>3, SameQueues
  <2>3. \A x \in Stay : pend'[x].on \in {None, Base(x)}
    BY <1>2, <1>6, BaseType DEF HomeInv, NoCall
  <2>4. \A x \in Stay : frame'[x] \in {None, Base(x)}
    BY Zenon, <1>2, <1>5, BaseType DEF HomeInv
  <2>5. \A d \in CPUs : cpc'[d] = "pick" /\ curr'[d] \in Stay => target'[d] \in {None, d}
    BY Zenon, <1>2, <1>3, <1>5 DEF HomeInv
  <2>6. \A x \in All \ Stay : pend'[x] = NoCall /\ state'[x] # "Cancelled"
    BY Zenon, <1>2, <1>6 DEF HomeInv
  <2> QED
    BY Zenon, <1>2, <1>3, <2>1, <2>2, <2>3, <2>4, <2>5, <2>6 DEF HomeInv
<1>10. WakeInv'
  <2>1. ASSUME NoneGone PROVE \A d \in CPUs : Announced(d) => Announced(d)'
    <3>1. CASE k = "thread"
      BY Zenon, <1>3, <1>4, <3>1 DEF Announced
    <3>2. CASE k = "pick"
      <4>1. t \notin Threads
        BY <1>4, <2>1, <3>2 DEF NoneGone
      <4>2. \A x \in Threads : owe'[x] = owe[x]
        BY <1>2, <1>4, <3>2, <4>1 DEF All
      <4> QED
        BY Zenon, <1>3, <4>2 DEF Announced
    <3> QED
      BY <3>1, <3>2
  <2>2. \A x \in Threads :
          state'[x] \in {"Running", "Blocked"} => state[x] \in {"Running", "Blocked"}
    BY <1>6 DEF All
  <2>3. \A d \in CPUs : cpc'[d] # "pick" => cpc[d] # "pick"
    BY <1>3, <1>5
  <2> QED
    BY Zenon, <1>2, <1>3, <2>1, <2>2, <2>3, WakeStands
<1> QED
  BY <1>7, <1>8, <1>9, <1>10 DEF OwnInv

\* A thread is put on the queue of the processor it belongs to, and enqueue()
\* notices if that was empty.
LEMMA OwnArrive ==
  ASSUME SInv, OwnInv, NEW t \in All, NEW e \in CPUs, e = next[t], t \notin InQueue[e],
         Enqueue(e, t), UNCHANGED <<curr, ipc>>,
         \A x \in Threads : state'[x] \in {"Running", "Blocked"} => state[x] \in {"Running", "Blocked"},
         \A d \in CPUs : cpc'[d] # "pick" => cpc[d] # "pick",
         \A d \in CPUs : Announced(d) => Announced(d)',
         readyCount[e] = 0 => Announced(e)'
  PROVE  /\ CountInv' /\ WakeInv'
         /\ \A u \in All, d \in CPUs : u \in InQueue'[d] <=> (u \in InQueue[d] \/ (u = t /\ d = e))
         /\ \A u \in Stay, d \in CPUs : u \in InQueue'[d] => d = Base(u)
<1>1. HomeInv /\ CountInv /\ WakeInv /\ readyCount \in [CPUs -> Int]
  BY Zenon DEF OwnInv, SInv, STypeOK
<1>2. /\ readyCount'[e] = readyCount[e] + 1
      /\ \A d \in CPUs : d # e => readyCount'[d] = readyCount[d]
      /\ InQueue' = [InQueue EXCEPT ![e] = @ \cup {t}]
      /\ CountInv'
  BY Zenon, <1>1, EnqueueEffect DEF SInv
<1>3. \A u \in All, d \in CPUs : u \in InQueue'[d] <=> (u \in InQueue[d] \/ (u = t /\ d = e))
  BY Zenon, <1>2, InQueueType
<1>4. \A u \in Stay, d \in CPUs : u \in InQueue'[d] => d = Base(u)
  <2> SUFFICES ASSUME NEW u \in Stay, NEW d \in CPUs, u \in InQueue'[d] PROVE d = Base(u)
    BY Zenon
  <2>1. next[u] = Base(u) /\ (u \in InQueue[d] => d = Base(u))
    BY Zenon, <1>1 DEF HomeInv
  <2>2. u \in InQueue[d] \/ (u = t /\ d = e)
    BY Zenon, <1>3, BaseType
  <2> QED
    BY Zenon, <2>1, <2>2
<1>5. \A d \in CPUs : readyCount'[d] > 0 => readyCount[d] > 0 \/ Announced(d)'
  <2>1. readyCount[e] \in Int /\ (readyCount'[e] > 0 => readyCount[e] = 0 \/ readyCount[e] > 0)
    BY <1>1, <1>2
  <2> QED
    BY Zenon, <1>2, <2>1
<1>6. WakeInv'
  BY Zenon, <1>1, <1>5, WakeStands
<1> QED
  BY Zenon, <1>2, <1>3, <1>4, <1>6

\* resume() by a thread or by a handler, and cancel(): the thread goes back to
\* the processor on which it was suspended, which may still be leaving its stack.
LEMMA OwnWake ==
  ASSUME SchedulerIsOwn, SInv, OwnInv, NEW c \in CPUs, NEW t \in Threads,
         Resume(c, t) \/ InterruptResume(c, t) \/ Cancel(c, t)
  PROVE  OwnInv'
<1>1. /\ HomeInv /\ StackInv /\ StackIsSaved /\ CountInv /\ WakeInv
      /\ curr[c] \in All /\ ipi \in [CPUs -> BOOLEAN] /\ owe \in [All -> CPUs \cup {None}]
      /\ next[t] \in CPUs /\ t \in All /\ state \in [All -> ThreadState]
  BY DEF OwnInv, SInv, STypeOK, All
<1>2. UNCHANGED <<curr, cpc, this, target, prev, ipc, next, frame, saved, fresh, pend>>
  BY Zenon DEF Resume, InterruptResume, Cancel, cpuvars, idle
<1>3. \A u \in All \ Stay : pend'[u] = NoCall /\ state'[u] # "Cancelled"
  <2>1. CASE state' = [state EXCEPT ![t] = "Running"]
    BY Zenon, <1>1, <1>2, <2>1 DEF HomeInv
  <2>2. CASE Cancel(c, t)
    <3>1. t \in Stay
      BY Zenon, <2>2 DEF Cancel, SchedulerIsOwn, Stay, All
    <3>2. \A u \in All \ Stay : state'[u] = state[u]
      BY Zenon, <1>1, <2>2, <3>1 DEF Cancel
    <3> QED
      BY Zenon, <1>1, <1>2, <3>2 DEF HomeInv
  <2> QED
    BY Zenon, <2>1, <2>2 DEF Resume, InterruptResume
<1>4. \A x \in Threads : state'[x] \in {"Running", "Blocked"} => state[x] \in {"Running", "Blocked"}
  <2>1. \A x \in Threads : x # t => state'[x] = state[x]
    BY Zenon, <1>1 DEF Resume, InterruptResume, Cancel, All
  <2>2. state[t] \in {"Running", "Blocked"}
    BY Zenon DEF Resume, InterruptResume, Cancel, Wakeable
  <2> QED
    BY Zenon, <2>1, <2>2
<1>5. CASE Wakeable(t)
  <2>1. PICK e \in CPUs : e = next[t] /\ Enqueue(e, t)
    <3>1. state[t] # "Running"
      BY <1>5 DEF Wakeable
    <3> QED
      BY Zenon, <1>1, <3>1 DEF Resume, InterruptResume, Cancel
  <2>2. t \notin InQueue[e] /\ \A d \in CPUs : curr[d] # t
    BY Zenon, <1>5, WakeableIsAway
  <2>3. /\ \A d \in CPUs : Announced(d) => Announced(d)'
        /\ readyCount[e] = 0 => Announced(e)'
    <3>1. CASE InterruptResume(c, t)
      <4>1. ipi' = [ipi EXCEPT ![e] = @ \/ WakeNeeded(e)] /\ owe' = owe
        BY Zenon, <2>1, <3>1 DEF InterruptResume
      <4>2. (\A d \in CPUs : ipi[d] => ipi'[d]) /\ (readyCount[e] = 0 => ipi'[e])
        BY Zenon, <1>1, <4>1 DEF WakeNeeded
      <4> QED
        BY Zenon, <4>1, <4>2 DEF Announced
    <3>2. CASE Resume(c, t) \/ Cancel(c, t)
      <4>1. PICK u \in All : u = curr[c]
        BY Zenon, <1>1
      <4>2. /\ u \in Threads /\ owe[u] = None /\ ipi' = ipi
            /\ owe' = [owe EXCEPT ![u] = IF WakeNeeded(e) THEN e ELSE None]
        <5>1. state[t] # "Running"
          BY Zenon, <1>5 DEF Wakeable
        <5> QED
          BY Zenon, <2>1, <3>2, <4>1, <5>1 DEF Resume, Cancel, Free
      <4>3. /\ \A x \in Threads : owe[x] # None => owe'[x] = owe[x]
            /\ readyCount[e] = 0 => owe'[u] = e
        BY Zenon, <1>1, <4>2 DEF WakeNeeded, All
      <4>4. \A d \in CPUs : d # None
        BY SchedulerAssumption
      <4> QED
        BY Zenon, <4>2, <4>3, <4>4 DEF Announced
    <3> QED
      BY <3>1, <3>2
  <2>4. /\ CountInv' /\ WakeInv'
        /\ \A u \in All, d \in CPUs : u \in InQueue'[d] <=> (u \in InQueue[d] \/ (u = t /\ d = e))
        /\ \A u \in Stay, d \in CPUs : u \in InQueue'[d] => d = Base(u)
    BY ZenonT(60), <1>1, <1>2, <1>4, <2>1, <2>2, <2>3, OwnArrive
  <2>5. HomeInv'
    BY Zenon, <1>1, <1>2, <1>3, <2>4 DEF HomeInv
  <2>6. StackIsSaved'
    BY Zenon, <1>1, <1>2 DEF StackIsSaved
  <2>7. StackInv'
    <3>1. ASSUME NEW d \in CPUs, cpc[d] = "switch", target[d] = None, NEW a \in CPUs,
                 prev[d] \in InQueue'[a]
          PROVE  a = d
      <4>1. prev[d] \in All
        BY Zenon, <3>1 DEF SInv, PrevInv
      <4>2. next[prev[d]] = d /\ (prev[d] \in InQueue[a] => a = d)
        BY Zenon, <1>1, <3>1 DEF StackInv
      <4> QED
        BY Zenon, <2>1, <2>4, <3>1, <4>1, <4>2
    <3> QED
      BY Zenon, <1>1, <1>2, <3>1 DEF StackInv
  <2> QED
    BY Zenon, <2>4, <2>5, <2>6, <2>7 DEF OwnInv
<1>6. CASE ~Wakeable(t)
  <2>1. UNCHANGED <<ready, readyCount, ipi, owe>>
    BY Zenon, <1>6 DEF Resume, InterruptResume, Cancel, queues
  <2>2. InQueue' = InQueue /\ \A d \in CPUs : Announced(d) <=> Announced(d)'
    BY Zenon, <2>1, SameQueues DEF Announced
  <2>3. HomeInv'
    BY Zenon, <1>1, <1>2, <1>3, <2>2 DEF HomeInv
  <2>4. StackInv' /\ StackIsSaved' /\ CountInv'
    BY Zenon, <1>1, <1>2, <2>1, <2>2 DEF StackInv, StackIsSaved, CountInv
  <2>5. WakeInv'
    BY Zenon, <1>1, <1>2, <1>4, <2>1, <2>2, WakeStands
  <2> QED
    BY <2>3, <2>4, <2>5 DEF OwnInv
<1> QED
  BY <1>5, <1>6

\* stackSwitch and postSwitch: the old stack is free from here on.
LEMMA OwnSwitch ==
  ASSUME SInv, OwnInv, NEW c \in CPUs, Switch(c)
  PROVE  OwnInv'
<1>1. PICK t \in All : t = prev[c]
  BY Zenon DEF Switch, SInv, PrevInv
<1>2. /\ HomeInv /\ StackInv /\ StackIsSaved /\ CountInv /\ WakeInv
      /\ cpc \in [CPUs -> Points] /\ saved \in [All -> BOOLEAN] /\ ipi \in [CPUs -> BOOLEAN]
      /\ next[t] \in CPUs /\ curr \in [CPUs -> All]
  BY DEF OwnInv, SInv, STypeOK
<1>3. /\ cpc[c] = "switch" /\ cpc' = [cpc EXCEPT ![c] = "post"]
      /\ saved' = [saved EXCEPT ![t] = TRUE, ![curr[c]] = FALSE]
      /\ UNCHANGED <<curr, this, target, prev, ipc, state, next, frame, pend, owe>>
      /\ \/ target[c] = None /\ UNCHANGED <<ready, readyCount, ipi>>
         \/ /\ target[c] # None /\ Enqueue(next[t], t)
            /\ ipi' = [ipi EXCEPT ![next[t]] = @ \/ WakeNeeded(next[t])]
  BY Zenon, <1>1 DEF Switch, queues, idle
<1>4. cpc'[c] = "post" /\ \A d \in CPUs : d # c => cpc'[d] = cpc[d]
  BY Zenon, <1>2, <1>3
<1>5. t # curr[c]
  <2>1. CASE target[c] = None
    BY Zenon, <1>1, <1>2, <1>3, <2>1 DEF StackInv
  <2>2. CASE target[c] # None
    BY Zenon, <1>1, <1>3, <2>2 DEF SInv, PlaceInv, Leaves
  <2> QED
    BY Zenon, <2>1, <2>2
<1>6. saved'[t] /\ \A x \in All : x # t /\ x # curr[c] => saved'[x] = saved[x]
  BY Zenon, <1>2, <1>3, <1>5
<1>7. StackIsSaved'
  <2>1. \A d \in CPUs : d # c => curr[d] # curr[c]
    BY Zenon DEF SInv, PlaceInv
  <2> QED
    BY Zenon, <1>2, <1>3, <1>4, <1>6, <2>1 DEF StackIsSaved
<1>8. ASSUME NEW x \in All, ~saved'[x]
      PROVE  \E d \in CPUs : \/ curr'[d] = x /\ cpc'[d] # "switch"
                             \/ prev'[d] = x /\ cpc'[d] = "switch"
  <2>1. CASE x = curr[c]
    BY Zenon, <1>3, <1>4, <2>1
  <2>2. CASE x # curr[c]
    <3>1. x # t /\ ~saved[x]
      BY Zenon, <1>6, <1>8, <2>2
    <3>2. PICK d \in CPUs : \/ curr[d] = x /\ cpc[d] # "switch"
                            \/ prev[d] = x /\ cpc[d] = "switch"
      BY Zenon, <1>2, <3>1 DEF StackInv
    <3>3. d # c
      BY Zenon, <1>1, <2>2, <3>1, <3>2
    <3> QED
      BY Zenon, <1>3, <1>4, <3>2, <3>3
  <2> QED
    BY <2>1, <2>2
<1>9. \A d \in CPUs : cpc'[d] = "switch" => d # c /\ cpc[d] = "switch"
  BY Zenon, <1>4
<1>10. \A d \in CPUs : (cpc'[d] = "pick" <=> cpc[d] = "pick")
  BY Zenon, <1>3, <1>4
<1>11. CASE target[c] = None
  <2>1. UNCHANGED <<ready, readyCount, ipi>>
    BY Zenon, <1>3, <1>11
  <2>2. InQueue' = InQueue /\ \A d \in CPUs : Announced(d) <=> Announced(d)'
    BY Zenon, <1>3, <2>1, SameQueues DEF Announced
  <2>3. HomeInv' /\ CountInv'
    BY Zenon, <1>2, <1>3, <1>10, <2>1, <2>2 DEF HomeInv, CountInv
  <2>4. StackInv'
    BY Zenon, <1>2, <1>3, <1>8, <1>9, <2>2 DEF StackInv
  <2>5. WakeInv'
    BY Zenon, <1>2, <1>3, <1>10, <2>1, <2>2, WakeStands
  <2> QED
    BY <1>7, <2>3, <2>4, <2>5 DEF OwnInv
<1>12. CASE target[c] # None
  <2>1. PICK e \in CPUs : /\ e = next[t] /\ Enqueue(e, t)
                          /\ ipi' = [ipi EXCEPT ![e] = @ \/ WakeNeeded(e)]
    BY Zenon, <1>2, <1>3, <1>12
  <2>2. t \notin InQueue[e]
    BY Zenon, <1>1, <1>3, <1>12 DEF SInv, PlaceInv, Leaves
  <2>3. (\A d \in CPUs : ipi[d] => ipi'[d]) /\ (readyCount[e] = 0 => ipi'[e])
    BY Zenon, <1>2, <2>1 DEF WakeNeeded
  <2>4. /\ \A d \in CPUs : Announced(d) => Announced(d)'
        /\ readyCount[e] = 0 => Announced(e)'
    BY Zenon, <1>3, <2>3 DEF Announced
  <2>5. /\ CountInv' /\ WakeInv'
        /\ \A u \in All, d \in CPUs : u \in InQueue'[d] <=> (u \in InQueue[d] \/ (u = t /\ d = e))
        /\ \A u \in Stay, d \in CPUs : u \in InQueue'[d] => d = Base(u)
    BY Zenon, <1>3, <1>10, <2>1, <2>2, <2>4, OwnArrive
  <2>6. HomeInv'
    BY Zenon, <1>2, <1>3, <1>10, <2>5 DEF HomeInv
  <2>7. ASSUME NEW d \in CPUs, cpc[d] = "switch", target[d] = None, NEW a \in CPUs,
               prev[d] \in InQueue'[a]
        PROVE  a = d
    <3>1. prev[d] \in All
      BY Zenon, <2>7 DEF SInv, PrevInv
    <3>2. next[prev[d]] = d /\ (prev[d] \in InQueue[a] => a = d)
      BY Zenon, <1>2, <2>7 DEF StackInv
    <3> QED
      BY Zenon, <2>1, <2>5, <2>7, <3>1, <3>2
  <2>8. StackInv'
    BY Zenon, <1>2, <1>3, <1>8, <1>9, <2>7 DEF StackInv
  <2> QED
    BY Zenon, <1>7, <2>5, <2>6, <2>8 DEF OwnInv
<1> QED
  BY <1>11, <1>12

\* A processor has one idle thread in its queue at most.
LEMMA IdleQueueShort ==
  ASSUME SInv, HomeInv, NEW c \in CPUs
  PROVE  Len(ready[c][2]) \in {0, 1}
<1>1. 2 \in Classes /\ idlePriority = 2
  BY DEF Classes, idlePriority
<1>2. PICK q \in Seq(All) : q = ready[c][2]
  BY <1>1, QueuedIsThread DEF SInv
<1>3. ASSUME NEW t \in Range(q) PROVE t = IdleOf[c]
  <2>1. t \in All /\ Class(t) = 2
    BY Zenon, <1>1, <1>2, <1>3, QueuedIsThread DEF SInv, QueueInv
  <2>2. t \in Idlers
    BY <1>1, <2>1, ClassType
  <2>3. t \in InQueue[c]
    BY <1>2, <1>3, <2>1 DEF InQueue, Queued
  <2> QED
    BY Zenon, <2>2, <2>3, BaseType DEF HomeInv
<1>4. Len(q) \in Nat /\ DOMAIN q = 1..Len(q) /\ IsInjective(q)
  BY <1>1, <1>2, SeqLength DEF SInv, QueueInv
<1>5. \A i \in DOMAIN q : q[i] = IdleOf[c]
  BY Zenon, <1>3 DEF Range
<1>6. \A i, j \in DOMAIN q : i = j
  BY Zenon, <1>4, <1>5 DEF IsInjective
<1>7. PICK n \in Nat : n = Len(q) /\ DOMAIN q = 1..n
  BY Zenon, <1>4
<1>8. \A i, j \in 1..n : i = j
  BY Zenon, <1>6, <1>7
<1>9. n \in {0, 1}
  <2>1. n > 1 => 1 \in 1..n /\ 2 \in 1..n
    OBVIOUS
  <2> QED
    BY <1>8, <2>1
<1> QED
  BY Zenon, <1>2, <1>7, <1>9

\* switchThread up to the stack switch: the thread taken has left its stack,
\* since it is queued either by the processor that left it or on this one.
LEMMA OwnPick ==
  ASSUME SInv, OwnInv, NEW c \in CPUs, Pick(c)
  PROVE  OwnInv'
<1>1. /\ HomeInv /\ StackInv /\ StackIsSaved /\ CountInv /\ WakeInv
      /\ STypeOK /\ QueueInv /\ PlaceInv
  BY DEF OwnInv, SInv
<1>2. this[c] = c
  BY <1>1 DEF HomeInv
<1>3. PICK k \in Classes : /\ \A j \in Candidates(c, Limit(c)) : k <= j
                           /\ ready[c][k] # <<>> /\ Dequeue(c, k)
                           /\ curr' = [curr EXCEPT ![c] = Head(ready[c][k])]
  BY Zenon, <1>1, <1>2, PickEffect
<1>4. PICK u \in All : u = curr[c]
  BY <1>1 DEF STypeOK
<1>5. PICK h \in All : /\ h = Head(ready[c][k]) /\ h \in InQueue[c] /\ Class(h) = k
                       /\ InQueue' = [InQueue EXCEPT ![c] = @ \ {h}]
                       /\ readyCount'[c] = readyCount[c] - 1
                       /\ \A d \in CPUs : d # c => readyCount'[d] = readyCount[d]
                       /\ CountInv'
  BY Zenon, <1>1, <1>3, DequeueEffect
<1>6. /\ curr' = [curr EXCEPT ![c] = h] /\ prev' = [prev EXCEPT ![c] = u]
      /\ cpc[c] = "pick" /\ cpc' = [cpc EXCEPT ![c] = "switch"]
      /\ frame' = [frame EXCEPT ![u] = c]
      /\ next' = [next EXCEPT ![u] = IF target[c] # None THEN target[c] ELSE c]
      /\ UNCHANGED <<this, target, ipc, ipi, state, saved, pend, owe>>
  BY Zenon, <1>2, <1>3, <1>4, <1>5 DEF Pick
<1>7. /\ curr \in [CPUs -> All] /\ prev \in [CPUs -> All \cup {None}] /\ cpc \in [CPUs -> Points]
      /\ frame \in [All -> CPUs \cup {None}] /\ next \in [All -> CPUs]
      /\ target[c] \in CPUs \cup {None}
  BY Zenon, <1>1 DEF STypeOK
<1>8. /\ curr'[c] = h /\ prev'[c] = u /\ cpc'[c] = "switch" /\ frame'[u] = c
      /\ next'[u] = IF target[c] # None THEN target[c] ELSE c
      /\ \A d \in CPUs : d # c => curr'[d] = curr[d] /\ prev'[d] = prev[d] /\ cpc'[d] = cpc[d]
      /\ \A t \in All : t # u => frame'[t] = frame[t] /\ next'[t] = next[t]
  BY Zenon, <1>6, <1>7
<1>9. /\ \A d \in CPUs : InQueue'[d] \subseteq InQueue[d]
      /\ \A d \in CPUs : h # curr[d] /\ u \notin InQueue[d] /\ (curr[d] = u => d = c)
  BY Zenon, <1>1, <1>4, <1>5, InQueueType DEF PlaceInv
<1>10. HomeInv'
  <2>1. ASSUME NEW t \in Stay
        PROVE  next'[t] = Base(t) /\ frame'[t] \in {None, Base(t)}
    <3>1. t \in All /\ next[t] = Base(t) /\ frame[t] \in {None, Base(t)}
      BY Zenon, <1>1, BaseType DEF HomeInv
    <3>2. CASE t = u
      <4>1. Base(t) = c /\ target[c] \in {None, c}
        BY Zenon, <1>1, <1>4, <1>6, <3>2 DEF HomeInv
      <4> QED
        BY Zenon, <1>8, <3>2, <4>1
    <3>3. CASE t # u
      BY Zenon, <1>8, <3>1, <3>3
    <3> QED
      BY Zenon, <3>2, <3>3
  <2>2. ASSUME NEW t \in Stay, NEW d \in CPUs, curr'[d] = t \/ t \in InQueue'[d]
        PROVE  d = Base(t)
    <3>1. curr[d] = t \/ t \in InQueue[d]
      <4>1. CASE d = c
        BY Zenon, <1>5, <1>8, <1>9, <2>2, <4>1
      <4>2. CASE d # c
        BY Zenon, <1>8, <1>9, <2>2, <4>2
      <4> QED
        BY Zenon, <4>1, <4>2
    <3> QED
      BY Zenon, <1>1, <3>1 DEF HomeInv
  <2>3. \A d \in CPUs : cpc'[d] = "pick" => d # c
    BY Zenon, <1>8
  <2>4. \A d \in CPUs : cpc'[d] = "pick" /\ curr'[d] \in Stay => target'[d] \in {None, d}
    BY Zenon, <1>1, <1>6, <1>8, <2>3 DEF HomeInv
  <2> QED
    BY Zenon, <1>1, <1>6, <2>1, <2>2, <2>4 DEF HomeInv
<1>11. \A d \in CPUs :
         cpc[d] = "switch" /\ target[d] = None => d # c /\ prev[d] \in All /\ prev[d] # h
  <2> SUFFICES ASSUME NEW d \in CPUs, cpc[d] = "switch", target[d] = None
               PROVE  d # c /\ prev[d] \in All /\ prev[d] # h
    BY Zenon
  <2>1. d # c /\ prev[d] \in All
    BY <1>6 DEF SInv, PrevInv
  <2>2. prev[d] \in InQueue[c] => c = d
    BY Zenon, <1>1 DEF StackInv
  <2> QED
    BY Zenon, <1>5, <2>1, <2>2
<1>12. saved[h]
  <2> SUFFICES ASSUME ~saved[h] PROVE FALSE
    OBVIOUS
  <2>1. PICK d \in CPUs : prev[d] = h /\ cpc[d] = "switch"
    BY Zenon, <1>1, <1>9 DEF StackInv
  <2>2. target[d] # None
    BY Zenon, <1>11, <2>1
  <2> QED
    BY Zenon, <1>1, <1>5, <2>1, <2>2 DEF PlaceInv, Leaves
<1>13. StackIsSaved'
  <2>1. ASSUME NEW d \in CPUs, cpc'[d] = "switch" PROVE saved[curr'[d]]
    <3>1. CASE d = c
      BY Zenon, <1>8, <1>12, <3>1
    <3>2. CASE d # c
      BY Zenon, <1>1, <1>8, <2>1, <3>2 DEF StackIsSaved
    <3> QED
      BY <3>1, <3>2
  <2> QED
    BY Zenon, <1>6, <2>1 DEF StackIsSaved
<1>14. StackInv'
  <2>1. ASSUME NEW t \in All, ~saved'[t]
        PROVE  \E d \in CPUs : \/ curr'[d] = t /\ cpc'[d] # "switch"
                               \/ prev'[d] = t /\ cpc'[d] = "switch"
    <3>1. PICK d \in CPUs : \/ curr[d] = t /\ cpc[d] # "switch"
                            \/ prev[d] = t /\ cpc[d] = "switch"
      BY Zenon, <1>1, <1>6, <2>1 DEF StackInv
    <3> QED
      BY <1>4, <1>6, <1>8, <3>1
  <2>2. ASSUME NEW d \in CPUs, cpc'[d] = "switch", target'[d] = None
        PROVE  /\ next'[prev'[d]] = d
               /\ \A a \in CPUs : curr'[a] # prev'[d] /\ (prev'[d] \in InQueue'[a] => a = d)
    <3>1. CASE d = c
      <4>1. prev'[d] = u /\ next'[u] = c
        BY Zenon, <1>6, <1>8, <2>2, <3>1
      <4>2. \A a \in CPUs : curr'[a] # u /\ u \notin InQueue'[a]
        BY Zenon, <1>4, <1>8, <1>9
      <4> QED
        BY <3>1, <4>1, <4>2
    <3>2. CASE d # c
      <4>1. cpc[d] = "switch" /\ target[d] = None /\ prev'[d] = prev[d]
        BY Zenon, <1>6, <1>8, <2>2, <3>2
      <4>2. /\ next[prev[d]] = d
            /\ \A a \in CPUs : curr[a] # prev[d] /\ (prev[d] \in InQueue[a] => a = d)
        BY Zenon, <1>1, <4>1 DEF StackInv
      <4>3. prev[d] \in All /\ prev[d] # u /\ prev[d] # h
        BY Zenon, <1>4, <1>11, <4>1, <4>2
      <4>4. next'[prev[d]] = d /\ \A a \in CPUs : curr'[a] # prev[d]
        BY Zenon, <1>8, <4>2, <4>3
      <4>5. \A a \in CPUs : prev[d] \in InQueue'[a] => a = d
        BY Zenon, <1>9, <4>2
      <4> QED
        BY Zenon, <4>1, <4>4, <4>5
    <3> QED
      BY Zenon, <3>1, <3>2
  <2> QED
    BY Zenon, <2>1, <2>2 DEF StackInv
<1>15. h = IdleOf[c] => ~(readyCount'[c] > 0)
  <2> SUFFICES ASSUME h = IdleOf[c] PROVE ~(readyCount'[c] > 0)
    BY Zenon
  <2>1. k = 2
    BY Zenon, <1>5, ClassType DEF Idlers, idlePriority
  <2>2. \A j \in {0, 1} : ready[c][j] # <<>> => j \in Candidates(c, Limit(c))
    BY DEF Candidates, Limit, idlePriority, maxPriority
  <2>3. ready[c][0] = <<>> /\ ready[c][1] = <<>>
    BY <1>3, <2>1, <2>2
  <2>4. Len(ready[c][0]) = 0 /\ Len(ready[c][1]) = 0
    BY Zenon, <2>3
  <2>5. Len(ready[c][2]) \in {0, 1}
    BY Zenon, <1>1, IdleQueueShort
  <2>6. readyCount[c] = Len(ready[c][0]) + Len(ready[c][1]) + Len(ready[c][2])
    BY Zenon, <1>1 DEF CountInv
  <2>7. PICK n \in {0, 1} : readyCount[c] = 0 + 0 + n
    BY Zenon, <2>4, <2>5, <2>6
  <2> QED
    BY <1>5, <2>7
<1>16. WakeInv'
  <2>1. \A d \in CPUs : Announced(d) <=> Announced(d)'
    BY Zenon, <1>6 DEF Announced
  <2> QED
    BY Zenon, <1>1, <1>5, <1>6, <1>8, <1>15, <2>1, WakeStands
<1> QED
  BY <1>5, <1>10, <1>13, <1>14, <1>16 DEF OwnInv

\* Every step of the scheduler keeps the second invariant.
LEMMA OwnInvStep ==
  ASSUME SchedulerIsOwn, SInv, OwnInv, [SNext]_vars
  PROVE  OwnInv'
<1>1. CASE UNCHANGED vars
  <2>1. UNCHANGED <<curr, cpc, this, target, prev, ready, readyCount, ipc, ipi, state, next,
                    frame, saved, pend, owe>>
    BY Zenon, <1>1 DEF vars, cpuvars, queues, idle, threadvars
  <2>2. InQueue' = InQueue
    BY <2>1, SameQueues
  <2>3. HomeInv' /\ StackInv'
    BY Zenon, <2>1, <2>2 DEF OwnInv, HomeInv, StackInv
  <2>4. StackIsSaved' /\ CountInv' /\ WakeInv'
    BY Zenon, <2>1 DEF OwnInv, StackIsSaved, CountInv, WakeInv, NoneGone, Announced
  <2> QED
    BY <2>3, <2>4 DEF OwnInv
<1>2. CASE SNext
  <2>1. PICK c \in CPUs : \/ SwitchStep(c) \/ (\E s \in CPUs : IdleStep(c, s)) \/ ThreadStep(c)
                          \/ PreemptIPI(c) \/ Interrupt(c) \/ \E t \in Threads : InterruptResume(c, t)
    BY Zenon, <1>2 DEF SNext
  <2>2. CASE SwitchStep(c)
    BY Zenon, <2>2, OwnAfter, OwnPick, OwnSwitch, OwnReturn DEF SwitchStep
  <2>3. CASE \E s \in CPUs : IdleStep(c, s)
    BY Zenon, <2>3, OwnQuiet, OwnCalls DEF IdleStep
  <2>4. CASE ThreadStep(c)
    BY Zenon, <2>4, OwnQuiet, OwnCalls, OwnWake DEF ThreadStep
  <2>5. CASE PreemptIPI(c) \/ Interrupt(c)
    BY Zenon, <2>5, OwnQuiet, OwnCalls
  <2>6. CASE \E t \in Threads : InterruptResume(c, t)
    BY Zenon, <2>6, OwnWake
  <2> QED
    BY <2>1, <2>2, <2>3, <2>4, <2>5, <2>6
<1> QED
  BY <1>1, <1>2

\* It holds when the threads have been started.
LEMMA OwnInitially ==
  ASSUME SInit
  PROVE  OwnInv
<1>1. SInv /\ CountInv
  BY SInitially
<1>2. /\ curr = IdleOf /\ cpc = [c \in CPUs |-> "thread"] /\ this = [c \in CPUs |-> c]
      /\ ipc = [c \in CPUs |-> "spin"] /\ state = [t \in All |-> "Running"]
      /\ next = [t \in All |-> IF t \in Threads THEN Home[t] ELSE CHOOSE c \in CPUs : IdleOf[c] = t]
      /\ frame = [t \in All |-> None] /\ saved = [t \in All |-> t \in Threads]
      /\ pend = [t \in All |-> NoCall]
  BY Zenon DEF SInit
<1>3. StackIsSaved /\ WakeInv
  BY Zenon, <1>2 DEF StackIsSaved, WakeInv
<1>4. \A t \in All : next[t] = Base(t)
  BY <1>2 DEF Base
<1>5. \A t \in All, c \in CPUs : curr[c] = t => c = Base(t)
  BY Zenon, <1>2, BaseType
<1>6. \A t \in All, c \in CPUs : t \in InQueue[c] => c = Base(t)
  <2> SUFFICES ASSUME NEW t \in All, NEW c \in CPUs, t \in InQueue[c] PROVE c = Base(t)
    BY Zenon
  <2>1. t \in Range(ready[c][Class(t)]) /\ Class(t) \in Classes
    BY ClassType DEF InQueue, Queued
  <2>2. ready[c][Class(t)] = IF Class(t) = idlePriority THEN <<>> ELSE StartQueue(c, Class(t))
    BY Zenon, <2>1 DEF SInit, Classes
  <2>3. Class(t) # idlePriority
    BY <2>1, <2>2 DEF Range
  <2>4. t \in Threads /\ Home[t] = c
    BY <2>1, <2>2, <2>3, StartQueueFacts DEF Classes, idlePriority
  <2> QED
    BY Zenon, <2>4 DEF Base
<1>7. HomeInv
  <2>1. /\ \A t \in All : frame[t] = None /\ pend[t] = NoCall /\ state[t] # "Cancelled"
        /\ NoCall.on = None
        /\ \A c \in CPUs : cpc[c] # "pick"
    BY Zenon, <1>2 DEF NoCall
  <2> QED
    BY Zenon, <1>2, <1>4, <1>5, <1>6, <2>1, BaseType DEF HomeInv
<1>8. StackInv
  <2>1. \A t \in All : ~saved[t] => \E c \in CPUs : curr[c] = t /\ cpc[c] # "switch"
    BY Zenon, <1>2 DEF All, Idlers
  <2>2. \A c \in CPUs : cpc[c] # "switch"
    BY <1>2
  <2> QED
    BY Zenon, <2>1, <2>2 DEF StackInv
<1> QED
  BY <1>1, <1>3, <1>7, <1>8 DEF OwnInv

\* If no thread keeps a Scheduler* across a move, the second invariant holds.
THEOREM OwnInvariance == SchedulerIsOwn => (SSpec => [](SInv /\ OwnInv))
<1> SUFFICES ASSUME SchedulerIsOwn PROVE SSpec => [](SInv /\ OwnInv)
  OBVIOUS
<1>1. SInit => SInv /\ OwnInv
  BY SInitially, OwnInitially
<1>2. SInv /\ OwnInv /\ [SNext]_vars => (SInv /\ OwnInv)'
  BY SInvStep, OwnInvStep
<1> QED
  BY <1>1, <1>2, PTL DEF SSpec

\* switchThread releases a suspending thread's bLock before its stack pointer is
\* saved; still no processor switches to a stack that another has not left.
THEOREM StackIsSavedHolds == SchedulerIsOwn => (SSpec => []StackIsSaved)
<1>1. SInv /\ OwnInv => StackIsSaved
  BY DEF OwnInv
<1> QED
  BY <1>1, OwnInvariance, PTL

\* No processor halts on a ready thread without an IPI pending or about to be
\* sent, although the idle loop and enqueue() look at times of their own.
THEOREM NoSleepOnWorkHolds == SchedulerIsOwn => (SSpec => []NoSleepOnWork)
<1>1. SInv /\ OwnInv => NoSleepOnWork
  <2> SUFFICES ASSUME OwnInv, NoneGone, NEW c \in CPUs, Executes(c, IdleOf[c]), ipc[c] = "halt",
                      readyCount[c] > 0
               PROVE  Announced(c)
    BY DEF NoSleepOnWork, NoneGone, Announced
  <2>1. curr[c] = IdleOf[c] /\ ipc[c] \in {"test", "halt"} /\ cpc[c] # "pick"
    BY DEF Executes
  <2> QED
    BY Zenon, <2>1 DEF OwnInv, WakeInv
<1> QED
  BY <1>1, OwnInvariance, PTL

-----------------------------------------------------------------------------
(* The two assertions of the scheduler that a kept Scheduler* breaks. *)

\* A thread that stays is switched away from on its own processor only; a
\* thread that does not stay never ends; the idle threads neither block nor end.
EndInv ==
  /\ \A c \in CPUs : prev[c] \in Stay => c = Base(prev[c])
  /\ \A t \in All \ Stay : state[t] \in {"Running", "Blocked"}
  /\ \A t \in Idlers : state[t] = "Running" /\ pend[t] = NoCall
  /\ DestroyedOnce

\* What a step of c may do to it.
LEMMA EndStands ==
  ASSUME SInv, OwnInv, EndInv, NEW c \in CPUs,
         \A d \in CPUs : \/ prev'[d] = prev[d] \/ prev'[d] = None
                         \/ d = c /\ prev'[d] = curr[d],
         \A t \in All \ Stay : state'[t] \in {"Running", "Blocked"},
         \A t \in Idlers : state'[t] = "Running" /\ pend'[t] = NoCall,
         \A d \in CPUs : cpc'[d] = "destroy" => state'[prev'[d]] = "Finishing"
  PROVE  EndInv'
<1>1. None \notin Stay
  BY Zenon, BaseType, SchedulerAssumption
<1>2. \A d \in CPUs : prev'[d] \in Stay => d = Base(prev'[d])
  <2> SUFFICES ASSUME NEW d \in CPUs, prev'[d] \in Stay PROVE d = Base(prev'[d])
    BY Zenon
  <2>1. CASE prev'[d] = prev[d]
    BY Zenon, <2>1 DEF EndInv
  <2>2. CASE d = c /\ prev'[d] = curr[d]
    BY Zenon, <2>2 DEF OwnInv, HomeInv
  <2> QED
    BY Zenon, <1>1, <2>1, <2>2
<1> QED
  BY Zenon, <1>2 DEF EndInv, DestroyedOnce

\* A call of switchThread: only a thread that stays ends, and none that is idle.
LEMMA EndCalls ==
  ASSUME SInv, OwnInv, EndInv, NEW c \in CPUs,
         \/ Suspend(c) \/ Yield(c) \/ Terminate(c) \/ Interrupt(c)
         \/ \E s \in CPUs : IdlePreempt(c, s)
  PROVE  EndInv'
<1>1. PICK t \in All : t = curr[c]
  BY Zenon DEF SInv, STypeOK
<1>2. /\ state \in [All -> ThreadState] /\ pend \in [All -> Calls] /\ cpc \in [CPUs -> Points]
      /\ state[t] # "Finishing" \/ cpc[c] # "thread"
  BY Zenon, <1>1 DEF SInv, STypeOK, ReadyInv, Ready
<1>3. cpc[c] = "thread" /\ cpc' = [cpc EXCEPT ![c] = "pick"] /\ prev' = prev
  BY Zenon DEF Suspend, Free, Yield, Terminate, Interrupt, IdlePreempt, Executes, CallSwitch
<1>4. \A d \in CPUs : cpc'[d] = "destroy" => cpc[d] = "destroy"
  BY <1>2, <1>3
<1>5. \A u \in All : u # t => state'[u] = state[u]
  BY Zenon, <1>1, <1>2 DEF Suspend, Yield, Terminate, Interrupt, IdlePreempt, threadvars
<1>6. pend' = pend \/ pend' = [pend EXCEPT ![t] = NoCall]
  BY Zenon, <1>1 DEF Suspend, Yield, Terminate, Interrupt, IdlePreempt, threadvars
<1>7. \/ state'[t] = state[t]
      \/ t \in Threads /\ state[t] = "Running" /\ state'[t] = "Blocked"
      \/ pend[t] # NoCall /\ state'[t] = "Finishing"
  <2>1. CASE Suspend(c)
    BY Zenon, <1>1, <1>2, <2>1 DEF Suspend, Free
  <2>2. CASE Terminate(c)
    BY <1>1, <1>2, <2>2 DEF Terminate, NoCall
  <2> QED
    BY Zenon, <2>1, <2>2 DEF Yield, Interrupt, IdlePreempt, threadvars
<1>8. \A u \in All \ Stay : state'[u] \in {"Running", "Blocked"}
  <2>1. \A u \in All \ Stay : pend[u] = NoCall /\ state[u] \in {"Running", "Blocked"}
    BY Zenon DEF OwnInv, HomeInv, EndInv
  <2> QED
    BY Zenon, <1>5, <1>7, <2>1
<1>9. \A u \in Idlers : state'[u] = "Running" /\ pend'[u] = NoCall
  <2>1. \A u \in Idlers : u \in All /\ u \notin Threads /\ pend[u] = NoCall /\ state[u] = "Running"
    BY Zenon, SchedulerAssumption DEF EndInv, All
  <2> QED
    BY <1>2, <1>5, <1>6, <1>7, <2>1
<1>10. \A d \in CPUs : cpc'[d] = "destroy" => state'[prev'[d]] = "Finishing"
  <2> SUFFICES ASSUME NEW d \in CPUs, cpc'[d] = "destroy" PROVE state'[prev'[d]] = "Finishing"
    BY Zenon
  <2>1. cpc[d] = "destroy" /\ state[prev[d]] = "Finishing" /\ prev[d] \in All
    BY Zenon, <1>4 DEF EndInv, DestroyedOnce, SInv, PrevInv
  <2> QED
    BY Zenon, <1>2, <1>3, <1>5, <2>1
<1> QED
  BY Zenon, <1>3, <1>8, <1>9, <1>10, EndStands

\* Steps that leave the threads' states alone.
LEMMA EndQuiet ==
  ASSUME SInv, OwnInv, EndInv, NEW c \in CPUs,
         \/ WakeUp(c) \/ PreemptIPI(c)
         \/ \E op \in {"yield", "terminate"} : ReadScheduler(c, op)
         \/ \E s \in CPUs : IdleSpin(c, s) \/ IdleTest(c, s)
         \/ PickNone(c) \/ Pick(c) \/ Switch(c) \/ PostResume(c)
  PROVE  EndInv'
<1>1. /\ state' = state
      /\ pend' = pend \/ (curr[c] \in Threads /\ \E x : pend' = [pend EXCEPT ![curr[c]] = x])
  BY Zenon DEF WakeUp, PreemptIPI, ReadScheduler, IdleSpin, IdleTest, PickNone, Pick, Switch,
               PostResume, Free, threadvars
<1>2. /\ pend \in [All -> Calls] /\ prev \in [CPUs -> All \cup {None}] /\ cpc \in [CPUs -> Points]
  BY DEF SInv, STypeOK
<1>3. prev' = prev \/ (prev' = [prev EXCEPT ![c] = curr[c]] /\ cpc' = [cpc EXCEPT ![c] = "switch"])
  BY Zenon DEF WakeUp, PreemptIPI, ReadScheduler, IdleSpin, IdleTest, PickNone, Pick, Switch,
               PostResume, cpuvars
<1>4. \/ cpc' = cpc
      \/ \E k \in {"thread", "switch", "post", "run"} : cpc' = [cpc EXCEPT ![c] = k]
      \/ cpc' = [cpc EXCEPT ![c] = "destroy"] /\ state[prev[c]] = "Finishing" /\ prev' = prev
  <2>1. CASE PostResume(c)
    BY Zenon, <2>1 DEF PostResume
  <2>2. CASE PickNone(c) \/ Pick(c) \/ Switch(c)
    BY Zenon, <2>2 DEF PickNone, Pick, Switch
  <2> QED
    BY Zenon, <2>1, <2>2 DEF WakeUp, PreemptIPI, ReadScheduler, IdleSpin, IdleTest, cpuvars
<1>5. \A u \in Idlers : pend'[u] = pend[u]
  BY Zenon, <1>1, <1>2, SchedulerAssumption DEF All
<1>6. \A d \in CPUs : \/ prev'[d] = prev[d] \/ prev'[d] = None
                      \/ d = c /\ prev'[d] = curr[d]
  BY Zenon, <1>2, <1>3
<1>7. \A d \in CPUs : cpc'[d] = "destroy" => state'[prev'[d]] = "Finishing"
  <2> SUFFICES ASSUME NEW d \in CPUs, cpc'[d] = "destroy" PROVE state[prev'[d]] = "Finishing"
    BY Zenon, <1>1
  <2>1. cpc[d] = "destroy" => state[prev[d]] = "Finishing"
    BY Zenon DEF EndInv, DestroyedOnce
  <2>2. prev'[d] = prev[d]
    BY <1>2, <1>3
  <2>3. cpc[d] = "destroy" \/ (d = c /\ state[prev[c]] = "Finishing")
    BY <1>2, <1>4
  <2> QED
    BY Zenon, <2>1, <2>2, <2>3
<1>8. /\ \A t \in All \ Stay : state'[t] \in {"Running", "Blocked"}
      /\ \A t \in Idlers : state'[t] = "Running" /\ pend'[t] = NoCall
  BY Zenon, <1>1, <1>5 DEF EndInv
<1> QED
  BY Zenon, <1>6, <1>7, <1>8, EndStands

\* The remaining steps: destroying a thread, a cancelled thread's end, and the
\* wake-ups, which concern threads that are not idle.
LEMMA EndOthers ==
  ASSUME SchedulerIsOwn, SInv, OwnInv, EndInv, NEW c \in CPUs,
         \/ Destroy(c) \/ Return(c)
         \/ \E t \in Threads : Resume(c, t) \/ InterruptResume(c, t) \/ Cancel(c, t)
  PROVE  EndInv'
<1>1. /\ state \in [All -> ThreadState] /\ pend \in [All -> Calls] /\ cpc \in [CPUs -> Points]
      /\ prev \in [CPUs -> All \cup {None}] /\ curr[c] \in All
  BY Zenon DEF SInv, STypeOK
<1>2. /\ \A u \in Idlers : u \in All /\ u \notin Threads /\ pend[u] = NoCall /\ state[u] = "Running"
      /\ \A u \in All \ Stay : state[u] \in {"Running", "Blocked"}
      /\ \A d \in CPUs : cpc[d] = "destroy" => state[prev[d]] = "Finishing" /\ prev[d] \in All
  BY Zenon, SchedulerAssumption DEF EndInv, DestroyedOnce, All, SInv, PrevInv
<1>3. CASE Destroy(c)
  <2>1. PICK t \in All : t = prev[c] /\ state[t] = "Finishing"
    BY Zenon, <1>2, <1>3 DEF Destroy
  <2>2. /\ cpc' = [cpc EXCEPT ![c] = "run"] /\ state' = [state EXCEPT ![t] = "Freed"]
        /\ UNCHANGED <<prev, pend>>
    BY Zenon, <1>3, <2>1 DEF Destroy
  <2>3. t \in Stay /\ Base(t) = c /\ t \notin Idlers
    <3>1. t \in Stay /\ t \notin Idlers
      BY Zenon, <1>2, <2>1
    <3> QED
      BY Zenon, <2>1, <3>1 DEF EndInv
  <2>4. \A u \in All : u # t => state'[u] = state[u]
    BY <1>1, <2>2
  <2>5. \A d \in CPUs : cpc'[d] = "destroy" => state'[prev'[d]] = "Finishing"
    <3> SUFFICES ASSUME NEW d \in CPUs, cpc'[d] = "destroy" PROVE state'[prev[d]] = "Finishing"
      BY <2>2
    <3>1. d # c /\ cpc[d] = "destroy"
      BY <1>1, <2>2
    <3>2. prev[d] \in All /\ state[prev[d]] = "Finishing"
      BY Zenon, <1>2, <3>1
    <3>3. prev[d] # t
      BY Zenon, <2>3, <3>1 DEF EndInv
    <3> QED
      BY Zenon, <2>4, <3>2, <3>3
  <2>6. /\ \A u \in All \ Stay : state'[u] \in {"Running", "Blocked"}
        /\ \A u \in Idlers : state'[u] = "Running" /\ pend'[u] = NoCall
    BY Zenon, <1>2, <2>2, <2>3, <2>4
  <2> QED
    BY Zenon, <2>2, <2>5, <2>6, EndStands
<1>4. CASE Return(c)
  <2>1. PICK t \in All : t = curr[c]
    BY <1>1
  <2>2. /\ prev' = [prev EXCEPT ![c] = None] /\ cpc[c] = "run"
        /\ \/ /\ state[t] = "Cancelled" /\ state' = [state EXCEPT ![t] = "Finishing"]
              /\ pend' = [pend EXCEPT ![t] = NoCall] /\ cpc' = [cpc EXCEPT ![c] = "pick"]
           \/ UNCHANGED <<state, pend>> /\ cpc' = [cpc EXCEPT ![c] = "thread"]
    BY Zenon, <1>4, <2>1 DEF Return
  <2>3. /\ \A u \in All : state'[u] = state[u] \/ (state[u] = "Cancelled" /\ state'[u] = "Finishing")
        /\ \A u \in All : pend'[u] = pend[u] \/ pend'[u] = NoCall
        /\ \A d \in CPUs : cpc'[d] = "destroy" => d # c /\ cpc[d] = "destroy"
        /\ prev'[c] = None /\ \A d \in CPUs : d # c => prev'[d] = prev[d]
    BY Zenon, <1>1, <2>2
  <2>4. /\ \A u \in All \ Stay : state'[u] \in {"Running", "Blocked"}
        /\ \A u \in Idlers : state'[u] = "Running" /\ pend'[u] = NoCall
    BY Zenon, <1>2, <2>3
  <2>5. \A d \in CPUs : cpc'[d] = "destroy" => state'[prev'[d]] = "Finishing"
    <3> SUFFICES ASSUME NEW d \in CPUs, cpc'[d] = "destroy" PROVE state'[prev'[d]] = "Finishing"
      BY Zenon
    <3>1. cpc[d] = "destroy" /\ prev'[d] = prev[d]
      BY Zenon, <2>3
    <3>2. prev[d] \in All /\ state[prev[d]] = "Finishing"
      BY Zenon, <1>2, <3>1
    <3>3. state'[prev[d]] = state[prev[d]] \/ state'[prev[d]] = "Finishing"
      BY Zenon, <2>3, <3>2
    <3> QED
      BY Zenon, <3>1, <3>2, <3>3
  <2> QED
    BY Zenon, <2>3, <2>4, <2>5, EndStands
<1>5. ASSUME NEW t \in Threads, Resume(c, t) \/ InterruptResume(c, t) \/ Cancel(c, t)
      PROVE  EndInv'
  <2>1. /\ UNCHANGED <<cpc, prev, pend>>
        /\ \E x \in {"Running", "Cancelled"} :
             /\ state' = [state EXCEPT ![t] = x]
             /\ x = "Cancelled" => "cancel" \in Ops[t]
    BY Zenon, <1>5 DEF Resume, InterruptResume, Cancel, cpuvars
  <2>2. state[t] # "Finishing" /\ t \in All
    BY Zenon, <1>5 DEF Resume, InterruptResume, Cancel, Wakeable, All
  <2>3. "cancel" \in Ops[t] => t \in Stay
    BY Zenon, <2>2 DEF SchedulerIsOwn, Stay
  <2>4. /\ \A u \in All : u # t => state'[u] = state[u]
        /\ t \notin Stay => state'[t] = "Running"
    BY Zenon, <1>1, <2>1, <2>2, <2>3
  <2>5. /\ \A u \in All \ Stay : state'[u] \in {"Running", "Blocked"}
        /\ \A u \in Idlers : state'[u] = "Running" /\ pend'[u] = NoCall
    BY Zenon, <1>2, <2>1, <2>4
  <2>6. \A d \in CPUs : cpc'[d] = "destroy" => state'[prev'[d]] = "Finishing"
    <3> SUFFICES ASSUME NEW d \in CPUs, cpc'[d] = "destroy" PROVE state'[prev'[d]] = "Finishing"
      BY Zenon
    <3>1. cpc[d] = "destroy" /\ prev'[d] = prev[d]
      BY Zenon, <2>1
    <3>2. prev[d] \in All /\ state[prev[d]] = "Finishing"
      BY Zenon, <1>2, <3>1
    <3> QED
      BY Zenon, <2>2, <2>4, <3>1, <3>2
  <2> QED
    BY Zenon, <2>1, <2>5, <2>6, EndStands
<1> QED
  BY <1>3, <1>4, <1>5

\* The third invariant.
THEOREM EndInvariance == SchedulerIsOwn => (SSpec => [](SInv /\ OwnInv /\ EndInv))
<1> SUFFICES ASSUME SchedulerIsOwn PROVE SSpec => [](SInv /\ OwnInv /\ EndInv)
  OBVIOUS
<1>1. SSpec => [](SInv /\ OwnInv)
  BY OwnInvariance
<1>2. SInit => EndInv
  <2> SUFFICES ASSUME SInit PROVE EndInv
    OBVIOUS
  <2>1. /\ \A c \in CPUs : prev[c] = None /\ cpc[c] # "destroy"
        /\ \A t \in All : state[t] = "Running" /\ pend[t] = NoCall
    BY DEF SInit
  <2>2. None \notin Stay /\ Idlers \subseteq All
    BY BaseType, SchedulerAssumption DEF All
  <2>3. DestroyedOnce
    BY <2>1 DEF DestroyedOnce
  <2> QED
    BY Zenon, <2>1, <2>2, <2>3 DEF EndInv
<1>3. SInv /\ OwnInv /\ EndInv /\ [SNext]_vars => EndInv'
  <2> SUFFICES ASSUME SInv, OwnInv, EndInv, [SNext]_vars PROVE EndInv'
    OBVIOUS
  <2>1. CASE UNCHANGED vars
    <3>1. UNCHANGED <<cpc, prev, state, pend>>
      BY Zenon, <2>1 DEF vars, cpuvars, threadvars
    <3> QED
      BY Zenon, <3>1 DEF EndInv, DestroyedOnce
  <2>2. CASE SNext
    <3>1. PICK c \in CPUs : \/ SwitchStep(c) \/ (\E s \in CPUs : IdleStep(c, s)) \/ ThreadStep(c)
                            \/ PreemptIPI(c) \/ Interrupt(c) \/ \E t \in Threads : InterruptResume(c, t)
      BY Zenon, <2>2 DEF SNext
    <3>2. CASE SwitchStep(c)
      BY Zenon, <3>2, EndQuiet, EndOthers DEF SwitchStep
    <3>3. CASE \E s \in CPUs : IdleStep(c, s)
      BY Zenon, <3>3, EndQuiet, EndCalls DEF IdleStep
    <3>4. CASE ThreadStep(c)
      BY Zenon, <3>4, EndQuiet, EndCalls, EndOthers DEF ThreadStep
    <3>5. CASE PreemptIPI(c) \/ Interrupt(c)
      BY Zenon, <3>5, EndQuiet, EndCalls
    <3>6. CASE \E t \in Threads : InterruptResume(c, t)
      BY Zenon, <3>6, EndOthers
    <3> QED
      BY <3>1, <3>2, <3>3, <3>4, <3>5, <3>6
  <2> QED
    BY <2>1, <2>2
<1> QED
  BY <1>1, <1>2, <1>3, PTL DEF SSpec

\* Thread::destroy finds the thread Finishing (Thread.cc:40), unless a thread
\* that is moved keeps the Scheduler* it has read.
THEOREM DestroyedOnceHolds == SchedulerIsOwn => (SSpec => []DestroyedOnce)
<1>1. SInv /\ OwnInv /\ EndInv => DestroyedOnce
  BY DEF EndInv
<1> QED
  BY <1>1, EndInvariance, PTL

\* A suspending or ending thread finds a successor, GENASSERT0(target) at
\* Scheduler.cc:57, unless a thread that is moved keeps the Scheduler* it has
\* read: the idle thread is in the processor's own queue.
THEOREM SuccessorFoundHolds == SchedulerIsOwn => (SSpec => []SuccessorFound)
<1>1. SInv /\ OwnInv /\ EndInv => SuccessorFound
  <2> SUFFICES ASSUME SInv, OwnInv, EndInv, NEW c \in CPUs, cpc[c] = "pick", target[c] = None
               PROVE  Candidates(this[c], Limit(c)) # {}
    BY DEF SuccessorFound
  <2>1. this[c] = c /\ HomeInv /\ ReadyInv
    BY Zenon DEF OwnInv, HomeInv, SInv
  <2>2. PICK i \in All : i = IdleOf[c] /\ i \in Stay /\ Base(i) = c /\ i \in Idlers
    BY Zenon, BaseType DEF Idlers
  <2>3. state[i] \in Ready /\ state[curr[c]] \notin Ready
    BY Zenon, <2>1, <2>2 DEF EndInv, Ready, ReadyInv
  <2>4. PICK d \in CPUs : curr[d] = i \/ i \in InQueue[d] \/ (Leaves(d) /\ prev[d] = i)
    BY Zenon, <2>1, <2>3 DEF ReadyInv
  <2>5. d = c
    BY Zenon, <2>1, <2>2, <2>4 DEF HomeInv, EndInv
  <2>6. i \in InQueue[c]
    BY Zenon, <2>3, <2>4, <2>5 DEF Leaves
  <2>7. ready[c][2] # <<>>
    <3>1. Class(i) = 2
      BY <2>2, ClassType DEF idlePriority
    <3>2. i \in Range(ready[c][2])
      BY Zenon, <2>6, <3>1 DEF InQueue, Queued
    <3> QED
      BY <3>2 DEF Range
  <2>8. Limit(c) = 3
    BY Zenon, <2>1, SchedulerAssumption DEF Limit, maxPriority
  <2> QED
    BY <2>1, <2>7, <2>8 DEF Candidates
<1> QED
  BY <1>1, EndInvariance, PTL
=============================================================================
