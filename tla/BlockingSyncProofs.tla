------------------------- MODULE BlockingSyncProofs -------------------------
(***************************************************************************)
(* Proofs about BlockingSync, for any number of threads, queues and locks. *)
(* First, what Append (EmbeddedList::push_back) and Unlink                 *)
(* (EmbeddedList::remove) do to a list without duplicates; then the        *)
(* inductive invariant IInv and, step by step, why its part Core survives: *)
(* the steps of a thread that blocks, of an actor that wakes a thread it   *)
(* has won, the steps that compete for a blocked thread (resume, cancel    *)
(* and the timer), and its dispatch; the theorems that follow; last, who   *)
(* holds and who waits for the spin locks: LockInv, and no cycle of waits. *)
(***************************************************************************)
EXTENDS BlockingSync, Integers, TLAPS

\* A list is a function on 1..size().
LEMMA SeqLength ==
  ASSUME NEW T, NEW q \in Seq(T)
  PROVE  DOMAIN q = 1..Len(q) /\ Len(q) \in Nat /\ q \in [1..Len(q) -> T]
OBVIOUS

\* The entries of a list of threads are threads.
LEMMA SeqElement ==
  ASSUME NEW T, NEW q \in Seq(T), NEW k \in 1..Len(q)
  PROVE  q[k] \in T
OBVIOUS

\* A list that is not empty has a first entry.
LEMMA SeqEmpty ==
  ASSUME NEW T
  PROVE  /\ Len(<<>>) = 0 /\ <<>> \in Seq(T)
         /\ \A q \in Seq(T) : q # <<>> => Len(q) \in Nat \ {0}
OBVIOUS

\* push_back leaves the entries before the new one as they are.
LEMMA SeqAppend ==
  ASSUME NEW T, NEW q \in Seq(T), NEW e \in T
  PROVE  /\ Append(q, e) \in Seq(T) /\ Append(q, e) # <<>>
         /\ Len(Append(q, e)) = Len(q) + 1 /\ Append(q, e)[Len(q) + 1] = e
         /\ \A k \in 1..Len(q) : Append(q, e)[k] = q[k]
OBVIOUS

\* One list after the other.
LEMMA SeqConcat ==
  ASSUME NEW T, NEW p \in Seq(T), NEW q \in Seq(T)
  PROVE  /\ p \o q \in Seq(T) /\ Len(p \o q) = Len(p) + Len(q)
         /\ \A k \in 1..(Len(p) + Len(q)) : (p \o q)[k] = IF k <= Len(p) THEN p[k] ELSE q[k - Len(p)]
OBVIOUS

\* The entries from the i-th to the j-th one.
LEMMA SeqSubSeq ==
  ASSUME NEW T, NEW q, NEW i \in Int, NEW j \in Int, \A k \in i..j : q[k] \in T
  PROVE  /\ SubSeq(q, i, j) \in Seq(T) /\ Len(SubSeq(q, i, j)) = IF i <= j THEN j - i + 1 ELSE 0
         /\ \A k \in 1..(j - i + 1) : SubSeq(q, i, j)[k] = q[i + k - 1]
OBVIOUS

\* push_back adds one element and, if it is new, keeps the list duplicate-free.
LEMMA AppendElement ==
  ASSUME NEW S, NEW s \in Seq(S), NEW e \in S
  PROVE  /\ Append(s, e) \in Seq(S)
         /\ Range(Append(s, e)) = Range(s) \cup {e}
         /\ IsInjective(s) /\ e \notin Range(s) => IsInjective(Append(s, e))
<1>1. /\ Append(s, e) \in Seq(S)
      /\ Len(Append(s, e)) = Len(s) + 1
      /\ \A i \in 1..Len(s) : Append(s, e)[i] = s[i]
      /\ Append(s, e)[Len(s) + 1] = e
  BY SeqAppend
<1>2. DOMAIN s = 1..Len(s) /\ DOMAIN Append(s, e) = 1..(Len(s) + 1) /\ Len(s) \in Nat
  BY <1>1, SeqLength
<1>3. Range(Append(s, e)) = Range(s) \cup {e}
  BY <1>1, <1>2, SMT DEF Range
<1>4. ASSUME IsInjective(s), e \notin Range(s)
      PROVE  IsInjective(Append(s, e))
  BY <1>1, <1>2, <1>4, SMT DEF IsInjective, Range
<1> QED
  BY <1>1, <1>3, <1>4

\* resume() walks its queue from the first entry, one entry at a time.
LEMMA FirstPlace == ASSUME NEW n PROVE \A j \in 1..n : ~(j < 1)
OBVIOUS

\* The entries before the next one are those before this one, and this one.
LEMMA NextPlace == ASSUME NEW n, NEW i \in Nat PROVE \A j \in 1..n : j < i + 1 => j < i \/ j = i
OBVIOUS

\* An entry the walk reaches is a member of the queue.
LEMMA PlaceOf ==
  ASSUME NEW S, NEW s \in Seq(S), NEW i \in Nat, i >= 1, i <= Len(s)
  PROVE  i \in DOMAIN s /\ s[i] \in S /\ s[i] \in Range(s)
BY SeqLength DEF Range

\* remove takes exactly the given element off a duplicate-free list.
LEMMA RemoveElement ==
  ASSUME NEW S, NEW s \in Seq(S), NEW e \in Range(s), IsInjective(s)
  PROVE  /\ Unlink(s, e) \in Seq(S)
         /\ Range(Unlink(s, e)) = Range(s) \ {e}
         /\ IsInjective(Unlink(s, e))
<1>1. Len(s) \in Nat /\ DOMAIN s = 1..Len(s)
  BY SeqLength
<1>2. PICK i \in 1..Len(s) : s[i] = e
  BY <1>1 DEF Range
<1>3. \A j \in 1..Len(s) : s[j] = e => j = i
  BY <1>1, <1>2 DEF IsInjective
<1>4. i = CHOOSE j \in 1..Len(s) : s[j] = e
  BY <1>2, <1>3
<1>5. Unlink(s, e) = SubSeq(s, 1, i - 1) \o SubSeq(s, i + 1, Len(s))
  BY Zenon, <1>4 DEF Unlink
<1> DEFINE n == Len(s)
           a == SubSeq(s, 1, i - 1)
           b == SubSeq(s, i + 1, n)
           r == Unlink(s, e)
<1>6. i \in Int /\ n \in Int /\ n \in Nat /\ 1 <= i /\ i <= n /\ (\A j \in 1..n : s[j] \in S)
  BY <1>1, <1>2, SeqElement
<1>7. /\ a \in Seq(S) /\ Len(a) = i - 1
      /\ \A j \in 1..(i - 1) : a[j] = s[j]
  <2>1. 1 \in Int /\ i - 1 \in Int /\ \A j \in 1..(i - 1) : s[j] \in S
    BY <1>6
  <2>2. /\ a \in Seq(S) /\ Len(a) = IF 1 <= i - 1 THEN (i - 1) - 1 + 1 ELSE 0
        /\ \A j \in 1..((i - 1) - 1 + 1) : a[j] = s[1 + j - 1]
    BY <2>1, SeqSubSeq
  <2> HIDE DEF a, n
  <2> QED
    BY <1>6, <2>2
<1>8. /\ b \in Seq(S) /\ Len(b) = n - i
      /\ \A j \in 1..(n - i) : b[j] = s[i + j]
  <2>1. i + 1 \in Int /\ n \in Int /\ \A j \in (i + 1)..n : s[j] \in S
    BY <1>6
  <2>2. /\ b \in Seq(S) /\ Len(b) = IF i + 1 <= n THEN n - (i + 1) + 1 ELSE 0
        /\ \A j \in 1..(n - (i + 1) + 1) : b[j] = s[(i + 1) + j - 1]
    BY <2>1, SeqSubSeq
  <2> HIDE DEF b, n
  <2> QED
    BY <1>6, <2>2
<1>9. r = a \o b
  BY <1>5
<1> HIDE DEF a, b, r, n
<1>10. /\ r \in Seq(S) /\ Len(r) = n - 1
       /\ \A j \in 1..(n - 1) : r[j] = IF j < i THEN s[j] ELSE s[j + 1]
  <2>1. /\ r \in Seq(S) /\ Len(r) = Len(a) + Len(b)
        /\ \A j \in 1..(Len(a) + Len(b)) :
             r[j] = IF j <= Len(a) THEN a[j] ELSE b[j - Len(a)]
    BY <1>7, <1>8, <1>9, SeqConcat
  <2> QED
    BY <1>6, <1>7, <1>8, <2>1
<1>11. DOMAIN r = 1..(n - 1) /\ DOMAIN s = 1..n
  BY <1>1, <1>10, SeqLength DEF n
<1>12. \A j, k \in 1..n : s[j] = s[k] => j = k
  BY <1>11 DEF IsInjective
<1>13. ASSUME NEW x \in Range(r) PROVE x \in Range(s) \ {e}
  <2>1. PICK j \in 1..(n - 1) : r[j] = x
    BY <1>11, <1>13 DEF Range
  <2>2. PICK k \in 1..n : k # i /\ s[k] = x
    <3>1. CASE j < i
      BY <1>6, <1>10, <2>1, <3>1
    <3>2. CASE ~(j < i)
      <4>1. j + 1 \in 1..n /\ j + 1 # i
        BY <1>6, <2>1, <3>2
      <4> QED
        BY <1>10, <2>1, <3>2, <4>1
    <3> QED
      BY <3>1, <3>2
  <2> QED
    BY <1>2, <1>6, <1>11, <1>12, <2>2 DEF Range
<1>14. ASSUME NEW x \in Range(s), x # e PROVE x \in Range(r)
  <2>1. PICK k \in 1..n : s[k] = x
    BY <1>11, <1>14 DEF Range
  <2>2. PICK j \in 1..(n - 1) : r[j] = x
    <3>1. CASE k < i
      BY <1>6, <1>10, <2>1, <3>1
    <3>2. CASE k > i
      <4>1. k - 1 \in 1..(n - 1) /\ ~(k - 1 < i) /\ (k - 1) + 1 = k
        BY <1>6, <3>2
      <4> QED
        BY <1>10, <2>1, <4>1
    <3> QED
      BY <1>2, <1>6, <1>14, <2>1, <3>1, <3>2
  <2> QED
    BY <1>11, <2>2 DEF Range
<1>15. ASSUME NEW j \in 1..(n - 1), NEW k \in 1..(n - 1), r[j] = r[k] PROVE j = k
  <2>1. /\ j < i => r[j] = s[j] /\ j \in 1..n
        /\ ~(j < i) => r[j] = s[j + 1] /\ j + 1 \in 1..n
        /\ k < i => r[k] = s[k] /\ k \in 1..n
        /\ ~(k < i) => r[k] = s[k + 1] /\ k + 1 \in 1..n
    BY <1>6, <1>10
  <2> QED
    BY <1>6, <1>12, <1>15, <2>1
<1>16. IsInjective(r)
  BY <1>11, <1>15 DEF IsInjective
<1>17. Range(r) = Range(s) \ {e}
  BY <1>13, <1>14
<1> QED
  BY <1>5, <1>10, <1>16, <1>17 DEF r

-----------------------------------------------------------------------------
CancelPC == {"xCancelTimeout", "xCancelBlocking", "xResume"}
WakePC == {"cancelTimeout", "resume"} \cup CancelPC

\* w is on the queue its UnblockInfo names.
StillQueued(w) == where[w] # None => OnQueue(where[w], w)

\* The owner of Timeout::lock, and the entries checkExpiry has still to visit.
TimerInv ==
  /\ pc[Timer] = "scan" <=> tlock = Timer
  /\ \A t \in Threads : pc[t] = "held2" => tlock = t
  /\ pc[Timer] # "scan" => scan = {}
  /\ scan \subseteq tq
  /\ \A w \in scan : deadline[w] <= now

\* What an actor knows of the thread it has won, at each point of the wake-up.
ClaimInv ==
  \A a \in Actors :
    LET w == victim[a] IN
    /\ pc[a] \in WakePC => w \in Threads
    /\ w # None => pc[a] \in WakePC \cup {"dead"}
    /\ pc[a] = "cancelTimeout" => \A q \in Queues : ~OnQueue(q, w)
    /\ pc[a] = "xCancelTimeout" => StillQueued(w)
    /\ pc[a] = "xCancelBlocking" => w \notin tq /\ where[w] # None /\ StillQueued(w)
    /\ a # Timer /\ pc[a] \in CancelPC => state[w] = "Cancelled"
    /\ a = Timer /\ w # None => timed[w] /\ deadline[w] <= now

\* The threads on checkExpiry's fireList.
FireInv ==
  \A w \in fire : w \notin tq /\ timed[w] /\ deadline[w] <= now /\ StillQueued(w)

TimedOutInv ==
  \A t \in Threads : timedOut[t] => pc[t] \in {"suspended", "ready"}

Core ==
  /\ ClaimInv /\ FireInv /\ TimedOutInv
  /\ OneWaker /\ NoStaleLinks /\ BlockedIsLinked /\ NoEarlyTimeout

IInv == TypeOK /\ TimerInv /\ Core

-----------------------------------------------------------------------------
\* EmbeddedList<Thread> links threads: what is on a BlockingQueue is a thread.
LEMMA QueuedAreThreads ==
  ASSUME TypeOK
  PROVE  \A q \in Queues : Range(bq[q]) \subseteq Threads
  BY SeqLength, SeqElement DEF TypeOK, Range

\* A thread that is not suspended is linked nowhere and claimed by nobody.
LEMMA RunningIsFree ==
  ASSUME IInv, NEW t \in Threads, pc[t] # "suspended"
  PROVE  /\ \A a \in Actors : victim[a] # t
         /\ t \notin fire /\ t \notin tq /\ t \notin scan
         /\ \A q \in Queues : t \notin Range(bq[q])
         /\ state[t] # "Blocked"
         /\ pc[t] # "ready" => ~timedOut[t]
  BY DEF IInv, Core, OneWaker, Claimed, NoStaleLinks, BlockedIsLinked, TimerInv,
         TimedOutInv

\* The thread an actor has won is suspended, no longer Blocked, and nobody
\* else's.
LEMMA WonThread ==
  ASSUME IInv, NEW a \in Actors, pc[a] \in WakePC
  PROVE  /\ victim[a] \in Threads /\ victim[a] # a
         /\ pc[victim[a]] = "suspended" /\ state[victim[a]] # "Blocked"
         /\ victim[a] \notin fire
         /\ \A b \in Actors : victim[b] = victim[a] => b = a
<1>1. victim[a] \in Threads
  BY DEF IInv, Core, ClaimInv
<1>2. /\ pc[victim[a]] = "suspended" /\ state[victim[a]] # "Blocked"
      /\ victim[a] \notin fire
      /\ \A b \in Actors : victim[b] = victim[a] => b = a
  BY <1>1 DEF IInv, Core, OneWaker, Claimed
<1> QED
  BY <1>1, <1>2 DEF WakePC, CancelPC

-----------------------------------------------------------------------------
\* What an actor knows of the thread it has won stands as long as nobody moves
\* that thread: unblock and cancel leave a thread they have not won alone.
LEMMA ClaimStands ==
  ASSUME IInv, NEW b \in Actors, pc'[b] = pc[b], victim'[b] = victim[b], now' = now,
         \A w \in Threads : victim[b] = w =>
           /\ \A q \in Queues : w \in Range(bq'[q]) <=> w \in Range(bq[q])
           /\ w \in tq' => w \in tq
           /\ where'[w] = where[w] /\ timed'[w] = timed[w] /\ deadline'[w] = deadline[w]
           /\ state'[w] \in {state[w], "Cancelled"}
  PROVE  ClaimInv!(b)'
<1>1. ClaimInv!(b)
  BY DEF IInv, Core, ClaimInv
<1>2. victim[b] \in Threads \cup {None} /\ where \in [Threads -> Queues \cup {None}]
  BY DEF IInv, TypeOK
<1>3. CASE victim[b] \in Threads
  <2>1. PICK w \in Threads : w = victim[b]
    BY <1>3
  <2>2. /\ \A q \in Queues : w \in Range(bq'[q]) <=> w \in Range(bq[q])
        /\ w \in tq' => w \in tq
        /\ where'[w] = where[w] /\ timed'[w] = timed[w] /\ deadline'[w] = deadline[w]
        /\ state'[w] \in {state[w], "Cancelled"}
        /\ where[w] \in Queues \cup {None}
    BY <1>2, <2>1
  <2>3. StillQueued(w) => (where'[w] # None => w \in Range(bq'[where'[w]]))
    BY <2>2 DEF StillQueued, OnQueue
  <2> QED
    BY <1>1, <2>1, <2>2, <2>3 DEF StillQueued, OnQueue
<1>4. CASE victim[b] = None
  BY <1>1, <1>4, ConstantsAssumption DEF WakePC, CancelPC
<1> QED
  BY <1>2, <1>3, <1>4

\* Core reads no other variables than these.
LEMMA CoreFrame ==
  ASSUME Core, UNCHANGED <<state, pc, bq, tq, deadline, now, where, timed, timedOut, victim, fire>>
  PROVE  Core'
<1>1. ClaimInv'
  BY DEF Core, ClaimInv, StillQueued, OnQueue
<1>2. FireInv' /\ TimedOutInv'
  BY DEF Core, FireInv, TimedOutInv, StillQueued, OnQueue
<1>3. OneWaker' /\ NoStaleLinks'
  BY DEF Core, OneWaker, Claimed, NoStaleLinks, Linked, OnQueue
<1>4. BlockedIsLinked' /\ NoEarlyTimeout'
  BY DEF Core, BlockedIsLinked, NoEarlyTimeout, OnQueue
<1> QED
  BY <1>1, <1>2, <1>3, <1>4 DEF Core

\* A step of a running thread that touches neither queues nor claims.
LEMMA LocalStep ==
  ASSUME IInv, NEW t \in Threads,
         NEW label \in {"run", "held", "missed", "spinTimeout", "held2", "walk", "dead"},
         pc[t] \notin {"suspended", "ready", "dead"},
         pc[t] \notin WakePC \/ label = "dead",
         pc' = [pc EXCEPT ![t] = label],
         state'[t] \in {state[t], "Finishing"},
         \A w \in Threads : w # t => state'[w] = state[w] /\ deadline'[w] = deadline[w],
         UNCHANGED <<bq, tq, now, where, timed, timedOut, victim, fire>>
  PROVE  Core'
<1>1. /\ \A a \in Actors : victim[a] # t
      /\ t \notin fire /\ t \notin tq
      /\ \A q \in Queues : t \notin Range(bq[q])
      /\ state[t] # "Blocked" /\ state'[t] # "Blocked"
      /\ ~timedOut[t]
  BY RunningIsFree
<1>2. /\ \A a \in Actors : a # t => pc'[a] = pc[a]
      /\ pc'[t] = label
      /\ label \notin WakePC /\ label \notin {"suspended", "ready", "resume", "xResume"}
  BY DEF IInv, TypeOK, Actors, WakePC, CancelPC
<1>3. ClaimInv'
  BY <1>1, <1>2 DEF IInv, Core, TypeOK, ClaimInv, StillQueued, OnQueue, WakePC, CancelPC, Actors
<1>4. FireInv'
  BY Zenon, <1>1, <1>2 DEF IInv, Core, TypeOK, FireInv, StillQueued, OnQueue
<1>5. TimedOutInv'
  BY <1>1, <1>2 DEF IInv, Core, TypeOK, TimedOutInv, Actors
<1>6. OneWaker'
  <2>1. \A w \in Threads : (pc[w] = "suspended" /\ state[w] # "Blocked")'
                       <=> (pc[w] = "suspended" /\ state[w] # "Blocked")
    BY <1>1, <1>2 DEF Actors
  <2> QED
    BY <2>1 DEF IInv, Core, OneWaker, Claimed
<1>7. NoStaleLinks'
  BY <1>1, <1>2 DEF IInv, Core, TypeOK, NoStaleLinks, Linked, OnQueue, Actors
<1>8. BlockedIsLinked'
  BY <1>1, <1>2 DEF IInv, Core, BlockedIsLinked, OnQueue, Actors
<1>9. NoEarlyTimeout'
  BY <1>1, <1>2 DEF IInv, Core, NoEarlyTimeout
<1> QED
  BY <1>3, <1>4, <1>5, <1>6, <1>7, <1>8, <1>9 DEF Core

\* A thread goes to sleep: on queue q (or None), with a timeout or without.
LEMMA SuspendStep ==
  ASSUME IInv, NEW t \in Threads, NEW q \in Queues \cup {None},
         NEW b \in BOOLEAN, NEW d \in Nat,
         pc[t] \in {"run", "held", "held2"},
         q # None \/ b,
         Suspend(t, q, b, d),
         UNCHANGED <<now, victim, fire>>
  PROVE  Core' /\ bq' \in [Queues -> Seq(Threads)]
<1>1. /\ \A a \in Actors : victim[a] # t
      /\ t \notin fire /\ t \notin tq
      /\ \A p \in Queues : t \notin Range(bq[p])
      /\ state[t] # "Blocked"
      /\ ~timedOut[t]
  BY RunningIsFree
<1>2. /\ bq' \in [Queues -> Seq(Threads)]
      /\ \A p \in Queues : /\ Range(bq'[p]) = Range(bq[p]) \cup (IF p = q THEN {t} ELSE {})
                           /\ IsInjective(bq'[p])
  <2>1. bq \in [Queues -> Seq(Threads)] /\ \A p \in Queues : IsInjective(bq[p])
    BY DEF IInv, Core, TypeOK, NoStaleLinks
  <2>2. CASE q = None
    BY <2>1, <2>2, ConstantsAssumption DEF Suspend
  <2>3. CASE q \in Queues
    <3>1. /\ Append(bq[q], t) \in Seq(Threads)
          /\ Range(Append(bq[q], t)) = Range(bq[q]) \cup {t}
          /\ IsInjective(Append(bq[q], t))
      BY <1>1, <2>1, <2>3, AppendElement
    <3>2. bq' = [bq EXCEPT ![q] = Append(bq[q], t)]
      BY <2>3, ConstantsAssumption DEF Suspend
    <3> QED
      BY <2>1, <2>3, <3>1, <3>2
  <2> QED
    BY Zenon, <2>2, <2>3
<1>3. /\ pc' = [pc EXCEPT ![t] = "suspended"]
      /\ state' = [state EXCEPT ![t] = "Blocked"]
      /\ where' = [where EXCEPT ![t] = q]
      /\ timed' = [timed EXCEPT ![t] = b]
      /\ deadline' = [deadline EXCEPT ![t] = d]
      /\ timedOut' = [timedOut EXCEPT ![t] = FALSE]
      /\ tq' = tq \cup (IF b THEN {t} ELSE {})
  BY DEF Suspend, Goto
<1>4. /\ \A a \in Actors : a # t => pc'[a] = pc[a]
      /\ pc'[t] = "suspended"
      /\ \A w \in Threads : w # t => /\ state'[w] = state[w]
                                     /\ where'[w] = where[w]
                                     /\ timed'[w] = timed[w]
                                     /\ deadline'[w] = deadline[w]
                                     /\ timedOut'[w] = timedOut[w]
      /\ state'[t] = "Blocked" /\ where'[t] = q /\ timed'[t] = b /\ timedOut'[t] = FALSE
  BY <1>3 DEF IInv, TypeOK, Actors
<1>5. ClaimInv'
  BY <1>1, <1>2, <1>3, <1>4 DEF IInv, Core, TypeOK, ClaimInv, StillQueued, OnQueue, WakePC, CancelPC, Actors
<1>6. FireInv'
  BY <1>1, <1>2, <1>3, <1>4 DEF IInv, Core, TypeOK, FireInv, StillQueued, OnQueue
<1>7. TimedOutInv'
  BY <1>4 DEF IInv, Core, TimedOutInv, Actors
<1>8. OneWaker'
  <2>1. \A w \in Threads : (pc[w] = "suspended" /\ state[w] # "Blocked")'
                       <=> (pc[w] = "suspended" /\ state[w] # "Blocked")
    BY <1>1, <1>4 DEF Actors
  <2> QED
    BY <2>1 DEF IInv, Core, OneWaker, Claimed
<1>9. NoStaleLinks'
  <2>1. \A a \in Actors : pc'[a] \in {"resume", "xResume"} => ~Linked(victim[a])'
    BY <1>1, <1>2, <1>3, <1>4 DEF IInv, Core, NoStaleLinks, Linked, OnQueue, Actors
  <2>2. \A w \in tq' : pc'[w] = "suspended" /\ timed'[w]
    BY <1>3, <1>4 DEF IInv, Core, TypeOK, NoStaleLinks, Actors
  <2>3. \A p \in Queues : \A w \in Range(bq'[p]) : pc'[w] = "suspended" /\ where'[w] = p
    <3>1. \A p \in Queues : Range(bq[p]) \subseteq Threads
      BY QueuedAreThreads DEF IInv
    <3>2. ASSUME NEW p \in Queues, NEW w \in Range(bq[p])
          PROVE  pc'[w] = "suspended" /\ where'[w] = p
      <4>1. w \in Threads /\ w # t /\ pc[w] = "suspended" /\ where[w] = p
        BY <1>1, <3>1, <3>2 DEF IInv, Core, NoStaleLinks
      <4> QED
        BY <1>4, <4>1 DEF Actors
    <3> QED
      BY <1>2, <1>4, <3>2
  <2> QED
    BY <1>2, <2>1, <2>2, <2>3 DEF NoStaleLinks
<1>10. BlockedIsLinked'
  BY <1>1, <1>2, <1>3, <1>4 DEF IInv, Core, TypeOK, BlockedIsLinked, OnQueue, Actors
<1>11. NoEarlyTimeout'
  BY Zenon, <1>4 DEF IInv, Core, NoEarlyTimeout
<1> QED
  BY <1>2, <1>5, <1>6, <1>7, <1>8, <1>9, <1>10, <1>11 DEF Core

\* Scheduler::resume of the thread an actor has won.
LEMMA WakeStep ==
  ASSUME IInv, NEW a \in Actors, NEW here \in {"resume", "xResume"},
         NEW next \in {"run", "held", "fire"}, Wake(a, here, next)
  PROVE  Core'
<1>1. PICK w \in Threads :
      /\ w = victim[a] /\ w # a
      /\ pc[w] = "suspended" /\ state[w] # "Blocked"
      /\ w \notin fire
      /\ \A b \in Actors : victim[b] = w => b = a
  BY WonThread DEF Wake, WakePC, CancelPC
<1>2. w \notin tq /\ \A q \in Queues : w \notin Range(bq[q])
  BY Zenon, <1>1 DEF Wake, IInv, Core, NoStaleLinks, Linked, OnQueue
<1>3. /\ pc'[a] = next /\ pc'[w] = "ready"
      /\ \A b \in Actors : b # a /\ b # w => pc'[b] = pc[b]
      /\ victim'[a] = None
      /\ \A b \in Actors : b # a => victim'[b] = victim[b]
      /\ w \in Actors
  BY <1>1 DEF Wake, IInv, TypeOK, Actors
<1>4. UNCHANGED <<state, bq, tq, deadline, now, where, timed, timedOut, fire>>
  BY DEF Wake, info, timer
<1>5. ClaimInv'
  <2> SUFFICES ASSUME NEW b \in Actors, b # a PROVE ClaimInv!(b)'
    BY Zenon, <1>1, <1>3, ConstantsAssumption DEF ClaimInv, WakePC, CancelPC, Actors
  <2> QED
    BY <1>1, <1>3, <1>4 DEF IInv, Core, TypeOK, ClaimInv, StillQueued, OnQueue, WakePC, CancelPC
<1>6. FireInv'
  BY Zenon, <1>4 DEF IInv, Core, FireInv, StillQueued, OnQueue
<1>7. TimedOutInv'
  BY Zenon, <1>1, <1>3, <1>4 DEF IInv, Core, TimedOutInv, Wake, Actors
<1>8. OneWaker'
  <2>1. \A x \in Threads : x # w => /\ Claimed(x)' <=> Claimed(x)
                                    /\ (pc[x] = "suspended")' <=> pc[x] = "suspended"
    <3>1. \A x \in Threads : x # w => (Claimed(x)' <=> Claimed(x))
      BY Zenon, <1>1, <1>3, <1>4, ConstantsAssumption DEF Claimed
    <3>2. \A x \in Threads : x # w => ((pc[x] = "suspended")' <=> pc[x] = "suspended")
      BY Zenon, <1>3 DEF Wake, Actors
    <3> QED
      BY <3>1, <3>2
  <2>2. ~Claimed(w)' /\ pc'[w] # "suspended"
    BY <1>1, <1>3, <1>4, ConstantsAssumption DEF Claimed
  <2>3. \A b \in Actors : victim'[b] \in Threads => victim'[b] = victim[b]
    BY <1>3, ConstantsAssumption
  <2>4. \A x \in Threads : (Claimed(x) <=> pc[x] = "suspended" /\ state[x] # "Blocked")'
    BY <1>4, <2>1, <2>2 DEF IInv, Core, OneWaker
  <2>5. \A x \in Threads : \A b, c \in Actors : victim'[b] = x /\ victim'[c] = x => b = c
    BY <2>3 DEF IInv, Core, OneWaker
  <2>6. \A x \in fire' : \A b \in Actors : x \in Threads => victim'[b] # x
    BY <1>4, <2>3 DEF IInv, Core, OneWaker
  <2> QED
    BY <2>4, <2>5, <2>6 DEF OneWaker
<1>9. NoStaleLinks'
  <2>1. \A q \in Queues : Range(bq[q]) \subseteq Threads
    BY QueuedAreThreads DEF IInv
  <2>2. \A x \in Threads : x # w /\ pc[x] = "suspended" => pc'[x] = "suspended"
    BY Zenon, <1>3 DEF Wake, Actors
  <2>3. \A b \in Actors : pc'[b] \in {"resume", "xResume"} => b # a /\ pc[b] = pc'[b]
    BY <1>3
  <2> QED
    BY <1>2, <1>3, <1>4, <2>1, <2>2, <2>3 DEF IInv, Core, TypeOK, NoStaleLinks, Linked, OnQueue
<1>10. BlockedIsLinked'
  BY Zenon, <1>1, <1>3, <1>4 DEF IInv, Core, BlockedIsLinked, OnQueue, Wake, Actors
<1>11. NoEarlyTimeout'
  BY <1>4 DEF IInv, Core, NoEarlyTimeout
<1> QED
  BY <1>5, <1>6, <1>7, <1>8, <1>9, <1>10, <1>11 DEF Core

\* cancelTimeout for the thread just won, by a waker or by a canceller.
LEMMA CancelTimeoutStep ==
  ASSUME IInv, NEW t \in Threads, NEW here, NEW next,
         \/ here = "cancelTimeout" /\ next = "resume"
         \/ here = "xCancelTimeout" /\ next = AfterTimeout(victim[t]),
         CancelTimeout(t, here, next)
  PROVE  Core'
<1>1. PICK w \in Threads :
      /\ w = victim[t] /\ w # t
      /\ pc[w] = "suspended" /\ state[w] # "Blocked"
      /\ w \notin fire
      /\ \A b \in Actors : victim[b] = w => b = t
  BY WonThread DEF CancelTimeout, WakePC, CancelPC, Actors
<1>2. /\ pc'[t] = next /\ \A b \in Actors : b # t => pc'[b] = pc[b]
      /\ tq' = tq \ {w}
      /\ UNCHANGED <<state, bq, deadline, now, where, timed, timedOut, fire, victim>>
  BY <1>1 DEF CancelTimeout, Goto, info, timer, IInv, TypeOK, Actors
<1>3. /\ next = "resume" => /\ here = "cancelTimeout"
                            /\ \A q \in Queues : w \notin Range(bq[q])
      /\ next = "xResume" => where[w] = None /\ here \in CancelPC
      /\ next = "xCancelBlocking" => /\ where[w] # None /\ here \in CancelPC
                                     /\ w \in Range(bq[where[w]])
      /\ next \in {"resume", "xResume", "xCancelBlocking"}
  BY <1>1 DEF CancelTimeout, AfterTimeout, IInv, Core, ClaimInv, StillQueued, OnQueue, CancelPC, Actors
<1>4. pc[t] = here
  BY DEF CancelTimeout
<1>5. ClaimInv'
  <2> SUFFICES ASSUME NEW b \in Actors PROVE ClaimInv!(b)'
    BY DEF ClaimInv
  <2>1. CASE b = t
    BY <1>1, <1>2, <1>3, <1>4, <2>1, ConstantsAssumption
    DEF IInv, Core, TypeOK, ClaimInv, StillQueued, OnQueue, WakePC, CancelPC
  <2>2. CASE b # t
    <3>1. \A x \in Threads : state'[x] \in {state[x], "Cancelled"}
      BY Zenon, <1>2
    <3> QED
      BY Zenon, <1>2, <2>2, <3>1, ClaimStands
  <2> QED
    BY <2>1, <2>2
<1>6. FireInv'
  BY <1>2 DEF IInv, Core, FireInv, StillQueued, OnQueue
<1>7. TimedOutInv'
  BY <1>2, <1>4, <1>3 DEF IInv, Core, TimedOutInv, Actors, CancelPC
<1>8. \A x \in Threads : (pc[x] = "suspended")' <=> pc[x] = "suspended"
  BY <1>2, <1>3, <1>4 DEF Actors, CancelPC
<1>9. OneWaker'
  BY <1>2, <1>8 DEF IInv, Core, OneWaker, Claimed
<1>10. NoStaleLinks'
  <2>1. \A q \in Queues : Range(bq[q]) \subseteq Threads
    BY QueuedAreThreads DEF IInv
  <2>2. ~Linked(w)' \/ next = "xCancelBlocking"
    BY <1>2, <1>3, ConstantsAssumption DEF IInv, Core, NoStaleLinks, Linked, OnQueue
  <2>3. \A b \in Actors : pc'[b] \in {"resume", "xResume"} => ~Linked(victim[b])'
    BY <1>1, <1>2, <1>3, <2>2 DEF IInv, Core, NoStaleLinks, Linked, OnQueue
  <2> QED
    BY <1>2, <1>8, <2>1, <2>3 DEF IInv, Core, TypeOK, NoStaleLinks
<1>11. BlockedIsLinked'
  BY <1>1, <1>2, <1>8 DEF IInv, Core, BlockedIsLinked, OnQueue
<1>12. NoEarlyTimeout'
  BY <1>2 DEF IInv, Core, NoEarlyTimeout
<1> QED
  BY <1>5, <1>6, <1>7, <1>9, <1>10, <1>11, <1>12 DEF Core

\* cancelBlocking for the thread just won, by a canceller or by the timer.
LEMMA CancelBlockingStep ==
  ASSUME IInv, NEW a \in Actors, CancelBlocking(a)
  PROVE  Core' /\ bq' \in [Queues -> Seq(Threads)]
<1>1. PICK w \in Threads :
      /\ w = victim[a] /\ w # a
      /\ pc[w] = "suspended" /\ state[w] # "Blocked"
      /\ w \notin fire
      /\ \A b \in Actors : victim[b] = w => b = a
  BY WonThread DEF CancelBlocking, WakePC, CancelPC
<1>2. PICK q \in Queues : q = where[w] /\ w \in Range(bq[q]) /\ w \notin tq
  BY <1>1 DEF IInv, Core, ClaimInv, StillQueued, OnQueue, TypeOK, CancelBlocking
<1>3. /\ bq' \in [Queues -> Seq(Threads)]
      /\ \A p \in Queues : /\ Range(bq'[p]) = Range(bq[p]) \ {w}
                           /\ IsInjective(bq'[p])
  <2>1. /\ bq \in [Queues -> Seq(Threads)]
        /\ \A p \in Queues : IsInjective(bq[p]) /\ (w \in Range(bq[p]) => p = q)
    BY <1>2 DEF IInv, Core, TypeOK, NoStaleLinks
  <2>2. /\ Unlink(bq[q], w) \in Seq(Threads)
        /\ Range(Unlink(bq[q], w)) = Range(bq[q]) \ {w}
        /\ IsInjective(Unlink(bq[q], w))
    BY <1>2, <2>1, RemoveElement
  <2>3. bq' = [bq EXCEPT ![q] = Unlink(bq[q], w)]
    BY <1>1, <1>2 DEF CancelBlocking
  <2> QED
    BY <2>1, <2>2, <2>3
<1>4. /\ pc[a] = "xCancelBlocking" /\ pc'[a] = "xResume"
      /\ \A b \in Actors : b # a => pc'[b] = pc[b]
      /\ timedOut' = [timedOut EXCEPT ![w] = TRUE]
      /\ UNCHANGED <<state, tq, deadline, now, where, timed, fire, victim>>
  BY <1>1 DEF CancelBlocking, Goto, timer, IInv, TypeOK
<1>5. \A x \in Threads : (pc[x] = "suspended")' <=> pc[x] = "suspended"
  BY <1>4 DEF Actors
<1>6. ClaimInv'
  <2> SUFFICES ASSUME NEW b \in Actors PROVE ClaimInv!(b)'
    BY Zenon DEF ClaimInv
  <2>1. CASE b = a
    BY <1>1, <1>4, <2>1, ConstantsAssumption
    DEF IInv, Core, TypeOK, ClaimInv, StillQueued, OnQueue, WakePC, CancelPC
  <2>2. CASE b # a
    BY <1>1, <1>3, <1>4, <2>2
    DEF IInv, Core, TypeOK, ClaimInv, StillQueued, OnQueue, WakePC, CancelPC
  <2> QED
    BY <2>1, <2>2
<1>7. FireInv'
  BY <1>1, <1>3, <1>4 DEF IInv, Core, TypeOK, FireInv, StillQueued, OnQueue
<1>8. TimedOutInv'
  BY Zenon, <1>1, <1>4, <1>5 DEF IInv, Core, TypeOK, TimedOutInv, Actors
<1>9. OneWaker'
  BY <1>4, <1>5 DEF IInv, Core, OneWaker, Claimed
<1>10. NoStaleLinks'
  <2>1. \A p \in Queues : Range(bq[p]) \subseteq Threads
    BY QueuedAreThreads DEF IInv
  <2>2. \A b \in Actors : pc'[b] \in {"resume", "xResume"} => ~Linked(victim[b])'
    BY <1>1, <1>2, <1>3, <1>4 DEF IInv, Core, NoStaleLinks, Linked, OnQueue
  <2> QED
    BY <1>3, <1>4, <1>5, <2>1, <2>2 DEF IInv, Core, TypeOK, NoStaleLinks
<1>11. BlockedIsLinked'
  BY <1>1, <1>3, <1>4, <1>5 DEF IInv, Core, TypeOK, BlockedIsLinked, OnQueue
<1>12. NoEarlyTimeout'
  <2>1. state[w] # "Cancelled" => timed[w] /\ deadline[w] <= now
    BY <1>1, <1>4, ConstantsAssumption DEF IInv, Core, ClaimInv, CancelPC
  <2> QED
    BY <1>4, <2>1 DEF IInv, Core, TypeOK, NoEarlyTimeout
<1> QED
  BY <1>3, <1>6, <1>7, <1>8, <1>9, <1>10, <1>11, <1>12 DEF Core

-----------------------------------------------------------------------------
(* The races for a blocked thread. *)

\* One iteration of resume(): the first Blocked thread is won and unlinked.
LEMMA TryUnblockStep ==
  ASSUME IInv, NEW t \in Threads, TryUnblock(t)
  PROVE  Core' /\ bq' \in [Queues -> Seq(Threads)] /\ victim' \in [Actors -> Threads \cup {None}]
<1>1. CASE UNCHANGED <<state, bq, victim, lock, pc, cur>>
  BY Zenon, <1>1, CoreFrame DEF TryUnblock, info, timer, IInv, TypeOK
<1>2. CASE ~UNCHANGED <<state, bq, victim, lock, pc, cur>>
  <2>1. PICK q \in Queues, w \in Threads :
          /\ q = cur[t] /\ w = bq[q][idx[t]] /\ w \in Range(bq[q])
    <3>1. cur[t] \in Queues /\ bq[cur[t]] \in Seq(Threads) /\ idx[t] \in 1..Len(bq[cur[t]])
      BY DEF TryUnblock, IInv, TypeOK
    <3> QED
      BY <3>1, SeqElement, SeqLength DEF Range
  <2>2. /\ state[w] = "Blocked"
        /\ state' = [state EXCEPT ![w] = "Running"]
        /\ bq' = [bq EXCEPT ![q] = Unlink(bq[q], w)]
        /\ victim' = [victim EXCEPT ![t] = w]
        /\ pc' = [pc EXCEPT ![t] = IF timed[w] THEN "cancelTimeout" ELSE "resume"]
        /\ pc[t] = "walk"
        /\ UNCHANGED <<tq, deadline, now, where, timed, timedOut, fire>>
    BY Zenon, <1>2, <2>1 DEF TryUnblock, Goto, info, timer
  <2>3. /\ pc[w] = "suspended" /\ where[w] = q /\ w # t
        /\ w \notin fire /\ \A b \in Actors : victim[b] # w
        /\ (~timed[w] => w \notin tq) /\ victim[t] = None
    BY <2>1, <2>2 DEF IInv, Core, TypeOK, ClaimInv, OneWaker, Claimed, NoStaleLinks, WakePC, CancelPC, Actors
  <2>4. /\ bq' \in [Queues -> Seq(Threads)]
        /\ \A p \in Queues : /\ Range(bq'[p]) = Range(bq[p]) \ {w}
                             /\ IsInjective(bq'[p])
    <3>1. /\ bq \in [Queues -> Seq(Threads)]
          /\ \A p \in Queues : IsInjective(bq[p]) /\ (w \in Range(bq[p]) => p = q)
      BY <2>3 DEF IInv, Core, TypeOK, NoStaleLinks
    <3>2. /\ Unlink(bq[q], w) \in Seq(Threads)
          /\ Range(Unlink(bq[q], w)) = Range(bq[q]) \ {w}
          /\ IsInjective(Unlink(bq[q], w))
      BY <2>1, <3>1, RemoveElement
    <3> QED
      BY <2>2, <3>1, <3>2
  <2>5. /\ pc'[t] \in {"cancelTimeout", "resume"} /\ (pc'[t] = "resume" => w \notin tq)
        /\ \A b \in Actors : b # t => pc'[b] = pc[b] /\ victim'[b] = victim[b]
        /\ victim'[t] = w /\ state'[w] = "Running"
        /\ \A x \in Threads : x # w => state'[x] = state[x]
        /\ victim' \in [Actors -> Threads \cup {None}] /\ t \in Actors
    BY <2>2, <2>3 DEF IInv, TypeOK, Actors
  <2>6. \A x \in Threads : (pc[x] = "suspended")' <=> pc[x] = "suspended"
    BY <2>2, <2>5 DEF Actors
  <2>7. ClaimInv'
    <3> SUFFICES ASSUME NEW b \in Actors PROVE ClaimInv!(b)'
      BY Zenon DEF ClaimInv
    <3>1. CASE b = t
      <4>1. /\ w \in Threads /\ victim'[b] = w /\ pc'[b] \in {"cancelTimeout", "resume"} /\ (pc'[b] = "resume" => w \notin tq)
            /\ state'[w] = "Running" /\ \A p \in Queues : w \notin Range(bq'[p])
        BY Zenon, <2>1, <2>4, <2>5, <3>1
      <4> QED
        BY Zenon, <2>1, <2>3, <3>1, <4>1, ConstantsAssumption DEF OnQueue, WakePC, CancelPC
    <3>2. CASE b # t
      <4>1. ASSUME NEW x \in Threads, victim[b] = x
            PROVE  /\ \A p \in Queues : x \in Range(bq'[p]) <=> x \in Range(bq[p])
                   /\ state'[x] \in {state[x], "Cancelled"}
        BY Zenon, <2>3, <2>4, <2>5, <4>1
      <4> QED
        BY Zenon, <2>2, <2>5, <3>2, <4>1, ClaimStands
    <3> QED
      BY <3>1, <3>2
  <2>8. FireInv'
    BY <2>2, <2>3, <2>4 DEF IInv, Core, TypeOK, FireInv, StillQueued, OnQueue
  <2>9. TimedOutInv'
    BY <2>2, <2>5 DEF IInv, Core, TimedOutInv, Actors
  <2>10. OneWaker'
    <3>1. \A x \in Threads : x # w => (Claimed(x)' <=> Claimed(x))
      BY <2>2, <2>3, <2>5, ConstantsAssumption DEF Claimed
    <3>2. Claimed(w)'
      BY <2>5 DEF Claimed
    <3>3. \A b, c \in Actors : victim'[b] = w /\ victim'[c] = w => b = c
      BY <2>3, <2>5
    <3>4. \A x \in Threads : x # w => \A b \in Actors : victim'[b] = x => victim[b] = x
      BY <2>5
    <3>5. OneWaker
      BY DEF IInv, Core
    <3> QED
      BY <2>2, <2>3, <2>5, <2>6, <3>1, <3>2, <3>3, <3>4, <3>5 DEF OneWaker
  <2>11. NoStaleLinks'
    <3>1. \A p \in Queues : Range(bq[p]) \subseteq Threads
      BY QueuedAreThreads DEF IInv
    <3>2. \A b \in Actors : pc'[b] \in {"resume", "xResume"} => ~Linked(victim[b])'
      <4>1. \A b \in Actors : b # t /\ pc[b] \in {"resume", "xResume"} => ~Linked(victim[b])'
        BY <2>2, <2>4, <2>5 DEF IInv, Core, NoStaleLinks, Linked, OnQueue
      <4>2. pc'[t] = "resume" => ~Linked(victim[t])'
        <5>1. w \in Threads /\ \A p \in Queues : w \notin Range(bq'[p])
          BY <2>4
        <5> QED
          BY <2>2, <2>5, <5>1 DEF Linked, OnQueue
      <4> QED
        BY <2>5, <4>1, <4>2
    <3> QED
      BY <2>2, <2>4, <2>6, <3>1, <3>2 DEF IInv, Core, TypeOK, NoStaleLinks
  <2>12. BlockedIsLinked'
    BY <2>2, <2>4, <2>5, <2>6 DEF IInv, Core, TypeOK, BlockedIsLinked, OnQueue
  <2>13. NoEarlyTimeout'
    BY <2>2, <2>5 DEF IInv, Core, NoEarlyTimeout
  <2> QED
    BY Zenon, <2>4, <2>5, <2>7, <2>8, <2>9, <2>10, <2>11, <2>12, <2>13 DEF Core
<1> QED
  BY <1>1, <1>2

\* Thread::cancel: the exchange of the state word, and the claim it may win.
LEMMA CancelStep ==
  ASSUME IInv, NEW c \in Threads, NEW w \in Threads, Cancel(c, w)
  PROVE  Core'
<1>1. /\ \A a \in Actors : victim[a] # c
      /\ c \notin fire /\ c \notin tq
      /\ \A q \in Queues : c \notin Range(bq[q])
      /\ state[c] # "Blocked" /\ ~timedOut[c]
      /\ victim[c] = None /\ pc[c] = "held" /\ w # c
  BY Zenon, RunningIsFree DEF Cancel, IInv, Core, ClaimInv, TypeOK, WakePC, CancelPC, Actors
<1>2. /\ state'[w] = "Cancelled" /\ \A x \in Threads : x # w => state'[x] = state[x]
      /\ \A b \in Actors : b # c => pc'[b] = pc[b] /\ victim'[b] = victim[b]
      /\ UNCHANGED <<bq, tq, deadline, now, where, timed, timedOut, fire>>
      /\ c \in Actors /\ pc'[c] \in {"held"} \cup CancelPC
  BY <1>1 DEF Cancel, Goto, info, timer, IInv, TypeOK, Actors, AfterTimeout, CancelPC
<1>3. \A x \in Threads : (pc[x] = "suspended")' <=> pc[x] = "suspended"
  BY Zenon, <1>1, <1>2 DEF Actors, CancelPC
<1>4. FireInv'
  BY Zenon, <1>2 DEF IInv, Core, FireInv, StillQueued, OnQueue
<1>5. TimedOutInv'
  BY Zenon, <1>1, <1>2 DEF IInv, Core, TimedOutInv, Actors
<1>6. BlockedIsLinked'
  BY Zenon, <1>2, <1>3 DEF IInv, Core, BlockedIsLinked, OnQueue
<1>7. NoEarlyTimeout'
  BY Zenon, <1>2 DEF IInv, Core, NoEarlyTimeout
<1>8. CASE state[w] # "Blocked"
  <2>1. UNCHANGED <<victim, pc>>
    BY <1>8 DEF Cancel
  <2>2. ClaimInv'
    <3> SUFFICES ASSUME NEW b \in Actors PROVE ClaimInv!(b)'
      BY Zenon DEF ClaimInv
    <3>1. \A x \in Threads : state'[x] \in {state[x], "Cancelled"}
      BY Zenon, <1>2
    <3> QED
      BY Zenon, <1>2, <2>1, <3>1, ClaimStands
  <2>3. OneWaker'
    <3>1. OneWaker
      BY DEF IInv, Core
    <3> QED
      BY <1>2, <1>8, <2>1, <3>1 DEF OneWaker, Claimed
  <2>4. NoStaleLinks'
    <3>1. NoStaleLinks
      BY DEF IInv, Core
    <3> QED
      BY <1>2, <2>1, <3>1 DEF NoStaleLinks, Linked, OnQueue
  <2> QED
    BY <1>4, <1>5, <1>6, <1>7, <2>2, <2>3, <2>4 DEF Core
<1>9. CASE state[w] = "Blocked"
  <2>1. /\ victim'[c] = w
        /\ pc'[c] = IF timed[w] THEN "xCancelTimeout" ELSE AfterTimeout(w)
    BY <1>2, <1>9 DEF Cancel, Goto, IInv, TypeOK, Actors
  <2>2. /\ pc[w] = "suspended" /\ w \notin fire /\ \A b \in Actors : victim[b] # w
        /\ (~timed[w] => w \notin tq) /\ StillQueued(w)
    BY Zenon, <1>9 DEF IInv, Core, OneWaker, Claimed, NoStaleLinks, BlockedIsLinked, StillQueued
  <2>3. ClaimInv'
    <3> SUFFICES ASSUME NEW b \in Actors PROVE ClaimInv!(b)'
      BY Zenon DEF ClaimInv
    <3>1. CASE b = c
      BY <1>2, <2>1, <2>2, <3>1, ConstantsAssumption
      DEF StillQueued, OnQueue, AfterTimeout, WakePC, CancelPC
    <3>2. CASE b # c
      <4>1. \A x \in Threads : state'[x] \in {state[x], "Cancelled"}
        BY <1>2
      <4> QED
        BY Zenon, <1>2, <3>2, <4>1, ClaimStands
    <3> QED
      BY <3>1, <3>2
  <2>4. OneWaker'
    <3>1. \A x \in Threads : x # w => (Claimed(x)' <=> Claimed(x))
      <4> SUFFICES ASSUME NEW x \in Threads, x # w PROVE Claimed(x)' <=> Claimed(x)
        OBVIOUS
      <4>1. victim[c] # x /\ victim'[c] # x
        BY <1>1, <2>1, ConstantsAssumption
      <4>2. \A b \in Actors : victim'[b] = x <=> victim[b] = x
        BY Zenon, <1>2, <4>1
      <4> QED
        BY <1>2, <4>2 DEF Claimed
    <3>2. Claimed(w)'
      BY <1>2, <2>1 DEF Claimed
    <3>3. \A a, b \in Actors : victim'[a] = w /\ victim'[b] = w => a = b
      BY <1>2, <2>1, <2>2
    <3>4. \A x \in Threads : x # w => \A b \in Actors : victim'[b] = x => victim[b] = x
      BY <1>2, <2>1
    <3>5. OneWaker
      BY DEF IInv, Core
    <3> QED
      BY <1>2, <1>3, <2>2, <3>1, <3>2, <3>3, <3>4, <3>5 DEF OneWaker
  <2>5. NoStaleLinks'
    <3>1. \A q \in Queues : Range(bq[q]) \subseteq Threads
      BY QueuedAreThreads DEF IInv
    <3>2. pc'[c] = "xResume" => ~Linked(w)'
      <4>1. pc'[c] = "xResume" => ~timed[w] /\ where[w] = None
        BY <2>1 DEF AfterTimeout
      <4>2. \A q \in Queues : w \in Range(bq[q]) => where[w] = q
        BY DEF IInv, Core, NoStaleLinks
      <4> QED
        BY <1>2, <2>2, <4>1, <4>2, ConstantsAssumption DEF Linked, OnQueue
    <3>3. \A b \in Actors : b # c /\ pc[b] \in {"resume", "xResume"} => ~Linked(victim[b])'
      BY Zenon, <1>2 DEF IInv, Core, NoStaleLinks, Linked, OnQueue
    <3>4. \A b \in Actors : pc'[b] \in {"resume", "xResume"} => ~Linked(victim[b])'
      BY <1>2, <2>1, <3>2, <3>3 DEF Linked, OnQueue, CancelPC
    <3> QED
      BY <1>2, <1>3, <3>1, <3>4 DEF IInv, Core, TypeOK, NoStaleLinks
  <2> QED
    BY <1>4, <1>5, <1>6, <1>7, <2>3, <2>4, <2>5 DEF Core
<1> QED
  BY <1>8, <1>9

\* The end of suspend(): the thread runs again, or finishes if cancelled.
LEMMA DispatchStep ==
  ASSUME IInv, NEW t \in Threads, Dispatch(t)
  PROVE  Core'
<1>1. /\ \A a \in Actors : victim[a] # t
      /\ t \notin fire /\ t \notin tq
      /\ \A q \in Queues : t \notin Range(bq[q])
      /\ state[t] # "Blocked"
  BY RunningIsFree DEF Dispatch
<1>2. /\ pc[t] = "ready" /\ pc'[t] \in {"run", "dead"}
      /\ \A a \in Actors : a # t => pc'[a] = pc[a]
      /\ state'[t] # "Blocked" /\ timedOut'[t] = FALSE
      /\ \A w \in Threads : w # t => /\ state'[w] = state[w]
                                     /\ where'[w] = where[w]
                                     /\ timed'[w] = timed[w]
                                     /\ deadline'[w] = deadline[w]
                                     /\ timedOut'[w] = timedOut[w]
      /\ UNCHANGED <<bq, tq, now, victim, fire>>
  BY <1>1 DEF Dispatch, Goto, timer, IInv, TypeOK, Actors
<1>3. ClaimInv'
  <2> SUFFICES ASSUME NEW b \in Actors PROVE ClaimInv!(b)'
    BY Zenon DEF ClaimInv
  <2>1. CASE b = t
    BY Zenon, <1>2, <2>1, ConstantsAssumption DEF IInv, Core, ClaimInv, WakePC, CancelPC, Actors
  <2>2. CASE b # t
    <3>1. ASSUME NEW x \in Threads, victim[b] = x
          PROVE  /\ where'[x] = where[x] /\ timed'[x] = timed[x] /\ deadline'[x] = deadline[x]
                 /\ state'[x] \in {state[x], "Cancelled"}
      BY Zenon, <1>1, <1>2, <3>1
    <3> QED
      BY Zenon, <1>2, <2>2, <3>1, ClaimStands
  <2> QED
    BY <2>1, <2>2
<1>4. FireInv'
  BY Zenon, <1>1, <1>2 DEF IInv, Core, TypeOK, FireInv, StillQueued, OnQueue
<1>5. TimedOutInv'
  BY Zenon, <1>2 DEF IInv, Core, TimedOutInv, Actors
<1>6. OneWaker'
  <2>1. \A w \in Threads : (pc[w] = "suspended" /\ state[w] # "Blocked")'
                       <=> (pc[w] = "suspended" /\ state[w] # "Blocked")
    BY Zenon, <1>2 DEF Actors
  <2>2. OneWaker /\ victim' = victim /\ fire' = fire
    BY Zenon, <1>2 DEF IInv, Core
  <2>3. \A w \in Threads : Claimed(w)' <=> Claimed(w)
    BY Zenon, <2>2 DEF Claimed
  <2> SUFFICES ASSUME NEW w \in Threads PROVE OneWaker!(w)'
    BY Zenon DEF OneWaker
  <2>4. OneWaker!(w)
    BY Zenon, <2>2 DEF OneWaker
  <2> QED
    BY Zenon, <2>1, <2>2, <2>3, <2>4
<1>7. NoStaleLinks'
  <2>1. \A q \in Queues : Range(bq[q]) \subseteq Threads
    BY QueuedAreThreads DEF IInv
  <2>2. \A b \in Actors : pc'[b] \in {"resume", "xResume"} => ~Linked(victim[b])'
    BY Zenon, <1>2 DEF IInv, Core, NoStaleLinks, Linked, OnQueue
  <2>3. \A q \in Queues : \A w \in Range(bq'[q]) : pc'[w] = "suspended" /\ where'[w] = q
    <3> SUFFICES ASSUME NEW q \in Queues, NEW w \in Range(bq[q])
                 PROVE  pc'[w] = "suspended" /\ where'[w] = q
      BY <1>2
    <3>1. w \in Threads /\ w # t /\ pc[w] = "suspended" /\ where[w] = q
      BY <1>1, <2>1 DEF IInv, Core, NoStaleLinks
    <3> QED
      BY <1>2, <3>1 DEF Actors
  <2>4. \A w \in tq' : pc'[w] = "suspended" /\ timed'[w]
    <3>1. \A w \in tq : w \in Threads /\ w # t /\ pc[w] = "suspended" /\ timed[w]
      BY <1>1 DEF IInv, Core, TypeOK, NoStaleLinks
    <3> QED
      BY <1>2, <3>1 DEF Actors
  <2> QED
    BY Zenon, <1>2, <2>2, <2>3, <2>4 DEF IInv, Core, NoStaleLinks
<1>8. BlockedIsLinked'
  BY Zenon, <1>2 DEF IInv, Core, BlockedIsLinked, OnQueue, Actors
<1>9. NoEarlyTimeout'
  BY Zenon, <1>2 DEF IInv, Core, NoEarlyTimeout
<1> QED
  BY <1>3, <1>4, <1>5, <1>6, <1>7, <1>8, <1>9 DEF Core

-----------------------------------------------------------------------------
(* The steps of the timer. *)

\* checkExpiry visits an entry: it wins the thread or passes it by.
LEMMA ExpiryVisitStep ==
  ASSUME IInv, NEW w \in Threads, ExpiryVisit(w)
  PROVE  Core'
<1>1. CASE state[w] # "Blocked"
  BY <1>1, CoreFrame DEF ExpiryVisit, info, IInv
<1>2. CASE state[w] = "Blocked"
  <2>1. /\ state'[w] = "Running" /\ \A x \in Threads : x # w => state'[x] = state[x]
        /\ tq' = tq \ {w} /\ fire' = fire \cup {w}
        /\ UNCHANGED <<pc, bq, deadline, now, where, timed, timedOut, victim>>
    BY <1>2 DEF ExpiryVisit, info, IInv, TypeOK
  <2>2. /\ pc[w] = "suspended" /\ w \notin fire /\ \A b \in Actors : victim[b] # w
        /\ w \in tq /\ timed[w] /\ deadline[w] <= now /\ StillQueued(w)
    BY Zenon, <1>2 DEF ExpiryVisit, IInv, Core, TimerInv, OneWaker, Claimed, NoStaleLinks,
       BlockedIsLinked, StillQueued
  <2>3. ClaimInv'
    BY <2>1, <2>2 DEF IInv, Core, ClaimInv, StillQueued, OnQueue, WakePC, CancelPC
  <2>4. FireInv'
    BY Zenon, <2>1, <2>2 DEF IInv, Core, FireInv, StillQueued, OnQueue
  <2>5. OneWaker'
    <3>1. \A x \in Threads : x # w => (Claimed(x)' <=> Claimed(x))
      BY <2>1 DEF Claimed
    <3>2. Claimed(w)' /\ state'[w] # "Blocked" /\ OneWaker
      BY <2>1 DEF IInv, Core, Claimed
    <3> SUFFICES ASSUME NEW x \in Threads PROVE OneWaker!(x)'
      BY Zenon DEF OneWaker
    <3>3. CASE x = w
      BY Zenon, <2>1, <2>2, <3>2, <3>3
    <3>4. CASE x # w
      BY Zenon, <2>1, <3>1, <3>2, <3>4 DEF OneWaker
    <3> QED
      BY Zenon, <3>3, <3>4
  <2>6. NoStaleLinks'
    BY <2>1 DEF IInv, Core, NoStaleLinks, Linked, OnQueue
  <2>7. TimedOutInv' /\ BlockedIsLinked' /\ NoEarlyTimeout'
    BY <2>1, <2>2 DEF IInv, Core, TimedOutInv, BlockedIsLinked, NoEarlyTimeout, OnQueue
  <2> QED
    BY <2>3, <2>4, <2>5, <2>6, <2>7 DEF Core
<1> QED
  BY <1>1, <1>2

\* checkExpiry takes the next thread of its fireList.
LEMMA ExpiryFireStep ==
  ASSUME IInv, NEW w \in Threads, ExpiryFire(w)
  PROVE  Core'
<1>1. /\ w \in fire /\ fire' = fire \ {w}
      /\ pc[Timer] = "fire" /\ pc'[Timer] = AfterTimeout(w) /\ victim'[Timer] = w
      /\ victim[Timer] = None
      /\ \A b \in Actors : b # Timer => pc'[b] = pc[b] /\ victim'[b] = victim[b]
      /\ UNCHANGED <<state, bq, tq, deadline, now, where, timed, timedOut>>
  BY Zenon DEF ExpiryFire, Goto, info, IInv, Core, TypeOK, ClaimInv, Actors, WakePC, CancelPC
<1>2. /\ pc[w] = "suspended" /\ state[w] # "Blocked" /\ w # Timer
      /\ \A b \in Actors : victim[b] # w
      /\ w \notin tq /\ timed[w] /\ deadline[w] <= now /\ StillQueued(w)
  BY Zenon, <1>1 DEF IInv, Core, OneWaker, Claimed, FireInv
<1>3. \A x \in Threads : pc'[x] = pc[x]
  BY Zenon, <1>1, ConstantsAssumption DEF Actors
<1>4. ClaimInv'
  <2> SUFFICES ASSUME NEW b \in Actors PROVE ClaimInv!(b)'
    BY DEF ClaimInv
  <2>1. CASE b = Timer
    BY Zenon, <1>1, <1>2, <2>1, ConstantsAssumption DEF StillQueued, OnQueue, AfterTimeout, WakePC, CancelPC
  <2>2. CASE b # Timer
    <3>1. ClaimInv!(b)
      BY Zenon DEF IInv, Core, ClaimInv
    <3> QED
      BY Zenon, <1>1, <2>2, <3>1 DEF StillQueued, OnQueue
  <2> QED
    BY Zenon, <2>1, <2>2
<1>5. FireInv'
  BY Zenon, <1>1 DEF IInv, Core, FireInv, StillQueued, OnQueue
<1>6. OneWaker'
  <2>1. \A x \in Threads : x # w => (Claimed(x)' <=> Claimed(x))
    BY Zenon, <1>1, ConstantsAssumption DEF Claimed, Actors
  <2>2. Claimed(w)' /\ w \notin fire' /\ w \in Threads
    BY Zenon, <1>1 DEF Claimed, Actors
  <2>3. \A a, b \in Actors : victim'[a] = w /\ victim'[b] = w => a = b
    BY Zenon, <1>1, <1>2
  <2>4. \A x \in Threads : x # w => \A b \in Actors : victim'[b] = x => victim[b] = x
    BY Zenon, <1>1
  <2>5. OneWaker
    BY Zenon DEF IInv, Core
  <2> SUFFICES ASSUME NEW x \in Threads PROVE OneWaker!(x)'
    BY Zenon DEF OneWaker
  <2>6. CASE x = w
    BY Zenon, <1>1, <1>2, <1>3, <2>2, <2>3, <2>6
  <2>7. CASE x # w
    BY ZenonT(60), <1>1, <1>3, <2>1, <2>4, <2>5, <2>7 DEF OneWaker
  <2> QED
    BY Zenon, <2>6, <2>7
<1>7. NoStaleLinks'
  <2>1. \A q \in Queues : Range(bq[q]) \subseteq Threads
    BY QueuedAreThreads DEF IInv
  <2>2. pc'[Timer] = "xResume" => ~Linked(w)'
    <3>1. pc'[Timer] = "xResume" => where[w] = None
      BY <1>1 DEF AfterTimeout
    <3>2. \A q \in Queues : w \in Range(bq[q]) => where[w] = q
      BY Zenon DEF IInv, Core, NoStaleLinks
    <3>3. None \notin Queues
      BY Zenon, ConstantsAssumption
    <3> QED
      BY Zenon, <1>1, <1>2, <3>1, <3>2, <3>3 DEF Linked, OnQueue
  <2>3. \A b \in Actors : b # Timer /\ pc[b] \in {"resume", "xResume"} => ~Linked(victim[b])'
    BY Zenon, <1>1 DEF IInv, Core, NoStaleLinks, Linked, OnQueue
  <2>4. pc'[Timer] # "resume" /\ victim'[Timer] = w
    BY <1>1 DEF AfterTimeout
  <2>5. \A b \in Actors : pc'[b] \in {"resume", "xResume"} => ~Linked(victim[b])'
    BY Zenon, <1>1, <2>2, <2>3, <2>4 DEF Linked, OnQueue
  <2> QED
    BY Zenon, <1>1, <1>3, <2>1, <2>5 DEF IInv, Core, TypeOK, NoStaleLinks
<1>8. TimedOutInv' /\ BlockedIsLinked' /\ NoEarlyTimeout'
  BY Zenon, <1>1, <1>3 DEF IInv, Core, TimedOutInv, BlockedIsLinked, NoEarlyTimeout, OnQueue
<1> QED
  BY <1>4, <1>5, <1>6, <1>7, <1>8 DEF Core

\* The remaining timer steps move the timer between points where it holds no
\* claim, and the clock only advances.
LEMMA TimerLocalStep ==
  ASSUME IInv, Tick \/ ExpiryStart \/ ExpiryUnlock \/ ExpiryDone
  PROVE  Core'
<1>1. /\ \A t \in Threads : pc'[t] = pc[t]
      /\ pc'[Timer] = pc[Timer] \/ {pc[Timer], pc'[Timer]} \subseteq {"run", "scan", "fire"}
      /\ now' \in Nat /\ now \in Nat /\ now <= now' 
      /\ UNCHANGED <<state, bq, tq, deadline, where, timed, timedOut, victim, fire>>
  BY ConstantsAssumption
  DEF Tick, ExpiryStart, ExpiryUnlock, ExpiryDone, Goto, info, timer, IInv, TypeOK, Actors
<1>2. deadline \in [Threads -> Nat] /\ fire \subseteq Threads
  BY DEF IInv, TypeOK
<1>3. \A w \in Threads : deadline[w] <= now => deadline[w] <= now'
  BY <1>1, <1>2
<1>4. ClaimInv'
  <2> SUFFICES ASSUME NEW b \in Actors PROVE ClaimInv!(b)'
    BY Zenon DEF ClaimInv
  <2>0. ClaimInv!(b) /\ victim[b] \in Threads \cup {None}
    BY Zenon DEF IInv, Core, TypeOK, ClaimInv
  <2>1. CASE b = Timer
    BY <1>1, <1>3, <2>0, <2>1 DEF StillQueued, OnQueue, WakePC, CancelPC
  <2>2. CASE b # Timer
    BY Zenon, <1>1, <2>0, <2>2 DEF StillQueued, OnQueue, Actors
  <2> QED
    BY Zenon, <2>1, <2>2
<1>5. FireInv' /\ NoEarlyTimeout'
  BY Zenon, <1>1, <1>2, <1>3 DEF IInv, Core, FireInv, NoEarlyTimeout, StillQueued, OnQueue
<1>6. OneWaker'
  <2>1. OneWaker
    BY Zenon DEF IInv, Core
  <2>2. \A x \in Threads : Claimed(x)' <=> Claimed(x)
    BY Zenon, <1>1 DEF Claimed
  <2> QED
    BY Zenon, <1>1, <2>1, <2>2 DEF OneWaker
<1>7. NoStaleLinks'
  <2>1. \A q \in Queues : Range(bq[q]) \subseteq Threads
    BY QueuedAreThreads DEF IInv
  <2> QED
    BY Zenon, <1>1, <2>1 DEF IInv, Core, TypeOK, NoStaleLinks, Linked, OnQueue, Actors
<1>8. TimedOutInv' /\ BlockedIsLinked'
  BY Zenon, <1>1 DEF IInv, Core, TimedOutInv, BlockedIsLinked, OnQueue
<1> QED
  BY <1>4, <1>5, <1>6, <1>7, <1>8 DEF Core

-----------------------------------------------------------------------------
\* IInv is inductive: one step per action of BSNext.
LEMMA InductiveStep ==
  ASSUME IInv, [BSNext]_bsvars
  PROVE  IInv'
<1>1. ASSUME NEW t \in Threads, AcquireTimeoutLock(t)
      PROVE  IInv'
  <2>1. TypeOK'
    BY <1>1, ConstantsAssumption DEF AcquireTimeoutLock, IInv, TypeOK, Goto, info, walk, timer, Actors, ThreadPC, TimerPC, ThreadState
  <2>2. TimerInv'
    BY <1>1, ConstantsAssumption DEF AcquireTimeoutLock, IInv, TypeOK, TimerInv, Goto, info, walk, timer, Actors, ThreadPC, TimerPC, ThreadState
  <2>3. Core'
    <3>1. /\ pc[t] \notin {"suspended", "ready", "dead"} /\ pc[t] \notin WakePC
          /\ pc' = [pc EXCEPT ![t] = "held2"]
          /\ state'[t] \in {state[t], "Finishing"}
          /\ \A w \in Threads : w # t => state'[w] = state[w] /\ deadline'[w] = deadline[w]
          /\ UNCHANGED <<bq, tq, now, where, timed, timedOut, victim, fire>>
      BY <1>1 DEF AcquireTimeoutLock, Goto, info, timer, IInv, TypeOK, WakePC, CancelPC
    <3> QED
      BY Zenon, <3>1, LocalStep
  <2> QED
    BY <2>1, <2>2, <2>3 DEF IInv
<1>2. ASSUME NEW t \in Threads, TimedBlock(t)
      PROVE  IInv'
  <2>1. CASE MayBlock(t)
    <3>1. Suspend(t, cur[t], TRUE, deadline[t]) /\ UNCHANGED <<now, victim, fire>>
      BY Zenon, <1>2, <2>1 DEF TimedBlock, timer
    <3>2. cur[t] \in Queues \cup {None} /\ cur[t] # None /\ deadline[t] \in Nat /\ pc[t] \in {"held", "held2"}
      BY <1>2, ConstantsAssumption DEF TimedBlock, IInv, TypeOK
    <3>3. Core' /\ bq' \in [Queues -> Seq(Threads)]
      BY Zenon, <3>1, <3>2, SuspendStep
    <3>4. TypeOK'
      BY Zenon, <1>2, <3>1, <3>2, <3>3 DEF TimedBlock, Suspend, Drop, IInv, TypeOK, Goto, info, walk, timer, Actors, ThreadPC, TimerPC, ThreadState
    <3>5. TimerInv'
      <4>1. t \notin scan /\ t \notin tq
        BY <3>2, RunningIsFree
      <4> QED
        BY <1>2, <3>1, <3>2, <4>1, ConstantsAssumption
        DEF TimedBlock, Suspend, IInv, TypeOK, TimerInv, Goto, timer, Actors
    <3> QED
      BY <3>3, <3>4, <3>5 DEF IInv
  <2>2. CASE ~MayBlock(t)
    <3>1. /\ pc[t] \notin {"suspended", "ready", "dead"} /\ pc[t] \notin WakePC
          /\ pc' = [pc EXCEPT ![t] = "run"]
          /\ state'[t] \in {state[t], "Finishing"}
          /\ \A w \in Threads : w # t => state'[w] = state[w] /\ deadline'[w] = deadline[w]
          /\ UNCHANGED <<bq, tq, now, where, timed, timedOut, victim, fire>>
      BY Zenon, <1>2, <2>2 DEF TimedBlock, Goto, info, timer, IInv, TypeOK, WakePC, CancelPC
    <3>2. Core'
      BY Zenon, <3>1, LocalStep
    <3>3. TypeOK'
      <4>1. /\ deadline' = [deadline EXCEPT ![t] = 0]
            /\ lock' = [lock EXCEPT ![LockOf[cur[t]]] = None] /\ tlock' = None
            /\ cur' = [cur EXCEPT ![t] = None]
            /\ UNCHANGED <<state, idx, scan>>
        BY Zenon, <1>2, <2>2 DEF TimedBlock, Drop, timer
      <4> QED
        BY Zenon, <3>1, <4>1, ConstantsAssumption DEF IInv, TypeOK, Actors, ThreadPC, TimerPC
    <3>4. TimerInv'
      <4>1. t \notin scan
        BY Zenon, <3>1, RunningIsFree
      <4> QED
        BY <1>2, <2>2, <3>1, <4>1, ConstantsAssumption DEF TimedBlock, IInv, TypeOK, TimerInv, Goto, info, walk, timer, Actors, ThreadPC, TimerPC, ThreadState
    <3> QED
      BY <3>2, <3>3, <3>4 DEF IInv
  <2> QED
    BY <2>1, <2>2
<1>3. ASSUME NEW t \in Threads, TryUnblock(t)
      PROVE  IInv'
  <2>1. TypeOK'
    <3>1. bq' \in [Queues -> Seq(Threads)] /\ victim' \in [Actors -> Threads \cup {None}]
      BY <1>3, TryUnblockStep
    <3> DEFINE v == bq[cur[t]][idx[t]]
    <3>2. CASE state[v] = "Blocked"
      <4>1. /\ state' = [state EXCEPT ![v] = "Running"]
            /\ lock' = [lock EXCEPT ![LockOf[cur[t]]] = None]
            /\ cur' = [cur EXCEPT ![t] = None] /\ idx' = [idx EXCEPT ![t] = 0]
            /\ pc' = [pc EXCEPT ![t] = IF timed[v] THEN "cancelTimeout" ELSE "resume"]
            /\ UNCHANGED <<tlock, tq, deadline, where, timed, timedOut, now, scan, fire>>
        BY Zenon, <1>3, <3>2 DEF TryUnblock, Drop, Goto, info, timer
      <4> HIDE DEF v
      <4> QED
        BY Zenon, <3>1, <4>1, ConstantsAssumption DEF IInv, TypeOK, Actors, ThreadPC, TimerPC, ThreadState
    <3>3. CASE state[v] # "Blocked"
      <4>1. /\ idx' = [idx EXCEPT ![t] = idx[t] + 1]
            /\ UNCHANGED <<state, lock, cur, pc, tlock, tq, deadline, where, timed, timedOut, now, scan, fire>>
        BY <1>3, <3>3 DEF TryUnblock, info, timer
      <4> HIDE DEF v
      <4> QED
        BY <3>1, <4>1 DEF IInv, TypeOK
    <3> QED
      BY <3>2, <3>3
  <2>2. TimerInv'
    BY Zenon, <1>3, ConstantsAssumption DEF TryUnblock, Drop, IInv, TypeOK, TimerInv, Goto, info, walk, timer, Actors, ThreadPC, TimerPC, ThreadState
  <2>3. Core'
    BY <1>3, TryUnblockStep
  <2> QED
    BY <2>1, <2>2, <2>3 DEF IInv
<1>4. ASSUME NEW t \in Threads, ResumeMisses(t)
      PROVE  IInv'
  <2>1. TypeOK'
    BY <1>4, ConstantsAssumption DEF ResumeMisses, IInv, TypeOK, Goto, info, walk, timer, Actors, ThreadPC, TimerPC, ThreadState
  <2>2. TimerInv'
    BY <1>4, ConstantsAssumption DEF ResumeMisses, IInv, TypeOK, TimerInv, Goto, info, walk, timer, Actors, ThreadPC, TimerPC, ThreadState
  <2>3. Core'
    <3>1. /\ pc[t] \notin {"suspended", "ready", "dead"} /\ pc[t] \notin WakePC
          /\ pc' = [pc EXCEPT ![t] = "missed"]
          /\ state'[t] \in {state[t], "Finishing"}
          /\ \A w \in Threads : w # t => state'[w] = state[w] /\ deadline'[w] = deadline[w]
          /\ UNCHANGED <<bq, tq, now, where, timed, timedOut, victim, fire>>
      BY <1>4 DEF ResumeMisses, Goto, info, timer, IInv, TypeOK, WakePC, CancelPC
    <3> QED
      BY Zenon, <3>1, LocalStep
  <2> QED
    BY <2>1, <2>2, <2>3 DEF IInv
<1>5. ASSUME NEW t \in Threads, CancelTimeout(t, "cancelTimeout", "resume")
      PROVE  IInv'
  <2>1. TypeOK'
    BY <1>5, ConstantsAssumption DEF CancelTimeout, IInv, TypeOK, Goto, info, walk, timer, Actors, ThreadPC, TimerPC, ThreadState
  <2>2. TimerInv'
    BY <1>5, ConstantsAssumption DEF CancelTimeout, IInv, TypeOK, TimerInv, Goto, info, walk, timer, Actors, ThreadPC, TimerPC, ThreadState
  <2>3. Core'
    BY <1>5, CancelTimeoutStep
  <2> QED
    BY <2>1, <2>2, <2>3 DEF IInv
<1>6. ASSUME NEW t \in Threads, CancelTimeout(t, "xCancelTimeout", AfterTimeout(victim[t]))
      PROVE  IInv'
  <2>1. TypeOK'
    BY <1>6, ConstantsAssumption DEF CancelTimeout, AfterTimeout, IInv, TypeOK, Goto, info, walk, timer, Actors, ThreadPC, TimerPC, ThreadState
  <2>2. TimerInv'
    BY <1>6, ConstantsAssumption DEF CancelTimeout, AfterTimeout, IInv, TypeOK, TimerInv, Goto, info, walk, timer, Actors, ThreadPC, TimerPC, ThreadState
  <2>3. Core'
    BY <1>6, CancelTimeoutStep
  <2> QED
    BY <2>1, <2>2, <2>3 DEF IInv
<1>7. ASSUME NEW t \in Threads, Wake(t, "resume", "run")
      PROVE  IInv'
  <2>1. TypeOK'
    <3>1. victim[t] \in Threads /\ victim[t] # t
      BY <1>7, WonThread DEF Wake, WakePC, CancelPC, Actors
    <3> QED
      BY Zenon, <1>7, <3>1, ConstantsAssumption DEF Wake, IInv, TypeOK, Goto, info, walk, timer, Actors, ThreadPC, TimerPC, ThreadState
  <2>2. TimerInv'
    BY <1>7, ConstantsAssumption DEF Wake, IInv, TypeOK, TimerInv, Goto, info, walk, timer, Actors, ThreadPC, TimerPC, ThreadState
  <2>3. Core'
    BY <1>7, WakeStep DEF Actors
  <2> QED
    BY <2>1, <2>2, <2>3 DEF IInv
<1>8. ASSUME NEW t \in Threads, Wake(t, "xResume", "held")
      PROVE  IInv'
  <2>1. TypeOK'
    <3>1. victim[t] \in Threads /\ victim[t] # t
      BY <1>8, WonThread DEF Wake, WakePC, CancelPC, Actors
    <3> QED
      BY Zenon, <1>8, <3>1, ConstantsAssumption DEF Wake, IInv, TypeOK, Goto, info, walk, timer, Actors, ThreadPC, TimerPC, ThreadState
  <2>2. TimerInv'
    BY <1>8, ConstantsAssumption DEF Wake, IInv, TypeOK, TimerInv, Goto, info, walk, timer, Actors, ThreadPC, TimerPC, ThreadState
  <2>3. Core'
    BY <1>8, WakeStep DEF Actors
  <2> QED
    BY <2>1, <2>2, <2>3 DEF IInv
<1>9. ASSUME Wake(Timer, "xResume", "fire")
      PROVE  IInv'
  <2>1. TypeOK'
    <3>1. victim[Timer] \in Threads
      BY <1>9, WonThread DEF Wake, WakePC, CancelPC, Actors
    <3> QED
      BY Zenon, <1>9, <3>1, ConstantsAssumption DEF Wake, IInv, TypeOK, Goto, info, walk, timer, Actors, ThreadPC, TimerPC, ThreadState
  <2>2. TimerInv'
    BY <1>9, ConstantsAssumption DEF Wake, IInv, TypeOK, TimerInv, Goto, info, walk, timer, Actors, ThreadPC, TimerPC, ThreadState
  <2>3. Core'
    BY <1>9, WakeStep DEF Actors
  <2> QED
    BY <2>1, <2>2, <2>3 DEF IInv
<1>10. ASSUME NEW a \in Actors, CancelBlocking(a)
      PROVE  IInv'
  <2>1. TypeOK'
    <3>1. bq' \in [Queues -> Seq(Threads)]
      BY <1>10, CancelBlockingStep
    <3> QED
      BY Zenon, <1>10, <3>1, ConstantsAssumption DEF CancelBlocking, IInv, TypeOK, Goto, info, walk, timer, Actors, ThreadPC, TimerPC, ThreadState
  <2>2. TimerInv'
    BY <1>10, ConstantsAssumption DEF CancelBlocking, IInv, TypeOK, TimerInv, Goto, info, walk, timer, Actors, ThreadPC, TimerPC, ThreadState
  <2>3. Core'
    BY <1>10, CancelBlockingStep
  <2> QED
    BY <2>1, <2>2, <2>3 DEF IInv
<1>11. ASSUME NEW t \in Threads, NEW l \in Locks, Acquire(t, l)
      PROVE  IInv'
  <2>1. TypeOK'
    BY <1>11, ConstantsAssumption DEF Acquire, IInv, TypeOK, Goto, info, walk, timer, Actors, ThreadPC, TimerPC, ThreadState
  <2>2. TimerInv'
    BY <1>11, ConstantsAssumption DEF Acquire, IInv, TypeOK, TimerInv, Goto, info, walk, timer, Actors, ThreadPC, TimerPC, ThreadState
  <2>3. Core'
    <3>1. /\ pc[t] \notin {"suspended", "ready", "dead"} /\ pc[t] \notin WakePC
          /\ pc' = [pc EXCEPT ![t] = "held"]
          /\ state'[t] \in {state[t], "Finishing"}
          /\ \A w \in Threads : w # t => state'[w] = state[w] /\ deadline'[w] = deadline[w]
          /\ UNCHANGED <<bq, tq, now, where, timed, timedOut, victim, fire>>
      BY <1>11 DEF Acquire, Goto, info, timer, IInv, TypeOK, WakePC, CancelPC
    <3> QED
      BY Zenon, <3>1, LocalStep
  <2> QED
    BY <2>1, <2>2, <2>3 DEF IInv
<1>12. ASSUME NEW t \in Threads, NEW l \in Locks, Release(t, l)
      PROVE  IInv'
  <2>1. TypeOK'
    BY <1>12, ConstantsAssumption DEF Release, Drop, IInv, TypeOK, Goto, info, walk, timer, Actors, ThreadPC, TimerPC, ThreadState
  <2>2. TimerInv'
    BY <1>12, ConstantsAssumption DEF Release, Drop, IInv, TypeOK, TimerInv, Goto, info, walk, timer, Actors, ThreadPC, TimerPC, ThreadState
  <2>3. Core'
    <3>1. /\ pc[t] \notin {"suspended", "ready", "dead"} /\ pc[t] \notin WakePC
          /\ pc' = [pc EXCEPT ![t] = "run"]
          /\ state'[t] \in {state[t], "Finishing"}
          /\ \A w \in Threads : w # t => state'[w] = state[w] /\ deadline'[w] = deadline[w]
          /\ UNCHANGED <<bq, tq, now, where, timed, timedOut, victim, fire>>
      BY <1>12 DEF Release, Goto, info, timer, IInv, TypeOK, WakePC, CancelPC
    <3> QED
      BY Zenon, <3>1, LocalStep
  <2> QED
    BY <2>1, <2>2, <2>3 DEF IInv
<1>13. ASSUME NEW t \in Threads, NEW q \in Queues, Block(t, q)
      PROVE  IInv'
  <2>1. CASE MayBlock(t)
    <3>1. Suspend(t, q, FALSE, 0) /\ UNCHANGED <<now, victim, fire>>
      BY Zenon, <1>13, <2>1 DEF Block, timer
    <3>2. q \in Queues \cup {None} /\ q # None /\ 0 \in Nat /\ pc[t] \in {"held", "held2"}
      BY <1>13, ConstantsAssumption DEF Block, IInv, TypeOK
    <3>3. Core' /\ bq' \in [Queues -> Seq(Threads)]
      BY Zenon, <3>1, <3>2, SuspendStep
    <3>4. TypeOK'
      BY Zenon, <1>13, <3>1, <3>2, <3>3 DEF Block, Suspend, Drop, IInv, TypeOK, Goto, info, walk, timer, Actors, ThreadPC, TimerPC, ThreadState
    <3>5. TimerInv'
      <4>1. t \notin scan /\ t \notin tq
        BY <3>2, RunningIsFree
      <4> QED
        BY <1>13, <3>1, <3>2, <4>1, ConstantsAssumption
        DEF Block, Suspend, IInv, TypeOK, TimerInv, Goto, timer, Actors
    <3> QED
      BY <3>3, <3>4, <3>5 DEF IInv
  <2>2. CASE ~MayBlock(t)
    <3>1. /\ pc[t] \notin {"suspended", "ready", "dead"} /\ pc[t] \notin WakePC
          /\ pc' = [pc EXCEPT ![t] = "run"]
          /\ state'[t] \in {state[t], "Finishing"}
          /\ \A w \in Threads : w # t => state'[w] = state[w] /\ deadline'[w] = deadline[w]
          /\ UNCHANGED <<bq, tq, now, where, timed, timedOut, victim, fire>>
      BY Zenon, <1>13, <2>2 DEF Block, Goto, info, timer, IInv, TypeOK, WakePC, CancelPC
    <3>2. Core'
      BY Zenon, <3>1, LocalStep
    <3>3. TypeOK'
      BY Zenon, <1>13, <2>2, <3>1, ConstantsAssumption DEF Block, Drop, IInv, TypeOK, Goto, info, walk, timer, Actors, ThreadPC, TimerPC, ThreadState
    <3>4. TimerInv'
      <4>1. t \notin scan
        BY Zenon, <3>1, RunningIsFree
      <4>2. UNCHANGED <<tlock, scan, deadline>> /\ pc[t] = "held"
        BY Zenon, <1>13, <2>2 DEF Block, info, timer
      <4> QED
        BY Zenon, <3>1, <4>1, <4>2, ConstantsAssumption DEF IInv, TypeOK, TimerInv, Actors
    <3> QED
      BY <3>2, <3>3, <3>4 DEF IInv
  <2> QED
    BY <2>1, <2>2
<1>14. ASSUME NEW t \in Threads, NEW q \in Queues, NEW d \in 1..MaxTime, StartTimedBlock(t, q, d)
      PROVE  IInv'
  <2>1. TypeOK'
    BY <1>14, ConstantsAssumption DEF StartTimedBlock, IInv, TypeOK, Goto, info, walk, timer, Actors, ThreadPC, TimerPC, ThreadState
  <2>2. TimerInv'
    <3>1. t \notin scan
      BY Zenon, <1>14, RunningIsFree DEF StartTimedBlock
    <3> QED
      BY <1>14, <3>1, ConstantsAssumption DEF StartTimedBlock, IInv, TypeOK, TimerInv, Goto, info, walk, timer, Actors, ThreadPC, TimerPC, ThreadState
  <2>3. Core'
    <3>1. /\ pc[t] \notin {"suspended", "ready", "dead"} /\ pc[t] \notin WakePC
          /\ pc' = [pc EXCEPT ![t] = "spinTimeout"]
          /\ state'[t] \in {state[t], "Finishing"}
          /\ \A w \in Threads : w # t => state'[w] = state[w] /\ deadline'[w] = deadline[w]
          /\ UNCHANGED <<bq, tq, now, where, timed, timedOut, victim, fire>>
      BY <1>14 DEF StartTimedBlock, Goto, info, timer, IInv, TypeOK, WakePC, CancelPC
    <3> QED
      BY Zenon, <3>1, LocalStep
  <2> QED
    BY <2>1, <2>2, <2>3 DEF IInv
<1>15. ASSUME NEW t \in Threads, NEW q \in Queues, StartResume(t, q)
      PROVE  IInv'
  <2>1. TypeOK'
    BY <1>15, ConstantsAssumption DEF StartResume, IInv, TypeOK, Goto, info, walk, timer, Actors, ThreadPC, TimerPC, ThreadState
  <2>2. TimerInv'
    BY <1>15, ConstantsAssumption DEF StartResume, IInv, TypeOK, TimerInv, Goto, info, walk, timer, Actors, ThreadPC, TimerPC, ThreadState
  <2>3. Core'
    <3>1. /\ pc[t] \notin {"suspended", "ready", "dead"} /\ pc[t] \notin WakePC
          /\ pc' = [pc EXCEPT ![t] = "walk"]
          /\ state'[t] \in {state[t], "Finishing"}
          /\ \A w \in Threads : w # t => state'[w] = state[w] /\ deadline'[w] = deadline[w]
          /\ UNCHANGED <<bq, tq, now, where, timed, timedOut, victim, fire>>
      BY <1>15 DEF StartResume, Goto, info, timer, IInv, TypeOK, WakePC, CancelPC
    <3> QED
      BY Zenon, <3>1, LocalStep
  <2> QED
    BY <2>1, <2>2, <2>3 DEF IInv
<1>16. ASSUME NEW t \in Threads, NEW w \in Threads, Cancel(t, w)
      PROVE  IInv'
  <2>1. TypeOK'
    <3>1. /\ pc' \in [Actors -> ThreadPC \cup TimerPC] /\ pc'[Timer] = pc[Timer]
          /\ \A x \in Threads : x # t => pc'[x] = pc[x]
          /\ pc'[t] \in {"held", "xCancelTimeout", "xCancelBlocking", "xResume"}
      BY <1>16, ConstantsAssumption DEF Cancel, AfterTimeout, Goto, IInv, TypeOK, Actors, ThreadPC, TimerPC
    <3>2. victim' \in [Actors -> Threads \cup {None}]
      <4>1. victim' = victim \/ victim' = [victim EXCEPT ![t] = w]
        BY Zenon, <1>16 DEF Cancel
      <4> QED
        BY Zenon, <4>1 DEF IInv, TypeOK
    <3>3. state' \in [Threads -> ThreadState]
      BY <1>16 DEF Cancel, IInv, TypeOK, ThreadState
    <3> QED
      BY Zenon, <1>16, <3>1, <3>2, <3>3 DEF Cancel, IInv, TypeOK, info, walk, timer, ThreadPC
  <2>2. TimerInv'
    BY <1>16, ConstantsAssumption DEF Cancel, AfterTimeout, IInv, TypeOK, TimerInv, Goto, info, walk, timer, Actors, ThreadPC, TimerPC, ThreadState
  <2>3. Core'
    BY <1>16, CancelStep
  <2> QED
    BY <2>1, <2>2, <2>3 DEF IInv
<1>17. ASSUME NEW t \in Threads, NEW d \in 1..MaxTime, Sleep(t, d)
      PROVE  IInv'
  <2>1. TypeOK'
    BY <1>17, ConstantsAssumption DEF Sleep, Suspend, MayBlock, IInv, TypeOK, Goto, info, walk, timer, Actors, ThreadPC, TimerPC, ThreadState
  <2>2. TimerInv'
    BY <1>17, ConstantsAssumption DEF Sleep, Suspend, MayBlock, IInv, TypeOK, TimerInv, Goto, info, walk, timer, Actors, ThreadPC, TimerPC, ThreadState
  <2>3. Core'
    <3>1. Suspend(t, None, TRUE, d) /\ UNCHANGED <<now, victim, fire>> /\ pc[t] = "run"
      BY Zenon, <1>17 DEF Sleep, timer
    <3>2. d \in Nat
      BY ConstantsAssumption
    <3> QED
      BY Zenon, <3>1, <3>2, SuspendStep
  <2> QED
    BY <2>1, <2>2, <2>3 DEF IInv
<1>18. ASSUME NEW t \in Threads, Terminate(t)
      PROVE  IInv'
  <2>1. TypeOK'
    BY <1>18, ConstantsAssumption DEF Terminate, IInv, TypeOK, Goto, info, walk, timer, Actors, ThreadPC, TimerPC, ThreadState
  <2>2. TimerInv'
    BY <1>18, ConstantsAssumption DEF Terminate, IInv, TypeOK, TimerInv, Goto, info, walk, timer, Actors, ThreadPC, TimerPC, ThreadState
  <2>3. Core'
    <3>1. /\ pc[t] \notin {"suspended", "ready", "dead"} /\ pc[t] \notin WakePC
          /\ pc' = [pc EXCEPT ![t] = "dead"]
          /\ state'[t] \in {state[t], "Finishing"}
          /\ \A w \in Threads : w # t => state'[w] = state[w] /\ deadline'[w] = deadline[w]
          /\ UNCHANGED <<bq, tq, now, where, timed, timedOut, victim, fire>>
      BY <1>18 DEF Terminate, Goto, info, timer, IInv, TypeOK, WakePC, CancelPC
    <3> QED
      BY Zenon, <3>1, LocalStep
  <2> QED
    BY <2>1, <2>2, <2>3 DEF IInv
<1>19. ASSUME NEW t \in Threads, Dispatch(t)
      PROVE  IInv'
  <2>1. TypeOK'
    <3>1. /\ pc' = [pc EXCEPT ![t] = "run"] \/ pc' = [pc EXCEPT ![t] = "dead"]
          /\ state' = state \/ state' = [state EXCEPT ![t] = "Finishing"]
      BY <1>19 DEF Dispatch, Goto
    <3>2. /\ pc' \in [Actors -> ThreadPC \cup TimerPC] /\ pc'[Timer] = pc[Timer]
          /\ \A x \in Threads : x # t => pc'[x] = pc[x]
          /\ pc'[t] \in {"run", "dead"}
          /\ state' \in [Threads -> ThreadState]
      BY ZenonT(60), <3>1, ConstantsAssumption DEF IInv, TypeOK, Actors, ThreadPC, TimerPC, ThreadState
    <3> QED
      BY Zenon, <1>19, <3>2 DEF Dispatch, IInv, TypeOK, info, walk, timer, ThreadPC
  <2>2. TimerInv'
    BY <1>19, ConstantsAssumption DEF Dispatch, IInv, TypeOK, TimerInv, Goto, info, walk, timer, Actors, ThreadPC, TimerPC, ThreadState
  <2>3. Core'
    BY <1>19, DispatchStep
  <2> QED
    BY <2>1, <2>2, <2>3 DEF IInv
<1>20. ASSUME NEW t \in Threads, FinishCancelled(t)
      PROVE  IInv'
  <2>1. TypeOK'
    BY <1>20, ConstantsAssumption DEF FinishCancelled, Preemptible, IInv, TypeOK, Goto, info, walk, timer, Actors, ThreadPC, TimerPC, ThreadState
  <2>2. TimerInv'
    BY <1>20, ConstantsAssumption DEF FinishCancelled, Preemptible, IInv, TypeOK, TimerInv, Goto, info, walk, timer, Actors, ThreadPC, TimerPC, ThreadState
  <2>3. Core'
    <3>1. /\ pc[t] \notin {"suspended", "ready", "dead"}
          /\ pc' = [pc EXCEPT ![t] = "dead"]
          /\ state'[t] \in {state[t], "Finishing"}
          /\ \A w \in Threads : w # t => state'[w] = state[w] /\ deadline'[w] = deadline[w]
          /\ UNCHANGED <<bq, tq, now, where, timed, timedOut, victim, fire>>
      BY <1>20 DEF FinishCancelled, Preemptible, Goto, info, timer, IInv, TypeOK, WakePC, CancelPC
    <3> QED
      BY Zenon, <3>1, LocalStep
  <2> QED
    BY <2>1, <2>2, <2>3 DEF IInv
<1>21. ASSUME Tick
      PROVE  IInv'
  <2>1. TypeOK'
    BY <1>21, ConstantsAssumption DEF Tick, IInv, TypeOK, Goto, info, walk, timer, Actors, ThreadPC, TimerPC, ThreadState
  <2>2. TimerInv'
    BY <1>21, ConstantsAssumption DEF Tick, IInv, TypeOK, TimerInv, Goto, info, walk, timer, Actors, ThreadPC, TimerPC, ThreadState
  <2>3. Core'
    BY <1>21, TimerLocalStep
  <2> QED
    BY <2>1, <2>2, <2>3 DEF IInv
<1>22. ASSUME ExpiryStart
      PROVE  IInv'
  <2>1. TypeOK'
    BY <1>22, ConstantsAssumption DEF ExpiryStart, IInv, TypeOK, Goto, info, walk, timer, Actors, ThreadPC, TimerPC, ThreadState
  <2>2. TimerInv'
    BY <1>22, ConstantsAssumption DEF ExpiryStart, IInv, TypeOK, TimerInv, Goto, info, walk, timer, Actors, ThreadPC, TimerPC, ThreadState
  <2>3. Core'
    BY <1>22, TimerLocalStep
  <2> QED
    BY <2>1, <2>2, <2>3 DEF IInv
<1>23. ASSUME NEW w \in Threads, ExpiryVisit(w)
      PROVE  IInv'
  <2>1. TypeOK'
    <3>1. state' \in [Threads -> ThreadState] /\ tq' \subseteq Threads /\ fire' \subseteq Threads
      BY Zenon, <1>23 DEF ExpiryVisit, IInv, TypeOK, ThreadState
    <3> QED
      BY <1>23, <3>1 DEF ExpiryVisit, IInv, TypeOK, info, walk, timer
  <2>2. TimerInv'
    BY <1>23, ConstantsAssumption DEF ExpiryVisit, IInv, TypeOK, TimerInv, Goto, info, walk, timer, Actors, ThreadPC, TimerPC, ThreadState
  <2>3. Core'
    BY <1>23, ExpiryVisitStep
  <2> QED
    BY <2>1, <2>2, <2>3 DEF IInv
<1>24. ASSUME ExpiryUnlock
      PROVE  IInv'
  <2>1. TypeOK'
    BY <1>24, ConstantsAssumption DEF ExpiryUnlock, IInv, TypeOK, Goto, info, walk, timer, Actors, ThreadPC, TimerPC, ThreadState
  <2>2. TimerInv'
    BY <1>24, ConstantsAssumption DEF ExpiryUnlock, IInv, TypeOK, TimerInv, Goto, info, walk, timer, Actors, ThreadPC, TimerPC, ThreadState
  <2>3. Core'
    BY <1>24, TimerLocalStep
  <2> QED
    BY <2>1, <2>2, <2>3 DEF IInv
<1>25. ASSUME NEW w \in Threads, ExpiryFire(w)
      PROVE  IInv'
  <2>1. TypeOK'
    BY <1>25, ConstantsAssumption DEF ExpiryFire, AfterTimeout, IInv, TypeOK, Goto, info, walk, timer, Actors, ThreadPC, TimerPC, ThreadState
  <2>2. TimerInv'
    BY <1>25, ConstantsAssumption DEF ExpiryFire, AfterTimeout, IInv, TypeOK, TimerInv, Goto, info, walk, timer, Actors, ThreadPC, TimerPC, ThreadState
  <2>3. Core'
    BY <1>25, ExpiryFireStep
  <2> QED
    BY <2>1, <2>2, <2>3 DEF IInv
<1>26. ASSUME ExpiryDone
      PROVE  IInv'
  <2>1. TypeOK'
    BY <1>26, ConstantsAssumption DEF ExpiryDone, IInv, TypeOK, Goto, info, walk, timer, Actors, ThreadPC, TimerPC, ThreadState
  <2>2. TimerInv'
    BY <1>26, ConstantsAssumption DEF ExpiryDone, IInv, TypeOK, TimerInv, Goto, info, walk, timer, Actors, ThreadPC, TimerPC, ThreadState
  <2>3. Core'
    BY <1>26, TimerLocalStep
  <2> QED
    BY <2>1, <2>2, <2>3 DEF IInv
<1>30. CASE UNCHANGED bsvars
  BY <1>30, CoreFrame DEF bsvars, info, timer, walk, IInv, TypeOK, TimerInv
<1> QED
  BY <1>1, <1>2, <1>3, <1>4, <1>5, <1>6, <1>7, <1>8, <1>9, <1>10, <1>11, <1>12, <1>13, <1>14, <1>15, <1>16, <1>17, <1>18, <1>19, <1>20, <1>21, <1>22, <1>23, <1>24, <1>25, <1>26, <1>30
  DEF BSNext, ThreadStep, ClientStep, CriticalSection, SchedStep, TimerStep, Actors

\* Before any call, all threads run and nothing is linked, locked or claimed.
LEMMA InitialStates == BSInit => IInv
<1> SUFFICES ASSUME BSInit PROVE IInv
  OBVIOUS
<1>1. \A q \in Queues : bq[q] = << >> /\ Range(bq[q]) = {} /\ IsInjective(bq[q])
  BY DEF BSInit, Range, IsInjective
<1>2. TypeOK
  BY ConstantsAssumption DEF BSInit, TypeOK, Actors, ThreadPC, TimerPC, ThreadState
<1>3. TimerInv
  BY ConstantsAssumption DEF BSInit, TimerInv, Actors
<1>4. Core
  BY <1>1, ConstantsAssumption
  DEF BSInit, Core, ClaimInv, FireInv, TimedOutInv, OneWaker, Claimed, NoStaleLinks, Linked,
      BlockedIsLinked, NoEarlyTimeout, OnQueue, Actors, WakePC, CancelPC
<1> QED
  BY <1>2, <1>3, <1>4 DEF IInv

\* The inductive invariant holds in every reachable state, for any number of
\* threads, queues and locks.
THEOREM Invariance == BSSpec => []IInv
<1>1. IInv /\ [BSNext]_bsvars => IInv'
  BY InductiveStep
<1> QED
  BY InitialStates, <1>1, PTL DEF BSSpec

\* Every step of block, resume, cancel and checkExpiry keeps the types.
THEOREM TypeCorrect == BSSpec => []TypeOK
<1>1. IInv => TypeOK
  BY DEF IInv
<1> QED
  BY Invariance, <1>1, PTL

\* Exactly one of resume(), checkExpiry() and cancel() wins a blocked thread.
THEOREM OneWakerHolds == BSSpec => []OneWaker
<1>1. IInv => OneWaker
  BY DEF IInv, Core
<1> QED
  BY Invariance, <1>1, PTL

\* No queue entry outlives the suspension it belongs to.
THEOREM NoStaleLinksHolds == BSSpec => []NoStaleLinks
<1>1. IInv => NoStaleLinks
  BY DEF IInv, Core
<1> QED
  BY Invariance, <1>1, PTL

\* Whoever should wake a Blocked thread can find it.
THEOREM BlockedIsLinkedHolds == BSSpec => []BlockedIsLinked
<1>1. IInv => BlockedIsLinked
  BY DEF IInv, Core
<1> QED
  BY Invariance, <1>1, PTL

\* A wait that is reported as timed out lasted until its deadline.
THEOREM NoEarlyTimeoutHolds == BSSpec => []NoEarlyTimeout
<1>1. IInv => NoEarlyTimeout
  BY DEF IInv, Core
<1> QED
  BY Invariance, <1>1, PTL

-----------------------------------------------------------------------------
(* Lock order. *)

HoldPC == {"held", "missed", "spinTimeout", "held2", "walk"} \cup CancelPC

\* A thread holds at most one bLock, and which one it is follows from where the
\* thread is; Timeout::lock is only held around the insertion of an entry.
LockInv ==
  /\ \A l \in Locks : lock[l] # None => pc[lock[l]] \in HoldPC
  /\ \A l, m \in Locks : lock[l] = lock[m] /\ lock[l] # None => l = m
  /\ \A t \in Threads : pc[t] \in {"spinTimeout", "held2", "walk"} => lock[LockOf[cur[t]]] = t
  /\ \A t \in Threads : pc[t] \in CancelPC => lock[ThreadLock] = t
  /\ tlock \in Threads => pc[tlock] = "held2"

\* The lock order is kept by every step: a thread spins for Timeout::lock with
\* at most its own bLock, and a canceller keeps threadLock.
LEMMA LockInvStep ==
  ASSUME IInv, LockInv, [BSNext]_bsvars
  PROVE  LockInv'
<1> USE ConstantsAssumption DEF LockInv, HoldPC, CancelPC, Goto, Drop, info, walk, timer
<1>1. TypeOK
  BY Zenon DEF IInv
<1> USE DEF TypeOK, Actors
<1>2. ASSUME NEW t \in Threads, AcquireTimeoutLock(t) PROVE LockInv'
  BY <1>1, <1>2 DEF AcquireTimeoutLock
<1>3. ASSUME NEW t \in Threads, TimedBlock(t) PROVE LockInv'
  BY <1>1, <1>3 DEF TimedBlock, Suspend
<1>4. ASSUME NEW t \in Threads, TryUnblock(t) PROVE LockInv'
  <2> DEFINE l == LockOf[cur[t]]
  <2>1. l \in Locks /\ lock[l] = t /\ pc[t] = "walk"
    BY Zenon, <1>1, <1>4 DEF TryUnblock
  <2>2. \/ UNCHANGED <<lock, pc, cur>>
        \/ /\ lock' = [lock EXCEPT ![l] = None]
           /\ cur' = [cur EXCEPT ![t] = None]
           /\ \/ pc' = [pc EXCEPT ![t] = "cancelTimeout"]
              \/ pc' = [pc EXCEPT ![t] = "resume"]
    BY Zenon, <1>4 DEF TryUnblock
  <2>3. UNCHANGED tlock
    BY Zenon, <1>4 DEF TryUnblock
  <2> HIDE DEF l
  <2>4. \A m \in Locks : m # l => lock[m] # t
    BY <1>1, <2>1
  <2>5. CASE UNCHANGED <<lock, pc, cur>>
    BY Zenon, <2>3, <2>5
  <2>6. CASE ~UNCHANGED <<lock, pc, cur>>
    <3>1. /\ lock'[l] = None /\ \A m \in Locks : m # l => lock'[m] = lock[m]
          /\ pc'[t] \in {"cancelTimeout", "resume"}
          /\ \A x \in Threads : x # t => pc'[x] = pc[x] /\ cur'[x] = cur[x]
      BY <1>1, <2>1, <2>2, <2>6
    <3>2. \A x \in Threads, m \in Locks : x # t /\ lock[m] = x => m # l /\ lock'[m] = x
      BY Zenon, <2>1, <3>1
    <3>3. \A x \in Threads : pc'[x] \in {"spinTimeout", "held2", "walk"} => lock'[LockOf[cur'[x]]] = x
      <4> SUFFICES ASSUME NEW x \in Threads, pc'[x] \in {"spinTimeout", "held2", "walk"}
                   PROVE  lock'[LockOf[cur'[x]]] = x
        OBVIOUS
      <4>1. x # t /\ pc[x] = pc'[x] /\ cur'[x] = cur[x] /\ cur[x] \in Queues
        BY Zenon, <1>1, <3>1
      <4>2. LockOf[cur[x]] \in Locks /\ lock[LockOf[cur[x]]] = x
        BY Zenon, <4>1
      <4> QED
        BY <3>2, <4>1, <4>2
    <3>4. \A x \in Threads : pc'[x] \in CancelPC => lock'[ThreadLock] = x
      BY Zenon, <1>1, <3>1, <3>2
    <3>5. \A m \in Locks : lock'[m] # None => pc'[lock'[m]] \in HoldPC
      <4> SUFFICES ASSUME NEW m \in Locks, lock'[m] # None PROVE pc'[lock'[m]] \in HoldPC
        BY Zenon
      <4>1. lock'[m] = lock[m] /\ lock[m] \in Threads /\ lock[m] # t
        BY <1>1, <2>4, <3>1
      <4> QED
        BY Zenon, <3>1, <4>1
    <3>6. \A m, n \in Locks : lock'[m] = lock'[n] /\ lock'[m] # None => m = n
      <4>1. \A m, n \in Locks : lock[m] = lock[n] /\ lock[m] # None => m = n
        BY Zenon
      <4>2. \A m \in Locks : lock'[m] # None => lock'[m] = lock[m]
        BY Zenon, <3>1
      <4> QED
        BY Zenon, <4>1, <4>2
    <3>7. tlock' \in Threads => pc'[tlock'] = "held2"
      BY Zenon, <2>1, <2>3, <3>1
    <3> QED
      BY <3>3, <3>4, <3>5, <3>6, <3>7
  <2> QED
    BY <2>5, <2>6
<1>5. ASSUME NEW t \in Threads, ResumeMisses(t) PROVE LockInv'
  BY <1>1, <1>5 DEF ResumeMisses
<1>6. ASSUME NEW t \in Threads, CancelTimeout(t, "cancelTimeout", "resume") PROVE LockInv'
  BY <1>1, <1>6 DEF CancelTimeout
<1>7. ASSUME NEW t \in Threads, CancelTimeout(t, "xCancelTimeout", AfterTimeout(victim[t])) PROVE LockInv'
  BY <1>1, <1>7 DEF CancelTimeout, AfterTimeout
<1>8. ASSUME NEW a \in Actors, NEW here, NEW next,
             \/ here = "resume" /\ next = "run"
             \/ here = "xResume" /\ next = "held" /\ a # Timer
             \/ here = "xResume" /\ next = "fire" /\ a = Timer,
             Wake(a, here, next)
      PROVE  LockInv'
  <2>1. victim[a] \in Threads /\ victim[a] # a /\ pc[victim[a]] = "suspended"
    BY <1>8, WonThread DEF Wake, WakePC
  <2>2. /\ pc'[a] = next /\ pc'[victim[a]] = "ready"
        /\ \A b \in Actors : b # a /\ b # victim[a] => pc'[b] = pc[b]
        /\ pc[a] = here /\ UNCHANGED <<lock, tlock, cur>>
    BY <1>1, <1>8, <2>1 DEF Wake
  <2>3. \A l \in Locks : lock[l] # victim[a]
    BY Zenon, <1>1, <2>1
  <2>4. a \in Threads => (lock[ThreadLock] = a \/ next = "run")
    BY Zenon, <1>1, <1>8, <2>2
  <2>5. next = "run" => \A l \in Locks : lock[l] # a
    <3>1. next = "run" => pc[a] = "resume"
      BY Zenon, <1>8, <2>2
    <3> QED
      BY Zenon, <1>1, <3>1 DEF HoldPC, CancelPC
  <2>6. \A l \in Locks : lock[l] # None => pc'[lock[l]] \in HoldPC
    <3> SUFFICES ASSUME NEW l \in Locks, lock[l] # None PROVE pc'[lock[l]] \in HoldPC
      BY Zenon
    <3>1. lock[l] \in Threads /\ pc[lock[l]] \in HoldPC
      BY <1>1
    <3>2. CASE lock[l] = a
      BY <1>8, <2>2, <2>5, <3>1, <3>2
    <3>3. CASE lock[l] # a
      BY <2>2, <2>3, <3>1, <3>3
    <3> QED
      BY Zenon, <3>2, <3>3
  <2>7. \A t \in Threads : pc'[t] \in {"spinTimeout", "held2", "walk"} \cup CancelPC => pc'[t] = pc[t]
    BY <1>8, <2>1, <2>2
  <2>8. tlock \in Threads => pc'[tlock] = "held2"
    BY Zenon, <1>1, <1>8, <2>1, <2>2
  <2> QED
    BY Zenon, <1>1, <2>2, <2>6, <2>7, <2>8
<1>9. ASSUME NEW a \in Actors, CancelBlocking(a) PROVE LockInv'
  BY <1>1, <1>9 DEF CancelBlocking
<1>10. ASSUME NEW t \in Threads, NEW l \in Locks, Acquire(t, l) PROVE LockInv'
  <2>1. \A m \in Locks : lock[m] # t
    BY Zenon, <1>1, <1>10 DEF Acquire
  <2>2. /\ lock' = [lock EXCEPT ![l] = t] /\ lock[l] = None /\ pc[t] = "run"
        /\ pc' = [pc EXCEPT ![t] = "held"] /\ UNCHANGED <<tlock, cur>>
    BY Zenon, <1>10 DEF Acquire
  <2> QED
    BY <1>1, <2>1, <2>2
<1>11. ASSUME NEW t \in Threads, NEW l \in Locks, Release(t, l) PROVE LockInv'
  BY <1>1, <1>11 DEF Release
<1>12. ASSUME NEW t \in Threads, NEW q \in Queues, Block(t, q) PROVE LockInv'
  BY <1>1, <1>12 DEF Block, Suspend
<1>13. ASSUME NEW t \in Threads, NEW q \in Queues, NEW d \in 1..MaxTime, StartTimedBlock(t, q, d) PROVE LockInv'
  BY <1>1, <1>13 DEF StartTimedBlock
<1>14. ASSUME NEW t \in Threads, NEW q \in Queues, StartResume(t, q) PROVE LockInv'
  BY <1>1, <1>14 DEF StartResume
<1>15. ASSUME NEW t \in Threads, NEW w \in Threads, Cancel(t, w) PROVE LockInv'
  BY <1>1, <1>15 DEF Cancel, AfterTimeout
<1>16. ASSUME NEW t \in Threads, NEW d \in 1..MaxTime, Sleep(t, d) PROVE LockInv'
  BY <1>1, <1>16 DEF Sleep, Suspend
<1>17. ASSUME NEW t \in Threads, Terminate(t) PROVE LockInv'
  BY <1>1, <1>17 DEF Terminate
<1>18. ASSUME NEW t \in Threads, Dispatch(t) PROVE LockInv'
  <2>1. /\ pc[t] = "ready" /\ UNCHANGED <<lock, tlock, cur>>
        /\ pc' = [pc EXCEPT ![t] = "run"] \/ pc' = [pc EXCEPT ![t] = "dead"]
    BY <1>18 DEF Dispatch
  <2>2. /\ \A x \in Threads : x # t => pc'[x] = pc[x]
        /\ pc'[t] \in {"run", "dead"}
        /\ tlock # t /\ \A l \in Locks : lock[l] # t
    BY Zenon, <1>1, <2>1
  <2>3. \A l \in Locks : lock[l] # None => pc'[lock[l]] \in HoldPC
    BY <1>1, <2>2
  <2> QED
    BY <1>1, <2>1, <2>2, <2>3
<1>19. ASSUME NEW t \in Threads, FinishCancelled(t) PROVE LockInv'
  BY <1>1, <1>19 DEF FinishCancelled, Preemptible
<1>20. ASSUME \A t \in Threads : pc'[t] = pc[t],
              UNCHANGED <<lock, cur>>, tlock' \in {tlock, Timer, None}
       PROVE  LockInv'
  BY <1>1, <1>20
<1>21. ASSUME Tick \/ ExpiryStart \/ ExpiryUnlock \/ ExpiryDone \/ UNCHANGED bsvars PROVE LockInv'
  <2>1. UNCHANGED <<lock, cur>> /\ tlock' \in {tlock, Timer, None} /\ \A t \in Threads : pc'[t] = pc[t]
    BY Zenon, <1>1, <1>21 DEF Tick, ExpiryStart, ExpiryUnlock, ExpiryDone, bsvars
  <2> QED
    BY <1>20, <2>1
<1>22. ASSUME NEW w \in Threads, ExpiryVisit(w) \/ ExpiryFire(w) PROVE LockInv'
  <2>1. UNCHANGED <<lock, cur>> /\ tlock' = tlock /\ \A t \in Threads : pc'[t] = pc[t]
    BY <1>1, <1>22 DEF ExpiryVisit, ExpiryFire
  <2> QED
    BY Zenon, <1>20, <2>1
<1> QED
  BY Zenon, <1>2, <1>3, <1>4, <1>5, <1>6, <1>7, <1>8, <1>9, <1>10, <1>11, <1>12, <1>13, <1>14,
     <1>15, <1>16, <1>17, <1>18, <1>19, <1>21, <1>22
  DEF BSNext, ThreadStep, ClientStep, CriticalSection, SchedStep, TimerStep

\* If no queue is protected by Process::threadLock itself, no set of processors
\* can spin on locks held within the set.
THEOREM NoDeadlyEmbraceHolds ==
  ASSUME \A q \in Queues : LockOf[q] # ThreadLock
  PROVE  BSSpec => []NoDeadlyEmbrace
<1>1. BSInit => LockInv
  BY ConstantsAssumption DEF BSInit, LockInv, Actors, CancelPC
<1>2. IInv /\ LockInv /\ [BSNext]_bsvars => LockInv'
  BY LockInvStep
<1>3. IInv /\ LockInv => NoDeadlyEmbrace
  <2> SUFFICES ASSUME IInv, LockInv,
                      NEW S \in (SUBSET Actors) \ {{}}, \A a \in S : Blocker(a) \in S
               PROVE  FALSE
    BY DEF NoDeadlyEmbrace
  <2>1. None \notin S
    BY ConstantsAssumption DEF Actors
  \* The holder of Timeout::lock waits for nobody.
  <2>2. ASSUME tlock \in S PROVE FALSE
    <3>1. Blocker(tlock) = None
      BY <2>2, ConstantsAssumption DEF IInv, TimerInv, LockInv, Blocker, Actors
    <3> QED
      BY <2>1, <2>2, <3>1
  <2>3. \A a \in S : pc[a] = "xCancelBlocking"
    BY <2>1, <2>2 DEF Blocker
  \* So everyone waits for a bLock, held by a canceller, who holds threadLock only.
  <2>4. PICK a \in S : TRUE
    OBVIOUS
  <2>5. PICK w \in Threads, q \in Queues : w = victim[a] /\ q = where[w]
    BY <2>3, <2>4 DEF IInv, TypeOK, Core, ClaimInv, WakePC, CancelPC
  <2>6. lock[LockOf[q]] \in S
    BY <2>3, <2>4, <2>5 DEF Blocker
  <2>7. LockOf[q] \in Locks /\ ThreadLock \in Locks
    BY <2>5, ConstantsAssumption
  <2>8. lock[LockOf[q]] \in Threads
    BY Zenon, <2>1, <2>6, <2>7 DEF IInv, TypeOK
  <2>9. lock[ThreadLock] = lock[LockOf[q]]
    BY Zenon, <2>3, <2>6, <2>8 DEF LockInv, CancelPC
  <2> QED
    BY Zenon, <2>1, <2>6, <2>7, <2>9 DEF LockInv
<1> QED
  BY Invariance, <1>1, <1>2, <1>3, PTL DEF BSSpec

-----------------------------------------------------------------------------
(* What a client may rely on. *)

\* A step of one thread leaves another thread where it is, or makes it ready; it
\* never puts the other one to sleep.
LEMMA Bystander ==
  ASSUME IInv, NEW t \in Threads, ThreadStep(t) \/ ClientStep(t) \/ SchedStep(t),
         NEW x \in Threads, x # t
  PROVE  /\ pc'[x] = pc[x] \/ (pc[x] = "suspended" /\ pc'[x] = "ready")
         /\ cur'[x] = cur[x] /\ idx'[x] = idx[x] /\ where'[x] = where[x]
         /\ state'[x] = "Blocked" => state[x] = "Blocked"
<1> DEFINE Goal == /\ pc'[x] = pc[x] \/ (pc[x] = "suspended" /\ pc'[x] = "ready")
                   /\ cur'[x] = cur[x] /\ idx'[x] = idx[x] /\ where'[x] = where[x]
                   /\ state'[x] = "Blocked" => state[x] = "Blocked"
<1>1. TypeOK
  BY DEF IInv
<1>2. ASSUME NEW here, NEW next, here \in WakePC, Wake(t, here, next) PROVE Goal
  <2>1. victim[t] \in Threads /\ pc[victim[t]] = "suspended"
    BY <1>2, WonThread DEF Wake, Actors
  <2> QED
    BY <1>1, <1>2, <2>1 DEF Wake, info, walk, TypeOK, Actors
<1>3. ASSUME \/ AcquireTimeoutLock(t) \/ TimedBlock(t) \/ ResumeMisses(t)
             \/ CancelTimeout(t, "cancelTimeout", "resume") \/ CancelBlocking(t)
             \/ CancelTimeout(t, "xCancelTimeout", AfterTimeout(victim[t]))
      PROVE  Goal
  BY Zenon, <1>1, <1>3 DEF AcquireTimeoutLock, TimedBlock, ResumeMisses, CancelTimeout, CancelBlocking,
     Suspend, Goto, info, walk, TypeOK, Actors
<1>4. ASSUME TryUnblock(t) PROVE Goal
  BY Zenon, <1>1, <1>4 DEF TryUnblock, Goto, info, TypeOK, Actors
<1>5. ASSUME CriticalSection(t) PROVE Goal
  BY Zenon, <1>1, <1>5 DEF CriticalSection, Release, Block, StartResume, StartTimedBlock, Cancel, Suspend,
     Goto, info, walk, TypeOK, Actors
<1>6. ASSUME ClientStep(t) PROVE Goal
  BY Zenon, <1>1, <1>5, <1>6 DEF ClientStep, Acquire, Sleep, Terminate, Suspend, Goto, info, walk, TypeOK, Actors
<1>7. ASSUME SchedStep(t) PROVE Goal
  BY Zenon, <1>1, <1>7 DEF SchedStep, Dispatch, FinishCancelled, Goto, info, walk, TypeOK, Actors
<1>8. ASSUME ThreadStep(t) PROVE Goal
  BY Zenon, <1>2, <1>3, <1>4, <1>8 DEF ThreadStep, WakePC, CancelPC
<1> QED
  BY <1>6, <1>7, <1>8

\* The same for the steps of the clock and of the timer interrupt.
LEMMA TimerBystander ==
  ASSUME IInv, Tick \/ TimerStep, NEW x \in Threads
  PROVE  /\ pc'[x] = pc[x] \/ (pc[x] = "suspended" /\ pc'[x] = "ready")
         /\ cur'[x] = cur[x] /\ idx'[x] = idx[x] /\ where'[x] = where[x]
         /\ state'[x] = "Blocked" => state[x] = "Blocked"
<1> DEFINE Goal == /\ pc'[x] = pc[x] \/ (pc[x] = "suspended" /\ pc'[x] = "ready")
                   /\ cur'[x] = cur[x] /\ idx'[x] = idx[x] /\ where'[x] = where[x]
                   /\ state'[x] = "Blocked" => state[x] = "Blocked"
<1>1. TypeOK /\ x # Timer
  BY ConstantsAssumption DEF IInv
<1>2. ASSUME Wake(Timer, "xResume", "fire") PROVE Goal
  <2>1. victim[Timer] \in Threads /\ pc[victim[Timer]] = "suspended"
    BY <1>2, WonThread DEF Wake, Actors, WakePC, CancelPC
  <2> QED
    BY <1>1, <1>2, <2>1 DEF Wake, info, walk, TypeOK, Actors
<1>3. ASSUME Tick \/ ExpiryStart \/ ExpiryUnlock \/ ExpiryDone \/ CancelBlocking(Timer)
      PROVE  Goal
  BY Zenon, <1>1, <1>3 DEF Tick, ExpiryStart, ExpiryUnlock, ExpiryDone, CancelBlocking, Goto, info, walk,
     TypeOK, Actors
<1>4. ASSUME NEW w \in Threads, ExpiryVisit(w) \/ ExpiryFire(w) PROVE Goal
  BY <1>1, <1>4 DEF ExpiryVisit, ExpiryFire, Goto, info, walk, TypeOK, Actors
<1> QED
  BY Zenon, <1>2, <1>3, <1>4 DEF TimerStep

\* A queue changes only in the hands of the thread that holds its bLock.
LEMMA HolderDecides ==
  ASSUME IInv, LockInv, [BSNext]_bsvars, NEW q \in Queues, NEW x \in Threads,
         lock[LockOf[q]] = x, pc'[x] = pc[x]
  PROVE  bq'[q] = bq[q]
<1>1. TypeOK /\ x # None
  BY ConstantsAssumption DEF IInv
<1>2. ASSUME NEW t \in Threads, TryUnblock(t) PROVE bq'[q] = bq[q]
  <2>1. pc[t] = "walk" /\ cur[t] \in Queues /\ lock[LockOf[cur[t]]] = t
    BY Zenon, <1>1, <1>2 DEF TryUnblock, TypeOK, LockInv
  <2>2. \/ UNCHANGED bq
        \/ /\ bq' = [bq EXCEPT ![cur[t]] = Unlink(bq[cur[t]], bq[cur[t]][idx[t]])]
           /\ pc'[t] \in {"cancelTimeout", "resume"}
    BY Zenon, <1>1, <1>2 DEF TryUnblock, Goto, TypeOK, Actors
  <2>3. ASSUME cur[t] = q PROVE UNCHANGED bq
    BY Zenon, <2>1, <2>2, <2>3
  <2> QED
    BY Zenon, <1>1, <2>1, <2>2, <2>3 DEF TypeOK
<1>3. ASSUME NEW t \in Threads, TimedBlock(t) PROVE bq'[q] = bq[q]
  <2>1. pc[t] = "held2" /\ cur[t] \in Queues /\ lock[LockOf[cur[t]]] = t
    BY Zenon, <1>1, <1>3 DEF TimedBlock, TypeOK, LockInv
  <2>2. UNCHANGED bq \/ (bq' = [bq EXCEPT ![cur[t]] = Append(bq[cur[t]], t)] /\ pc'[t] = "suspended")
    BY Zenon, <1>1, <1>3, <2>1 DEF TimedBlock, Suspend, Goto, TypeOK, Actors
  <2> QED
    BY Zenon, <1>1, <2>1, <2>2 DEF TypeOK
<1>4. ASSUME NEW t \in Threads, NEW p \in Queues, Block(t, p) PROVE bq'[q] = bq[q]
  <2>1. /\ pc[t] = "held" /\ lock[LockOf[p]] = t
        /\ UNCHANGED bq \/ (bq' = [bq EXCEPT ![p] = Append(bq[p], t)] /\ Goto(t, "suspended"))
    BY Zenon, <1>4 DEF Block, Suspend
  <2> QED
    BY <1>1, <2>1 DEF Goto, TypeOK, Actors
<1>5. ASSUME NEW a \in Actors, CancelBlocking(a) PROVE bq'[q] = bq[q]
  <2>1. lock[LockOf[where[victim[a]]]] = None /\ bq' = [bq EXCEPT ![where[victim[a]]] = Unlink(bq[where[victim[a]]], victim[a])]
    BY <1>5 DEF CancelBlocking
  <2> QED
    BY Zenon, <1>1, <2>1 DEF TypeOK
<1>6. ASSUME NEW t \in Threads, NEW d \in 1..MaxTime, Sleep(t, d) PROVE bq'[q] = bq[q]
  BY <1>6 DEF Sleep, Suspend
<1>7. ASSUME UNCHANGED bq PROVE bq'[q] = bq[q]
  BY <1>7
<1>8. ASSUME NEW t \in Threads, ThreadStep(t) PROVE bq'[q] = bq[q]
  BY Zenon, <1>2, <1>3, <1>5, <1>7, <1>8 DEF ThreadStep, AcquireTimeoutLock, ResumeMisses, CancelTimeout, Wake, Actors
<1>9. ASSUME NEW t \in Threads, ClientStep(t) \/ SchedStep(t) PROVE bq'[q] = bq[q]
  BY Zenon, <1>4, <1>6, <1>7, <1>9 DEF ClientStep, CriticalSection, SchedStep, Acquire, Release, StartResume,
     StartTimedBlock, Cancel, Terminate, Dispatch, FinishCancelled
<1>10. ASSUME Tick \/ TimerStep PROVE bq'[q] = bq[q]
  BY Zenon, <1>5, <1>7, <1>10 DEF Tick, TimerStep, ExpiryStart, ExpiryVisit, ExpiryFire, ExpiryUnlock,
     ExpiryDone, Wake, Actors
<1> QED
  BY Zenon, <1>7, <1>8, <1>9, <1>10 DEF BSNext, bsvars

\* A spinlock is released by its holder only.
LEMMA LockKept ==
  ASSUME IInv, LockInv, [BSNext]_bsvars, NEW l \in Locks, NEW x \in Threads,
         lock[l] = x, pc'[x] = pc[x]
  PROVE  lock'[l] = x
<1>1. TypeOK /\ x # None
  BY ConstantsAssumption DEF IInv
<1>2. ASSUME NEW t \in Threads, TryUnblock(t) \/ TimedBlock(t) PROVE lock'[l] = x
  <2>1. /\ pc[t] \in {"walk", "held2"} /\ cur[t] \in Queues /\ lock[LockOf[cur[t]]] = t
        /\ UNCHANGED lock \/ (lock' = [lock EXCEPT ![LockOf[cur[t]]] = None] /\ pc'[t] # pc[t])
    BY Zenon, <1>1, <1>2 DEF TryUnblock, TimedBlock, Suspend, Drop, Goto, TypeOK, LockInv, Actors
  <2> QED
    BY Zenon, <1>1, <2>1 DEF TypeOK
<1>3. ASSUME NEW t \in Threads, NEW m \in Locks, Acquire(t, m) \/ Release(t, m) PROVE lock'[l] = x
  BY Zenon, <1>1, <1>3 DEF Acquire, Release, Drop, Goto, TypeOK, Actors
<1>4. ASSUME NEW t \in Threads, NEW p \in Queues, Block(t, p) PROVE lock'[l] = x
  BY Zenon, <1>1, <1>4 DEF Block, Suspend, Drop, Goto, TypeOK, Actors
<1>5. ASSUME UNCHANGED lock PROVE lock'[l] = x
  BY <1>5
<1>6. ASSUME NEW t \in Threads, ThreadStep(t) PROVE lock'[l] = x
  BY Zenon, <1>2, <1>5, <1>6 DEF ThreadStep, AcquireTimeoutLock, ResumeMisses, CancelTimeout, Wake, CancelBlocking
<1>7. ASSUME NEW t \in Threads, ClientStep(t) \/ SchedStep(t) PROVE lock'[l] = x
  BY Zenon, <1>3, <1>4, <1>5, <1>7 DEF ClientStep, CriticalSection, SchedStep, StartResume, Sleep,
     StartTimedBlock, Cancel, Terminate, Dispatch, FinishCancelled
<1>8. ASSUME Tick \/ TimerStep PROVE lock'[l] = x
  BY Zenon, <1>5, <1>8 DEF Tick, TimerStep, ExpiryStart, ExpiryVisit, ExpiryFire, ExpiryUnlock,
     ExpiryDone, Wake, CancelBlocking
<1> QED
  BY Zenon, <1>5, <1>6, <1>7, <1>8 DEF BSNext, bsvars

\* A thread that blocks has not been told of a timeout: BlockingInfo::timedOut is
\* set only by whoever has already won the thread.
FreshWait == \A x \in Threads : state[x] = "Blocked" => ~timedOut[x]

\* It stays so: a new BlockingInfo starts with the flag clear, and the timer
\* sets it after it has won the thread (BlockingSync.h:66-91).
LEMMA FreshWaitStep ==
  ASSUME IInv, FreshWait, [BSNext]_bsvars
  PROVE  FreshWait'
<1> SUFFICES ASSUME NEW x \in Threads, state'[x] = "Blocked", timedOut'[x] PROVE FALSE
  BY DEF FreshWait
<1> USE ConstantsAssumption
<1>1. TypeOK
  BY DEF IInv
<1>2. ASSUME NEW a \in Actors, CancelBlocking(a) PROVE FALSE
  <2>1. pc[a] \in WakePC /\ state' = state /\ timedOut' = [timedOut EXCEPT ![victim[a]] = TRUE]
    BY <1>2 DEF CancelBlocking, WakePC, CancelPC
  <2>2. victim[a] \in Threads /\ state[victim[a]] # "Blocked"
    BY <2>1, WonThread
  <2> QED
    BY <1>1, <2>1, <2>2 DEF FreshWait, TypeOK
<1>3. ASSUME timedOut' = timedOut, state'[x] = "Blocked" => state[x] = "Blocked" PROVE FALSE
  BY <1>3 DEF FreshWait
<1>4. ASSUME Tick \/ TimerStep PROVE FALSE
  <2>1. CancelBlocking(Timer) \/ timedOut' = timedOut
    BY Zenon, <1>4 DEF Tick, TimerStep, ExpiryStart, ExpiryVisit, ExpiryFire, ExpiryUnlock, ExpiryDone, Wake, info
  <2> QED
    BY <1>2, <1>3, <1>4, <2>1, TimerBystander DEF Actors
<1>5. ASSUME NEW t \in Threads, ThreadStep(t) \/ ClientStep(t) \/ SchedStep(t) PROVE FALSE
  <2>1. CASE x # t
    <3>1. state[x] = "Blocked"
      BY Zenon, <1>5, <2>1, Bystander
    <3>2. ASSUME ThreadStep(t), ~CancelBlocking(t) PROVE timedOut'[x] = timedOut[x]
      BY Zenon, <1>1, <2>1, <3>2 DEF ThreadStep, AcquireTimeoutLock, TimedBlock, TryUnblock, ResumeMisses,
         CancelTimeout, Wake, Suspend, info, TypeOK
    <3>3. ASSUME ClientStep(t) \/ SchedStep(t) PROVE timedOut'[x] = timedOut[x]
      BY Zenon, <1>1, <2>1, <3>3 DEF ClientStep, SchedStep, CriticalSection, Acquire, Release, Block, Suspend,
         StartResume, StartTimedBlock, Cancel, Sleep, Terminate, Dispatch, FinishCancelled, info, TypeOK
    <3> QED
      BY Zenon, <1>2, <1>5, <3>1, <3>2, <3>3 DEF FreshWait, Actors
  <2>2. CASE x = t
    <3>1. pc'[t] = "suspended"
      BY Zenon, <1>5, <2>2, InductiveStep DEF BSNext, IInv, Core, BlockedIsLinked
    <3>2. ASSUME TimedBlock(t) \/ (\E q \in Queues : Block(t, q)) \/ \E d \in 1..MaxTime : Sleep(t, d)
          PROVE  timedOut'[t] = FALSE
      BY Zenon, <1>1, <3>1, <3>2 DEF Block, TimedBlock, Sleep, Suspend, Goto, TypeOK, Actors
    <3>3. ASSUME NEW here, NEW next, here \in WakePC, next # "suspended", Wake(t, here, next) PROVE FALSE
      BY <1>1, <3>1, <3>3, WonThread DEF Wake, TypeOK, Actors
    <3>4. ASSUME ThreadStep(t), ~TimedBlock(t) PROVE FALSE
      <4>1. /\ \A l : Goto(t, l) => pc'[t] = l
            /\ \A l \in {"held2", "missed", "resume", "xResume", "xCancelBlocking", "cancelTimeout"} : pc'[t] # l
        BY Zenon, <1>1, <3>1 DEF Goto, TypeOK, Actors
      <4>2. ~AcquireTimeoutLock(t) /\ ~ResumeMisses(t)
        BY Zenon, <4>1 DEF AcquireTimeoutLock, ResumeMisses
      <4>3. ~TryUnblock(t)
        BY Zenon, <3>1, <4>1 DEF TryUnblock
      <4>4. ~CancelBlocking(t) /\ ~CancelTimeout(t, "cancelTimeout", "resume")
        BY Zenon, <4>1 DEF CancelBlocking, CancelTimeout
      <4>5. ~CancelTimeout(t, "xCancelTimeout", AfterTimeout(victim[t]))
        BY <4>1 DEF CancelTimeout, AfterTimeout
      <4>6. ~Wake(t, "resume", "run") /\ ~Wake(t, "xResume", "held")
        BY <3>3 DEF WakePC, CancelPC
      <4> QED
        BY Zenon, <3>4, <4>2, <4>3, <4>4, <4>5, <4>6 DEF ThreadStep
    <3>5. ASSUME ClientStep(t), ~(\E q \in Queues : Block(t, q)), ~(\E d \in 1..MaxTime : Sleep(t, d)) PROVE FALSE
      BY <1>1, <3>1, <3>5 DEF ClientStep, CriticalSection, Acquire, Release, StartResume, StartTimedBlock,
         Cancel, AfterTimeout, Terminate, Goto, TypeOK, Actors
    <3>6. ASSUME SchedStep(t) PROVE FALSE
      BY <1>1, <3>1, <3>6 DEF SchedStep, Dispatch, FinishCancelled, Goto, TypeOK, Actors
    <3> QED
      BY Zenon, <1>5, <2>2, <3>2, <3>4, <3>5, <3>6
  <2> QED
    BY <2>1, <2>2
<1>6. ASSUME UNCHANGED bsvars PROVE FALSE
  BY <1>3, <1>6 DEF bsvars
<1> QED
  BY <1>4, <1>5, <1>6 DEF BSNext

\* A suspended thread does not become Blocked again before it has run.
LEMMA BlockedOnce ==
  ASSUME IInv, [BSNext]_bsvars, NEW w \in Threads, pc[w] = "suspended", state'[w] = "Blocked"
  PROVE  state[w] = "Blocked"
<1>1. CASE Tick \/ TimerStep
  BY <1>1, TimerBystander
<1>2. ASSUME NEW t \in Threads, ThreadStep(t) \/ ClientStep(t) \/ SchedStep(t)
      PROVE  state[w] = "Blocked"
  <2>1. t # w
    BY Zenon, <1>2 DEF ThreadStep, ClientStep, SchedStep, CriticalSection, AcquireTimeoutLock, TimedBlock,
       TryUnblock, ResumeMisses, CancelTimeout, Wake, CancelBlocking, Acquire, Release, Block,
       StartResume, StartTimedBlock, Cancel, Sleep, Terminate, Dispatch, FinishCancelled, Preemptible
  <2> QED
    BY <1>2, <2>1, Bystander
<1>3. CASE UNCHANGED bsvars
  BY Zenon, <1>3 DEF bsvars
<1> QED
  BY <1>1, <1>2, <1>3 DEF BSNext

\* A thread that a walk has won in queue q, and that has not yet run: it is off
\* the queue, and not because of a timeout or a cancellation.
Heir(x, q) ==
  /\ pc[x] \in {"suspended", "ready"} /\ where[x] = q
  /\ ~OnQueue(q, x) /\ ~timedOut[x]

\* Blocking on a queue links the thread itself and nobody else.
LEMMA SuspendLinks ==
  ASSUME TypeOK, NEW t \in Threads, NEW q \in Queues, bq' = [bq EXCEPT ![q] = Append(bq[q], t)]
  PROVE  /\ t \in Range(bq'[q])
         /\ \A x \in Threads : x # t => \A r \in Queues : x \in Range(bq'[r]) <=> x \in Range(bq[r])
<1>1. Range(bq'[q]) = Range(bq[q]) \cup {t}
  BY AppendElement DEF TypeOK
<1>2. \A r \in Queues : r # q => bq'[r] = bq[r]
  BY DEF TypeOK
<1> QED
  BY <1>1, <1>2
\* The actor that unlinks a thread after a timeout or a cancellation makes no
\* heir, and no heir loses its state by it.
LEMMA CancelledIsNoHeir ==
  ASSUME IInv, NEW a \in Actors, CancelBlocking(a), NEW x \in Threads, NEW q \in Queues
  PROVE  Heir(x, q)' <=> Heir(x, q)
<1>1. /\ TypeOK /\ pc[a] = "xCancelBlocking" /\ pc' = [pc EXCEPT ![a] = "xResume"] /\ where' = where
      /\ pc \in [Actors -> ThreadPC \cup TimerPC] /\ timedOut \in [Threads -> BOOLEAN]
      /\ bq \in [Queues -> Seq(Threads)] /\ where \in [Threads -> Queues \cup {None}]
  BY DEF IInv, CancelBlocking, Goto, TypeOK
<1>2. PICK w \in Threads : w = victim[a] /\ pc[w] = "suspended" /\ w # a
  BY <1>1, WonThread DEF WakePC, CancelPC
<1>3. PICK r \in Queues : r = where[w] /\ w \in Range(bq[r])
  <2>1. where[w] # None /\ StillQueued(w)
    BY Zenon, <1>1, <1>2 DEF IInv, Core, ClaimInv
  <2> QED
    BY <1>1, <1>2, <2>1 DEF StillQueued, OnQueue
<1>4. bq' = [bq EXCEPT ![r] = Unlink(bq[r], w)] /\ timedOut' = [timedOut EXCEPT ![w] = TRUE]
  BY Zenon, <1>2, <1>3 DEF CancelBlocking
<1>5. Range(bq'[r]) = Range(bq[r]) \ {w} /\ \A p \in Queues : p # r => bq'[p] = bq[p]
  <2>1. IsInjective(bq[r])
    BY <1>3 DEF IInv, Core, NoStaleLinks
  <2> QED
    BY <1>1, <1>3, <1>4, <2>1, RemoveElement
<1>6. pc'[x] \in {"suspended", "ready"} <=> pc[x] \in {"suspended", "ready"}
  BY <1>1 DEF Actors
<1>7. CASE x # w
  <2>1. (x \in Range(bq'[q]) <=> x \in Range(bq[q])) /\ timedOut'[x] = timedOut[x]
    BY <1>1, <1>4, <1>5, <1>7
  <2> QED
    BY Zenon, <1>1, <1>6, <2>1 DEF Heir, OnQueue
<1>8. CASE x = w
  <2>1. timedOut'[x]
    BY <1>1, <1>4, <1>8
  <2> QED
    BY Zenon, <1>3, <1>8, <2>1 DEF Heir, OnQueue
<1> QED
  BY <1>7, <1>8

\* An heir is made by the walk that wins it, and is one until it is dispatched.
LEMMA HeirStep ==
  ASSUME IInv, NEW t \in Threads, ThreadStep(t) \/ ClientStep(t) \/ SchedStep(t),
         NEW x \in Threads, NEW q \in Queues
  PROVE  /\ Heir(x, q)' => \/ Heir(x, q)
                           \/ TryUnblock(t) /\ cur[t] = q /\ x = bq[q][idx[t]] /\ state[x] = "Blocked"
         /\ Heir(x, q) => Heir(x, q)' \/ (x = t /\ Dispatch(t))
<1> DEFINE Won == TryUnblock(t) /\ cur[t] = q /\ x = bq[q][idx[t]] /\ state[x] = "Blocked"
           Goal == (Heir(x, q)' => Heir(x, q) \/ Won) /\ (Heir(x, q) => Heir(x, q)' \/ (x = t /\ Dispatch(t)))
           Asleep == {"suspended", "ready"}
<1>1. /\ TypeOK /\ pc \in [Actors -> ThreadPC \cup TimerPC] /\ bq \in [Queues -> Seq(Threads)]
      /\ where \in [Threads -> Queues \cup {None}] /\ timedOut \in [Threads -> BOOLEAN]
  BY DEF IInv, TypeOK
<1>2. x # t => (pc'[x] \in Asleep <=> pc[x] \in Asleep) /\ where'[x] = where[x]
  BY Zenon, Bystander
<1>3. ASSUME x # t, timedOut'[x] = timedOut[x], x \in Range(bq'[q]) <=> x \in Range(bq[q]) PROVE Goal
  BY Zenon, <1>2, <1>3 DEF Heir, OnQueue
<1>4. ASSUME pc[t] \notin Asleep, pc'[t] \notin Asleep, UNCHANGED <<bq, timedOut>> PROVE Goal
  BY Zenon, <1>3, <1>4 DEF Heir
<1>5. ASSUME NEW r \in Queues \cup {None}, NEW b, NEW d, pc[t] \notin Asleep, Suspend(t, r, b, d) PROVE Goal
  <2>1. /\ where'[t] = r /\ bq' = IF r = None THEN bq ELSE [bq EXCEPT ![r] = Append(bq[r], t)]
        /\ x # t => timedOut'[x] = timedOut[x]
    BY Zenon, <1>1, <1>5 DEF Suspend
  <2>2. r \in Queues => t \in Range(bq'[r])
    BY Zenon, <1>1, <2>1, SuspendLinks, ConstantsAssumption
  <2>3. x # t => (x \in Range(bq'[q]) <=> x \in Range(bq[q]))
    BY Zenon, <1>1, <1>5, <2>1, SuspendLinks
  <2>4. x = t => ~Heir(x, q) /\ ~Heir(x, q)'
    BY Zenon, <1>5, <2>1, <2>2 DEF Heir, OnQueue
  <2> QED
    BY Zenon, <1>3, <2>1, <2>3, <2>4
<1>6. ASSUME TryUnblock(t) PROVE Goal
  <2>1. PICK r \in Queues : r = cur[t] /\ pc[t] = "walk" /\ idx[t] >= 1 /\ idx[t] <= Len(bq[r])
    BY Zenon, <1>1, <1>6 DEF TryUnblock, TypeOK
  <2>2. CASE UNCHANGED <<bq, pc>>
    BY Zenon, <1>4, <1>6, <2>1, <2>2 DEF TryUnblock, info
  <2>3. PICK w \in Threads : w = bq[r][idx[t]] /\ w \in Range(bq[r])
    <3>1. bq[r] \in Seq(Threads) /\ idx[t] \in 1..Len(bq[r])
      BY <1>1, <2>1 DEF TypeOK
    <3>2. bq[r][idx[t]] \in Threads /\ DOMAIN bq[r] = 1..Len(bq[r])
      BY <3>1, SeqElement, SeqLength
    <3> QED
      BY <3>1, <3>2 DEF Range
  <2>4. CASE state[w] = "Blocked" /\ bq' = [bq EXCEPT ![r] = Unlink(bq[r], w)]
    <3>1. IsInjective(bq[r]) /\ pc[w] = "suspended" /\ where[w] = r
      BY Zenon, <2>3 DEF IInv, Core, NoStaleLinks
    <3>2. Range(bq'[r]) = Range(bq[r]) \ {w} /\ \A p \in Queues : p # r => bq'[p] = bq[p]
      <4>1. Range(Unlink(bq[r], w)) = Range(bq[r]) \ {w}
        <5>1. bq[r] \in Seq(Threads)
          BY Zenon, <1>1
        <5>2. w \in Range(bq[r]) /\ IsInjective(bq[r])
          BY Zenon, <2>3, <3>1
        <5> QED
          BY <5>1, <5>2, RemoveElement
      <4>2. bq'[r] = Unlink(bq[r], w) /\ \A p \in Queues : p # r => bq'[p] = bq[p]
        BY <1>1, <2>4
      <4> QED
        BY Zenon, <4>1, <4>2
    <3>3. CASE x = w
      <4>1. x # t /\ (Heir(x, q)' => q = r) /\ ~Heir(x, q)
        BY Zenon, <1>2, <2>1, <2>3, <3>1, <3>3 DEF Heir, OnQueue
      <4> QED
        BY Zenon, <1>6, <2>1, <2>3, <2>4, <3>3, <4>1
    <3>4. CASE x # w /\ x # t
      <4>1. (x \in Range(bq'[q]) <=> x \in Range(bq[q])) /\ timedOut'[x] = timedOut[x]
        BY Zenon, <1>6, <3>2, <3>4 DEF TryUnblock, info
      <4> QED
        BY Zenon, <1>3, <3>4, <4>1
    <3>5. CASE x = t
      <4>1. pc'[t] \notin Asleep /\ pc[t] \notin Asleep
        BY Zenon, <1>1, <1>6, <2>1 DEF TryUnblock, Goto, Actors
      <4> QED
        BY Zenon, <3>5, <4>1 DEF Heir
    <3> QED
      BY Zenon, <3>3, <3>4, <3>5
  <2> QED
    BY Zenon, <1>6, <2>1, <2>2, <2>3, <2>4 DEF TryUnblock
<1>7. ASSUME CancelBlocking(t) PROVE Goal
  BY Zenon, <1>7, CancelledIsNoHeir DEF Actors
<1>8. ASSUME Dispatch(t) PROVE Goal
  <2>1. bq' = bq /\ (x # t => timedOut'[x] = timedOut[x]) /\ pc'[t] \in {"run", "dead"}
    BY Zenon, <1>1, <1>8 DEF Dispatch, Goto, Actors
  <2>2. x = t => ~Heir(x, q)'
    BY Zenon, <2>1 DEF Heir
  <2> QED
    BY Zenon, <1>3, <1>8, <2>1, <2>2
<1>9. ASSUME NEW here \in WakePC, NEW next \in {"run", "held"}, Wake(t, here, next) PROVE Goal
  <2>1. /\ victim[t] \in Threads /\ victim[t] # t /\ pc[t] = here /\ UNCHANGED <<bq, timedOut>>
        /\ pc' = [pc EXCEPT ![t] = next, ![victim[t]] = "ready"]
    BY <1>9, WonThread DEF Wake, Actors, info
  <2>2. pc[t] \notin Asleep /\ pc'[t] \notin Asleep
    BY Zenon, <1>1, <1>9, <2>1 DEF WakePC, CancelPC, Actors
  <2> QED
    BY Zenon, <1>4, <2>1, <2>2
<1>10. ASSUME \/ AcquireTimeoutLock(t) \/ ResumeMisses(t) \/ CancelTimeout(t, "cancelTimeout", "resume")
              \/ CancelTimeout(t, "xCancelTimeout", AfterTimeout(victim[t]))
              \/ (\E l \in Locks : Acquire(t, l) \/ Release(t, l)) \/ (\E r \in Queues : StartResume(t, r))
              \/ (\E r \in Queues, d \in 1..MaxTime : StartTimedBlock(t, r, d))
              \/ (\E w \in Threads : Cancel(t, w)) \/ Terminate(t) \/ FinishCancelled(t)
       PROVE  Goal
  <2>1. pc[t] \notin Asleep /\ pc'[t] \notin Asleep /\ UNCHANGED <<bq, timedOut>>
    BY Zenon, <1>1, <1>10 DEF AcquireTimeoutLock, ResumeMisses, CancelTimeout, AfterTimeout, Acquire, Release,
       StartResume, StartTimedBlock, Cancel, Terminate, FinishCancelled, Preemptible, Goto, info, Actors
  <2> QED
    BY Zenon, <1>4, <2>1
<1>11. ASSUME TimedBlock(t) \/ (\E r \in Queues : Block(t, r)) \/ \E d \in 1..MaxTime : Sleep(t, d) PROVE Goal
  <2>1. ASSUME ~MayBlock(t) PROVE pc[t] \notin Asleep /\ pc'[t] \notin Asleep /\ UNCHANGED <<bq, timedOut>>
    BY Zenon, <1>1, <1>11, <2>1 DEF TimedBlock, Block, Sleep, Goto, info, Actors
  <2>2. ASSUME MayBlock(t)
        PROVE  /\ pc[t] \notin Asleep
               /\ \/ Suspend(t, cur[t], TRUE, deadline[t])
                  \/ \E r \in Queues : Suspend(t, r, FALSE, 0)
                  \/ \E d \in 1..MaxTime : Suspend(t, None, TRUE, d)
    BY Zenon, <1>11, <2>2 DEF TimedBlock, Block, Sleep
  <2>3. cur[t] \in Queues \cup {None}
    BY Zenon, <1>1 DEF TypeOK
  <2> QED
    BY Zenon, <1>4, <1>5, <2>1, <2>2, <2>3
<1>12. ThreadStep(t) => Goal
  BY Zenon, <1>6, <1>7, <1>9, <1>10, <1>11 DEF ThreadStep, WakePC, CancelPC
<1>13. ClientStep(t) \/ SchedStep(t) => Goal
  BY Zenon, <1>8, <1>10, <1>11 DEF ClientStep, CriticalSection, SchedStep
<1> QED
  BY Zenon, <1>12, <1>13

\* Neither the clock nor the timer makes an heir or loses one.
LEMMA TimerMakesNoHeir ==
  ASSUME IInv, Tick \/ TimerStep, NEW x \in Threads, NEW q \in Queues
  PROVE  Heir(x, q)' <=> Heir(x, q)
<1>1. CASE CancelBlocking(Timer)
  BY <1>1, CancelledIsNoHeir DEF Actors
<1>2. CASE ~CancelBlocking(Timer)
  <2>1. bq' = bq /\ timedOut' = timedOut
    BY Zenon, <1>2 DEF Tick, TimerStep, ExpiryStart, ExpiryVisit, ExpiryFire, ExpiryUnlock, ExpiryDone, Wake, info
  <2>2. (pc'[x] \in {"suspended", "ready"} <=> pc[x] \in {"suspended", "ready"}) /\ where'[x] = where[x]
    BY TimerBystander
  <2> QED
    BY Zenon, <2>1, <2>2 DEF Heir, OnQueue
<1> QED
  BY <1>1, <1>2
=============================================================================
