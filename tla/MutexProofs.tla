----------------------------- MODULE MutexProofs ----------------------------
(***************************************************************************)
(* The unlocked reads of Mutex::owner are exact, for any number of threads *)
(* and locks: the inductive invariant says who is in the owner field at    *)
(* each point of acquire(), of release() and of the walk that drives the   *)
(* field through the queue.                                                *)
(***************************************************************************)
EXTENDS Mutex, BlockingSyncProofs

MutexTypeOK ==
  /\ owner \in [Queues -> Threads \cup {None, Fence}]
  /\ counter \in [Queues -> Nat]
  /\ call \in [Threads -> [op : {"none", "acquire", "release"}, q : Queues \cup {None}, timeout : Timeouts]]
  /\ depth \in [Threads -> [Queues -> Nat]]

\* Acquisitions of q that t has made and whose release has not taken effect.
Count(t, q) ==
  depth[t][q] + (IF pc[t] = "held" /\ call[t].op = "release" /\ call[t].q = q THEN 1 ELSE 0)

\* Where a thread is tells which call it is in, and what the owner field of its
\* lock holds as long as the thread holds bLock.
CallInv(t) ==
  LET q == call[t].q IN
  /\ call[t].op # "none" => q \in Queues
  /\ call[t].op = "acquire" => depth[t][q] = 0
  /\ call[t].op = "release" => pc[t] \in {"held", "walk", "missed", "cancelTimeout", "resume"}
  /\ pc[t] \in {"suspended", "ready"} => call[t].op = "acquire" /\ where[t] = q
  /\ pc[t] \in {"spinTimeout", "held2"} => call[t].op = "acquire" /\ cur[t] = q /\ owner[q] # None
  /\ pc[t] = "walk" =>
       /\ call[t].op = "release" /\ cur[t] = q /\ owner[q] = At(q, idx[t])
       /\ \A j \in 1..Len(bq[q]) : j < idx[t] => state[bq[q][j]] # "Blocked"
  /\ pc[t] = "missed" =>
       /\ call[t].op = "release" /\ lock[LockOf[q]] = t /\ owner[q] = Fence
       /\ \A j \in 1..Len(bq[q]) : state[bq[q][j]] # "Blocked"
  /\ pc[t] \in CancelPC => call[t].op = "none"

Walked(q) == \E r \in Threads : pc[r] = "walk" /\ cur[r] = q

\* The owner field of q names the one thread that holds q, or its heir; while q
\* is walked, and after its owner was cancelled, it may name another thread.
QueueInv(q) ==
  LET o == owner[q] IN
  /\ \A t \in Threads : Count(t, q) > 0 => o = t /\ (q \notin Recursive => Count(t, q) = 1)
  /\ counter[q] = IF q \in Recursive /\ o \in Threads THEN Count(o, q) ELSE 0
  /\ o \in Threads /\ Count(o, q) = 0 => pc[o] = "dead" \/ Heir(o, q) \/ Walked(q)
  /\ \A t \in Threads : Heir(t, q) => o = t
  /\ o = None => \A t \in Range(bq[q]) : state[t] # "Blocked"

MutexInv ==
  /\ IInv /\ LockInv /\ FreshWait /\ MutexTypeOK
  /\ \A t \in Threads : CallInv(t)
  /\ \A q \in Queues : QueueInv(q)

-----------------------------------------------------------------------------
\* While q is walked its owner field names a waiting thread or the fence, and
\* nobody holds it or is its heir.
LEMMA WalkedIsFree ==
  ASSUME MutexInv, NEW r \in Threads, pc[r] = "walk"
  PROVE  /\ cur[r] \in Queues /\ cur[r] = call[r].q
         /\ owner[cur[r]] = Fence \/ owner[cur[r]] \in Range(bq[cur[r]])
         /\ \A x \in Threads : Count(x, cur[r]) = 0 /\ ~Heir(x, cur[r])
         /\ counter[cur[r]] = 0
<1>1. PICK q \in Queues : q = cur[r] /\ call[r].q = q /\ owner[q] = At(q, idx[r])
  BY DEF MutexInv, CallInv
<1>2. owner[q] = Fence \/ owner[q] \in Range(bq[q])
  <2>1. bq[q] \in Seq(Threads) /\ idx[r] \in Nat /\ idx[r] >= 1
    BY DEF MutexInv, IInv, TypeOK
  <2>2. idx[r] <= Len(bq[q]) => idx[r] \in DOMAIN bq[q]
    BY <2>1
  <2> QED
    BY <1>1, <2>1, <2>2 DEF At, Range
<1>3. ASSUME NEW x \in Range(bq[q])
      PROVE  x \in Threads /\ pc[x] = "suspended" /\ Count(x, q) = 0 /\ ~Heir(x, q)
  <2>1. x \in Threads /\ pc[x] = "suspended" /\ where[x] = q
    BY <1>3, QueuedAreThreads DEF MutexInv, IInv, Core, NoStaleLinks
  <2>2. call[x].op = "acquire" /\ call[x].q = q
    BY <2>1 DEF MutexInv, CallInv
  <2>3. depth[x][q] = 0
    BY <2>1, <2>2 DEF MutexInv, CallInv
  <2> QED
    BY <1>3, <2>1, <2>2, <2>3 DEF Count, Heir, OnQueue
<1>4. Fence \notin Threads /\ QueueInv(q)
  BY MutexAssumption DEF MutexInv
<1>5. ASSUME NEW x \in Threads PROVE Count(x, q) = 0 /\ ~Heir(x, q)
  <2>1. Count(x, q) \in Nat
    BY DEF Count, MutexInv, MutexTypeOK
  <2>2. ~ (Count(x, q) > 0)
    BY <1>2, <1>3, <1>4 DEF QueueInv
  <2> QED
    BY <1>2, <1>3, <1>4, <2>1, <2>2 DEF QueueInv
<1>6. counter[q] = 0
  BY <1>4, <1>5 DEF QueueInv
<1> QED
  BY <1>1, <1>2, <1>5, <1>6

\* What the invariant says of the unlocked reads.
LEMMA ReadsAreExact ==
  ASSUME MutexInv
  PROVE  OwnerReadExact
<1> SUFFICES ASSUME NEW t \in Threads, NEW q \in Queues
             PROVE  /\ pc[t] \in Preemptible => (owner[q] = t <=> depth[t][q] > 0)
                    /\ q \in Recursive /\ depth[t][q] > 0 /\ pc[t] = "run" => counter[q] = depth[t][q]
                    /\ owner[q] = None => counter[q] = 0 /\ ~(t \in Range(bq[q]) /\ state[t] = "Blocked")
  BY DEF OwnerReadExact
<1>1. QueueInv(q) /\ depth[t][q] \in Nat /\ None \notin Threads
  BY ConstantsAssumption DEF MutexInv, MutexTypeOK
<1>2. pc[t] # "held" => Count(t, q) = depth[t][q]
  BY <1>1 DEF Count
<1>3. ASSUME pc[t] \in Preemptible, owner[q] = t PROVE depth[t][q] > 0
  <2>1. ~Heir(t, q) /\ pc[t] # "dead" /\ pc[t] # "suspended"
    BY <1>3 DEF Heir, Preemptible
  <2>2. ~Walked(q)
    <3>1. t # Fence /\ t \notin Range(bq[q])
      BY <2>1, MutexAssumption DEF MutexInv, IInv, Core, NoStaleLinks
    <3> QED
      BY <1>3, <3>1, WalkedIsFree DEF Walked
  <2>3. Count(t, q) # 0
    BY <1>1, <1>3, <2>1, <2>2 DEF QueueInv
  <2> QED
    BY <1>1, <1>2, <1>3, <2>3 DEF Preemptible
<1>4. ASSUME depth[t][q] > 0, pc[t] \in Preemptible PROVE owner[q] = t /\ (q \in Recursive => counter[q] = depth[t][q])
  BY <1>1, <1>2, <1>4 DEF QueueInv, Preemptible
<1>5. owner[q] = None => counter[q] = 0 /\ ~(t \in Range(bq[q]) /\ state[t] = "Blocked")
  BY <1>1 DEF QueueInv
<1> QED
  BY <1>3, <1>4, <1>5 DEF Preemptible

-----------------------------------------------------------------------------
\* What a thread does inside acquire() and release() are steps the blocking
\* machinery offers its clients.
LEMMA WorkingIsClient ==
  ASSUME MutexInv, NEW t \in Threads, Working(t)
  PROVE  ThreadStep(t) \/ ClientStep(t) \/ SchedStep(t)
<1> USE ConstantsAssumption
<1>1. ASSUME call[t].op # "none" PROVE call[t].q \in Queues /\ LockOf[call[t].q] \in Locks
  BY <1>1 DEF MutexInv, CallInv
<1>2. ASSUME Take(t) \/ ReleaseInner(t) \/ ReleaseOuter(t) \/ ReleaseFree(t) PROVE CriticalSection(t)
  BY Zenon, <1>1, <1>2 DEF Take, ReleaseInner, ReleaseOuter, ReleaseFree, Holds, CriticalSection
<1>3. ASSUME Wait(t) PROVE CriticalSection(t)
  <2>1. call[t].q \in Queues /\ LockOf[call[t].q] \in Locks /\ call[t].timeout \in Timeouts
    BY <1>1, <1>3 DEF Wait, Holds, MutexInv, MutexTypeOK
  <2>2. call[t].timeout \notin {0, None} => call[t].timeout \in 1..MaxTime
    BY <2>1 DEF Timeouts
  <2> QED
    BY <1>3, <2>1, <2>2 DEF Wait, CriticalSection
<1>4. ASSUME WaitTimed(t) \/ Return(t) \/ Walk(t) \/ ReleaseWake(t) \/ Inside(t)
      PROVE  ThreadStep(t) \/ SchedStep(t)
  BY Zenon, <1>4 DEF WaitTimed, Return, Walk, ReleaseWake, Inside, ThreadStep, SchedStep
<1> QED
  BY Zenon, <1>2, <1>3, <1>4 DEF Working, ClientStep

\* So are the steps that enter and those outside.
LEMMA OutsideIsClient ==
  ASSUME MutexInv, NEW t \in Threads,
         AcquireLock(t) \/ (\E q \in Queues : CallRelease(t, q)) \/ Finishes(t) \/ ExitStep(t)
  PROVE  ClientStep(t) \/ SchedStep(t)
<1>1. ThreadLock \in Locks /\ (\A q \in Queues : LockOf[q] \in Locks) /\ (AcquireLock(t) => call[t].q \in Queues)
  BY ConstantsAssumption DEF MutexInv, CallInv, AcquireLock
<1> QED
  BY Zenon, <1>1 DEF AcquireLock, CallRelease, Finishes, ExitStep, ClientStep, CriticalSection, SchedStep

\* acquire() and release() take no step that the blocking machinery does not offer.
LEMMA MutexIsClient ==
  ASSUME MutexInv, [MutexNext]_vars
  PROVE  [BSNext]_bsvars
<1>1. ASSUME MutexNext PROVE BSNext \/ UNCHANGED bsvars
  BY Zenon, <1>1, WorkingIsClient, OutsideIsClient DEF MutexNext, BSNext, CallAcquire
<1> QED
  BY <1>1 DEF vars

-----------------------------------------------------------------------------
\* What a thread knows in acquire() or release() stays true while others take
\* steps, if they change only owner fields whose bLock they hold.
LEMMA CallStands ==
  ASSUME MutexInv, [BSNext]_bsvars, NEW x \in Threads,
         UNCHANGED <<call[x], depth[x], cur[x], idx[x], where[x]>>,
         pc'[x] = pc[x] \/ (pc[x] = "suspended" /\ pc'[x] = "ready"),
         \A q \in Queues : owner'[q] # owner[q] => lock[LockOf[q]] # x
  PROVE  CallInv(x)'
<1> DEFINE q == call[x].q
<1>1. /\ IInv /\ LockInv /\ CallInv(x) /\ bq \in [Queues -> Seq(Threads)]
      /\ LockOf \in [Queues -> Locks]
  BY ConstantsAssumption DEF MutexInv, IInv, TypeOK
<1>2. CASE pc[x] \in {"walk", "missed"}
  <2>1. pc'[x] = pc[x] /\ q \in Queues /\ lock[LockOf[q]] = x
    BY <1>1, <1>2 DEF CallInv, LockInv
  <2>2. bq'[q] = bq[q] /\ lock'[LockOf[q]] = x
    BY Zenon, <1>1, <2>1, HolderDecides, LockKept
  <2>3. ASSUME NEW j \in 1..Len(bq[q]) PROVE bq[q][j] \in Threads /\ pc[bq[q][j]] = "suspended"
    <3>1. bq[q][j] \in Range(bq[q]) /\ bq[q][j] \in Threads
      BY <1>1, <2>1, <2>3 DEF Range
    <3> QED
      BY <1>1, <2>1, <3>1 DEF IInv, Core, NoStaleLinks
  <2>4. \A j \in 1..Len(bq[q]) : state[bq[q][j]] # "Blocked" => state'[bq[q][j]] # "Blocked"
    BY <1>1, <2>3, BlockedOnce
  <2>5. owner'[q] = owner[q] /\ At(q, idx[x])' = At(q, idx[x])
    BY <2>1, <2>2 DEF At
  <2> HIDE DEF q
  <2> QED
    BY Zenon, <1>1, <1>2, <2>1, <2>2, <2>4, <2>5 DEF CallInv, q
<1>3. CASE pc[x] \in {"spinTimeout", "held2"}
  <2>1. lock[LockOf[q]] = x /\ q \in Queues
    BY <1>1, <1>3 DEF CallInv, LockInv
  <2> QED
    BY Zenon, <1>1, <1>3, <2>1 DEF CallInv
<1>4. CASE pc[x] \notin {"walk", "missed", "spinTimeout", "held2"}
  <2>1. pc'[x] \notin {"walk", "missed", "spinTimeout", "held2"}
    BY <1>4
  <2>2. /\ pc'[x] \in {"suspended", "ready"} => pc[x] \in {"suspended", "ready"}
        /\ pc'[x] \in CancelPC => pc[x] \in CancelPC
        /\ call[x].op = "release" => pc'[x] = pc[x]
    BY <1>1, <1>4 DEF CancelPC, CallInv
  <2> QED
    BY Zenon, <1>1, <2>1, <2>2 DEF CallInv
<1> QED
  BY <1>2, <1>3, <1>4

\* A step of thread t leaves the calls of the others as they were.
LEMMA OthersStand ==
  ASSUME MutexInv, NEW t \in Threads, ThreadStep(t) \/ ClientStep(t) \/ SchedStep(t),
         \A x \in Threads : x # t => call'[x] = call[x] /\ depth'[x] = depth[x],
         \A q \in Queues : owner'[q] # owner[q] => lock[LockOf[q]] = t
  PROVE  \A x \in Threads : x # t => CallInv(x)'
<1> SUFFICES ASSUME NEW x \in Threads, x # t PROVE CallInv(x)'
  OBVIOUS
<1>1. IInv /\ BSNext
  BY DEF BSNext, MutexInv
<1>2. /\ pc'[x] = pc[x] \/ (pc[x] = "suspended" /\ pc'[x] = "ready")
      /\ UNCHANGED <<call[x], depth[x], cur[x], idx[x], where[x]>>
  BY <1>1, Bystander
<1> QED
  BY <1>1, <1>2, CallStands

\* A thread that has left its call is bound by nothing.
LEMMA CallOver ==
  ASSUME NEW t \in Threads, call'[t] = Idle,
         pc'[t] \notin {"suspended", "ready", "spinTimeout", "held2", "walk", "missed"}
  PROVE  CallInv(t)'
<1>1. call'[t].op = "none"
  BY DEF Idle
<1> QED
  BY Zenon, <1>1 DEF CallInv

\* A lock of which a step changes neither the owner nor the number of
\* acquisitions.
LEMMA QueueStands ==
  ASSUME MutexInv, IInv', NEW q \in Queues, owner'[q] = owner[q], counter'[q] = counter[q],
         \A x \in Threads :
           /\ Count(x, q)' = Count(x, q)
           /\ pc[x] = "dead" => pc'[x] = "dead"
           /\ Heir(x, q)' => Heir(x, q)
           /\ Heir(x, q) => Heir(x, q)' \/ pc'[x] = "dead"
           /\ state'[x] = "Blocked" /\ where'[x] = q /\ owner[q] = None => state[x] = "Blocked" /\ where[x] = q,
         owner[q] \in Threads /\ Walked(q) => Walked(q)'
  PROVE  QueueInv(q)'
<1>1. QueueInv(q) /\ None \notin Queues
  BY ConstantsAssumption DEF MutexInv
<1>2. ASSUME owner[q] = None, NEW x \in Range(bq'[q]), state'[x] = "Blocked" PROVE FALSE
  <2>1. x \in Threads /\ where'[x] = q
    BY <1>2, QueuedAreThreads DEF IInv, Core, NoStaleLinks, TypeOK, Range
  <2>2. state[x] = "Blocked" /\ where[x] = q
    BY <1>2, <2>1
  <2>3. x \in Range(bq[q])
    BY Zenon, <1>1, <2>1, <2>2 DEF MutexInv, IInv, Core, BlockedIsLinked, OnQueue
  <2> QED
    BY <1>1, <1>2, <2>2, <2>3 DEF QueueInv
<1> QED
  BY Zenon, <1>1, <1>2 DEF QueueInv

\* A dead or sleeping thread takes no step.
LEMMA OnlyTheLiving ==
  ASSUME NEW t \in Threads, ThreadStep(t) \/ ClientStep(t) \/ SchedStep(t)
  PROVE  pc[t] \notin {"dead", "suspended"}
BY Zenon DEF ThreadStep, ClientStep, SchedStep, CriticalSection, AcquireTimeoutLock, TimedBlock,
   TryUnblock, ResumeMisses, CancelTimeout, Wake, CancelBlocking, Acquire, Release, Block,
   StartResume, StartTimedBlock, Cancel, Sleep, Terminate, Dispatch, FinishCancelled, Preemptible

\* A step of thread t leaves a lock as it was if it neither changes the owner
\* field and the acquisitions nor ends a walk with a winner.
LEMMA Quiet ==
  ASSUME MutexInv, IInv', NEW t \in Threads, ThreadStep(t) \/ ClientStep(t) \/ SchedStep(t),
         NEW q \in Queues, owner'[q] = owner[q], counter'[q] = counter[q],
         \A x \in Threads : x # t => call'[x] = call[x] /\ depth'[x] = depth[x],
         Count(t, q)' = Count(t, q),
         pc'[t] = "suspended" /\ where'[t] = q => owner[q] # None,
         pc[t] = "walk" /\ cur[t] = q => owner[q] = Fence /\ ~TryUnblock(t),
         Heir(t, q) /\ Dispatch(t) => pc'[t] = "dead"
  PROVE  QueueInv(q)'
<1>1. IInv /\ pc[t] # "dead" /\ Fence \notin Threads
  BY Zenon, OnlyTheLiving, MutexAssumption DEF MutexInv
<1>2. ASSUME NEW x \in Threads, x # t
      PROVE  /\ pc'[x] = pc[x] \/ (pc[x] = "suspended" /\ pc'[x] = "ready")
             /\ cur'[x] = cur[x] /\ where'[x] = where[x]
             /\ state'[x] = "Blocked" => state[x] = "Blocked"
             /\ Count(x, q)' = Count(x, q)
  <2>1. /\ pc'[x] = pc[x] \/ (pc[x] = "suspended" /\ pc'[x] = "ready")
        /\ cur'[x] = cur[x] /\ where'[x] = where[x]
        /\ state'[x] = "Blocked" => state[x] = "Blocked"
    BY <1>1, <1>2, Bystander
  <2>2. (pc'[x] = "held" <=> pc[x] = "held") /\ call'[x] = call[x] /\ depth'[x] = depth[x]
    BY Zenon, <1>2, <2>1
  <2> QED
    BY <2>1, <2>2 DEF Count
<1>3. ASSUME NEW x \in Threads
      PROVE  /\ Heir(x, q)' => Heir(x, q)
             /\ Heir(x, q) => Heir(x, q)' \/ pc'[x] = "dead"
  <2>1. ~(TryUnblock(t) /\ cur[t] = q)
    BY Zenon DEF TryUnblock
  <2>2. /\ Heir(x, q)' => \/ Heir(x, q)
                          \/ TryUnblock(t) /\ cur[t] = q /\ x = bq[q][idx[t]] /\ state[x] = "Blocked"
        /\ Heir(x, q) => Heir(x, q)' \/ (x = t /\ Dispatch(t))
    BY Zenon, <1>1, HeirStep
  <2> QED
    BY Zenon, <2>1, <2>2
<1>4. state'[t] = "Blocked" => pc'[t] = "suspended"
  BY Zenon DEF IInv, Core, BlockedIsLinked
<1>5. owner[q] \in Threads /\ Walked(q) => Walked(q)'
  BY Zenon, <1>1, <1>2 DEF Walked
<1>6. ASSUME NEW x \in Threads, state'[x] = "Blocked", where'[x] = q, owner[q] = None
      PROVE  state[x] = "Blocked" /\ where[x] = q
  BY Zenon, <1>2, <1>4, <1>6
<1>7. ASSUME NEW x \in Threads PROVE Count(x, q)' = Count(x, q) /\ (pc[x] = "dead" => pc'[x] = "dead")
  BY <1>1, <1>2, <1>7
<1> QED
  BY Zenon, <1>3, <1>5, <1>6, <1>7, QueueStands

\* A step of thread t that touches no owner field and no acquisition and keeps
\* what t knows in its own call.
LEMMA QuietStep ==
  ASSUME MutexInv, IInv', NEW t \in Threads, ThreadStep(t) \/ ClientStep(t) \/ SchedStep(t),
         UNCHANGED <<owner, counter, depth>>,
         \A x \in Threads : x # t => call'[x] = call[x],
         pc[t] = "held" /\ call[t].op = "release" <=> pc'[t] = "held" /\ call'[t].op = "release",
         call'[t].op = "release" => call'[t] = call[t],
         pc'[t] = "suspended" => where'[t] = call[t].q /\ owner[call[t].q] # None,
         pc[t] = "walk" => owner[cur[t]] = Fence /\ ~TryUnblock(t),
         Dispatch(t) => pc'[t] = "dead" \/ \A q \in Queues : ~Heir(t, q),
         CallInv(t)'
  PROVE  (\A x \in Threads : CallInv(x)') /\ (\A q \in Queues : QueueInv(q)')
<1>1. \A x \in Threads : CallInv(x)'
  BY Zenon, OthersStand
<1>2. ASSUME NEW q \in Queues PROVE QueueInv(q)'
  <2>1. Count(t, q)' = Count(t, q)
    BY DEF Count
  <2> QED
    BY Zenon, <2>1, Quiet
<1> QED
  BY <1>1, <1>2

\* The clock and the timer interrupt touch no lock.
LEMMA TimerQuiet ==
  ASSUME MutexInv, IInv', Tick \/ TimerStep, UNCHANGED mutexvars
  PROVE  (\A x \in Threads : CallInv(x)') /\ (\A q \in Queues : QueueInv(q)')
<1>1. IInv /\ BSNext /\ UNCHANGED <<owner, counter, call, depth>>
  BY DEF BSNext, MutexInv, mutexvars
<1>2. ASSUME NEW x \in Threads
      PROVE  /\ pc'[x] = pc[x] \/ (pc[x] = "suspended" /\ pc'[x] = "ready")
             /\ cur'[x] = cur[x] /\ idx'[x] = idx[x] /\ where'[x] = where[x]
             /\ state'[x] = "Blocked" => state[x] = "Blocked"
  BY <1>1, TimerBystander
<1>3. ASSUME NEW x \in Threads PROVE CallInv(x)'
  BY <1>1, <1>2, CallStands
<1>4. ASSUME NEW q \in Queues PROVE QueueInv(q)'
  <2>1. ASSUME NEW x \in Threads
        PROVE  /\ Count(x, q)' = Count(x, q)
               /\ Heir(x, q)' <=> Heir(x, q)
               /\ pc[x] = "dead" => pc'[x] = "dead"
    <3>1. (pc'[x] = "held" <=> pc[x] = "held") /\ (pc[x] = "dead" => pc'[x] = "dead")
      BY <1>2
    <3> QED
      BY <1>1, <3>1, TimerMakesNoHeir DEF Count
  <2>2. Walked(q) => Walked(q)'
    BY <1>2 DEF Walked
  <2> QED
    BY Zenon, <1>1, <1>2, <2>1, <2>2, QueueStands
<1> QED
  BY <1>3, <1>4

-----------------------------------------------------------------------------
(* Steps that leave every lock as it was. *)

\* The facts about functions that the steps below update.
LEMMA Shapes ==
  ASSUME MutexInv
  PROVE  /\ IInv /\ LockInv /\ pc \in [Actors -> ThreadPC \cup TimerPC] /\ Threads \subseteq Actors
         /\ cur \in [Threads -> Queues \cup {None}] /\ idx \in [Threads -> Nat]
         /\ where \in [Threads -> Queues \cup {None}] /\ bq \in [Queues -> Seq(Threads)]
         /\ state \in [Threads -> ThreadState]
         /\ DOMAIN call = Threads /\ owner \in [Queues -> Threads \cup {None, Fence}]
         /\ counter \in [Queues -> Nat] /\ depth \in [Threads -> [Queues -> Nat]]
BY DEF MutexInv, MutexTypeOK, IInv, TypeOK, Actors

\* The thread leaves its call without the lock.
LEMMA LeavesQuietly ==
  ASSUME MutexInv, IInv', NEW t \in Threads, ThreadStep(t) \/ ClientStep(t) \/ SchedStep(t),
         UNCHANGED <<owner, counter, depth>>, Leaves(t), pc'[t] \in {"run", "dead"},
         ~(pc[t] = "held" /\ call[t].op = "release"), pc[t] # "walk",
         pc[t] = "ready" => pc'[t] = "dead" \/ timedOut[t]
  PROVE  (\A x \in Threads : CallInv(x)') /\ (\A q \in Queues : QueueInv(q)')
<1>1. call'[t] = Idle /\ call'[t].op = "none" /\ \A x \in Threads : x # t => call'[x] = call[x]
  BY Zenon, Shapes DEF Leaves, Idle
<1>2. CallInv(t)'
  BY <1>1, CallOver
<1>3. Dispatch(t) => pc'[t] = "dead" \/ \A q \in Queues : ~Heir(t, q)
  BY DEF Dispatch, Heir
<1>4. pc'[t] # "held" /\ pc'[t] # "suspended"
  OBVIOUS
<1> QED
  BY Zenon, <1>1, <1>2, <1>3, <1>4, QuietStep

\* acquire() takes bLock, goes to sleep or gives up.
LEMMA WaitSteps ==
  ASSUME MutexInv, IInv', NEW t \in Threads, ThreadStep(t) \/ ClientStep(t) \/ SchedStep(t),
         AcquireLock(t) \/ Wait(t) \/ WaitTimed(t)
  PROVE  (\A x \in Threads : CallInv(x)') /\ (\A q \in Queues : QueueInv(q)')
<1>1. UNCHANGED <<owner, counter, depth>> /\ CallInv(t)
  BY DEF AcquireLock, Wait, WaitTimed, mutexvars, MutexInv
<1>2. PICK q : q = call[t].q
  OBVIOUS
<1>3. call[t].op = "acquire" /\ q \in Queues /\ depth[t][q] = 0
  BY Zenon, <1>1, <1>2 DEF AcquireLock, Wait, WaitTimed, TimedBlock, Holds, CallInv
<1>4. pc[t] \in {"run", "held", "held2", "missed"} /\ ~Dispatch(t) /\ ~TryUnblock(t)
  BY Zenon DEF AcquireLock, Acquire, Wait, WaitTimed, TimedBlock, Holds, Dispatch, TryUnblock
<1>5. ASSUME Leaves(t), pc'[t] = "run"
      PROVE  (\A x \in Threads : CallInv(x)') /\ (\A r \in Queues : QueueInv(r)')
  BY Zenon, <1>1, <1>3, <1>4, <1>5, LeavesQuietly
<1>6. ASSUME UNCHANGED call,
             \/ pc'[t] = "held"
             \/ pc'[t] \in {"spinTimeout", "held2"} /\ cur'[t] = q /\ owner[q] # None
             \/ pc'[t] = "suspended" /\ where'[t] = q /\ owner[q] # None
      PROVE  (\A x \in Threads : CallInv(x)') /\ (\A r \in Queues : QueueInv(r)')
  <2>1. CallInv(t)'
    BY Zenon, <1>1, <1>2, <1>3, <1>6 DEF CallInv, CancelPC
  <2> QED
    BY Zenon, <1>1, <1>2, <1>3, <1>4, <1>6, <2>1, QuietStep
<1>7. CASE AcquireLock(t)
  BY Zenon, <1>6, <1>7, Shapes DEF AcquireLock, Acquire, Goto, mutexvars
<1>8. CASE Wait(t)
  <2>1. owner[q] # None
    BY Zenon, <1>2, <1>8 DEF Wait
  <2>2. CASE Release(t, LockOf[q]) /\ Leaves(t)
    BY Zenon, <1>5, <2>2, Shapes DEF Release, Goto
  <2>3. CASE Block(t, q) /\ (IF MayBlock(t) THEN UNCHANGED call ELSE Leaves(t))
    BY Zenon, <1>5, <1>6, <2>1, <2>3, Shapes DEF Block, Suspend, Goto
  <2>4. CASE (\E d \in Timeouts : StartTimedBlock(t, q, d)) /\ UNCHANGED call
    BY Zenon, <1>6, <2>1, <2>4, Shapes DEF StartTimedBlock, Goto
  <2>5. call[t].timeout \in Timeouts
    BY DEF MutexInv, MutexTypeOK
  <2> QED
    BY Zenon, <1>2, <1>8, <2>2, <2>3, <2>4, <2>5 DEF Wait
<1>9. CASE WaitTimed(t)
  <2>1. owner[q] # None /\ cur[t] = q
    BY Zenon, <1>1, <1>2, <1>9 DEF WaitTimed, TimedBlock, CallInv
  <2> QED
    BY <1>5, <1>6, <1>9, <2>1, Shapes DEF WaitTimed, TimedBlock, Suspend, Goto
<1> QED
  BY <1>7, <1>8, <1>9

\* What a thread does between calls, or returning from them: a waker resumes the
\* thread it has won, a process exits, a thread finishes.
LEMMA OutsideSteps ==
  ASSUME MutexInv, IInv', NEW t \in Threads, ThreadStep(t) \/ ClientStep(t) \/ SchedStep(t),
         ReleaseWake(t) \/ Finishes(t) \/ (call[t] = Idle /\ ExitStep(t) /\ UNCHANGED mutexvars)
  PROVE  (\A x \in Threads : CallInv(x)') /\ (\A q \in Queues : QueueInv(q)')
<1>1. UNCHANGED <<owner, counter, depth>> /\ CallInv(t)
  BY Zenon DEF ReleaseWake, Finishes, mutexvars, MutexInv
<1>2. CASE ReleaseWake(t)
  <2>1. victim[t] # t /\ pc[t] = "resume"
    BY Zenon, <1>2, Shapes, WonThread DEF ReleaseWake, Wake, WakePC
  <2>2. pc'[t] = "run" /\ Leaves(t)
    BY Zenon, <1>2, <2>1, Shapes DEF ReleaseWake, Wake
  <2> QED
    BY Zenon, <1>1, <2>1, <2>2, LeavesQuietly
<1>3. CASE Finishes(t)
  BY Zenon, <1>1, <1>3, Shapes, LeavesQuietly DEF Finishes, FinishCancelled, Terminate, Goto, Preemptible
<1>4. CASE call[t] = Idle /\ ExitStep(t) /\ UNCHANGED mutexvars
  <2>1. UNCHANGED call /\ call[t].op = "none" /\ pc[t] \in {"run", "held", "missed"}
    <3>1. UNCHANGED call /\ call[t].op = "none"
      BY <1>4 DEF mutexvars, Idle
    <3>2. pc[t] \in {"run", "held", "missed"}
      BY Zenon, <1>4 DEF ExitStep, Acquire, Release, Cancel
    <3> QED
      BY Zenon, <3>1, <3>2
  <2>2. ~Dispatch(t) /\ ~TryUnblock(t) /\ pc[t] # "walk"
    BY Zenon, <2>1 DEF Dispatch, TryUnblock
  <2>3. pc'[t] \in {"run", "held"} \cup CancelPC
    BY Zenon, <1>4, Shapes DEF ExitStep, Acquire, Release, Cancel, Goto, AfterTimeout, CancelPC
  <2>4. CallInv(t)' /\ pc'[t] # "suspended"
    BY Zenon, <2>1, <2>3 DEF CallInv, CancelPC
  <2> QED
    BY Zenon, <1>1, <2>1, <2>2, <2>4, QuietStep
<1> QED
  BY <1>2, <1>3, <1>4

\* The steps of the machinery that return to no caller.
LEMMA InsideSteps ==
  ASSUME MutexInv, IInv', NEW t \in Threads, ThreadStep(t) \/ ClientStep(t) \/ SchedStep(t),
         Inside(t), UNCHANGED mutexvars
  PROVE  (\A x \in Threads : CallInv(x)') /\ (\A q \in Queues : QueueInv(q)')
<1>1. UNCHANGED <<owner, counter, depth>> /\ UNCHANGED call /\ CallInv(t)
  BY DEF mutexvars, MutexInv
<1>2. ~Dispatch(t) /\ (pc[t] = "walk" => ResumeMisses(t))
  BY Zenon DEF Inside, AcquireTimeoutLock, ResumeMisses, CancelTimeout, CancelBlocking, Wake, Dispatch
<1>3. ASSUME CallInv(t)', pc'[t] # "suspended", ~(pc[t] = "held"), ~(pc'[t] = "held" /\ call[t].op = "release"),
             pc[t] = "walk" => owner[cur[t]] = Fence /\ ~TryUnblock(t)
      PROVE  (\A x \in Threads : CallInv(x)') /\ (\A q \in Queues : QueueInv(q)')
  BY Zenon, <1>1, <1>2, <1>3, QuietStep
<1>4. CASE AcquireTimeoutLock(t)
  <2>1. pc[t] = "spinTimeout" /\ pc'[t] = "held2" /\ cur'[t] = cur[t]
    BY Zenon, <1>4, Shapes DEF AcquireTimeoutLock, Goto, walk
  <2>2. CallInv(t)'
    BY Zenon, <1>1, <2>1 DEF CallInv, CancelPC
  <2> QED
    BY Zenon, <1>3, <2>1, <2>2
<1>5. CASE ResumeMisses(t)
  <2>1. PICK q \in Queues : q = cur[t] /\ call[t].q = q
    BY Zenon, <1>1, <1>5, WalkedIsFree DEF ResumeMisses
  <2>2. /\ pc[t] = "walk" /\ pc'[t] = "missed" /\ idx[t] > Len(bq[q])
        /\ UNCHANGED lock /\ UNCHANGED bq /\ UNCHANGED state
    BY <1>5, <2>1, Shapes DEF ResumeMisses, Goto
  <2>3. bq[q] \in Seq(Threads) /\ idx[t] \in Nat /\ lock[LockOf[q]] = t
    BY <2>1, <2>2, Shapes DEF LockInv
  <2>4. ~(idx[t] <= Len(bq[q])) /\ \A j \in 1..Len(bq[q]) : j < idx[t]
    <3>1. \A i, n \in Nat : i > n => ~(i <= n) /\ \A j \in 1..n : j < i
      OBVIOUS
    <3>2. Len(bq[q]) \in Nat
      BY Zenon, <2>3, SeqLength
    <3> QED
      BY Zenon, <2>2, <2>3, <3>1, <3>2
  <2>5. call[t].op = "release" /\ owner[q] = Fence /\ \A j \in 1..Len(bq[q]) : state[bq[q][j]] # "Blocked"
    BY Zenon, <1>1, <2>1, <2>2, <2>4 DEF CallInv, At
  <2>6. CallInv(t)'
    BY <1>1, <2>1, <2>2, <2>3, <2>5 DEF CallInv, CancelPC
  <2>7. ~TryUnblock(t)
    BY Zenon, <2>1, <2>4 DEF TryUnblock
  <2> QED
    BY Zenon, <1>3, <2>1, <2>2, <2>5, <2>6, <2>7
<1>6. CASE CancelTimeout(t, "cancelTimeout", "resume")
  <2>1. pc[t] = "cancelTimeout" /\ pc'[t] = "resume"
    BY Zenon, <1>6, Shapes DEF CancelTimeout, Goto
  <2>2. CallInv(t)'
    BY Zenon, <1>1, <2>1 DEF CallInv, CancelPC
  <2> QED
    BY Zenon, <1>3, <2>1, <2>2
<1>7. CASE \/ CancelTimeout(t, "xCancelTimeout", AfterTimeout(victim[t]))
           \/ CancelBlocking(t) \/ Wake(t, "xResume", "held")
  <2>1. pc[t] \in CancelPC
    BY Zenon, <1>7 DEF CancelTimeout, CancelBlocking, Wake, CancelPC
  <2>2. victim[t] # t
    BY Zenon, <2>1, Shapes, WonThread DEF WakePC
  <2>3. pc'[t] \in {"held"} \cup CancelPC
    BY Zenon, <1>7, <2>2, Shapes DEF CancelTimeout, CancelBlocking, Wake, Goto, AfterTimeout, CancelPC
  <2>4. call[t].op = "none" /\ call'[t].op = "none"
    BY Zenon, <1>1, <2>1 DEF CallInv
  <2>5. CallInv(t)' /\ pc[t] \notin {"held", "walk"} /\ pc'[t] # "suspended"
    BY Zenon, <2>1, <2>3, <2>4 DEF CallInv, CancelPC
  <2> QED
    BY Zenon, <1>3, <2>4, <2>5
<1> QED
  BY Zenon, <1>4, <1>5, <1>6, <1>7 DEF Inside

\* release() takes bLock: the acquisition it undoes still counts.
LEMMA ReleaseStarts ==
  ASSUME MutexInv, IInv', NEW t \in Threads, ThreadStep(t) \/ ClientStep(t) \/ SchedStep(t),
         NEW r \in Queues, CallRelease(t, r)
  PROVE  (\A x \in Threads : CallInv(x)') /\ (\A q \in Queues : QueueInv(q)')
<1>1. /\ UNCHANGED <<owner, counter>> /\ pc[t] = "run" /\ pc'[t] = "held"
      /\ call'[t].op = "release" /\ call'[t].q = r
      /\ depth[t][r] \in Nat /\ depth[t][r] > 0 /\ depth'[t] = [depth[t] EXCEPT ![r] = @ - 1]
      /\ \A x \in Threads : x # t => call'[x] = call[x] /\ depth'[x] = depth[x]
  BY Shapes DEF CallRelease, Acquire, Goto
<1>2. CallInv(t)'
  BY Zenon, <1>1 DEF CallInv, CancelPC
<1>3. \A x \in Threads : CallInv(x)'
  BY Zenon, <1>1, <1>2, OthersStand
<1>4. ASSUME NEW q \in Queues PROVE QueueInv(q)'
  <2>1. Count(t, q)' = Count(t, q)
    <3>1. depth \in [Threads -> [Queues -> Nat]]
      BY Zenon, Shapes
    <3>2. depth[t] \in [Queues -> Nat] /\ depth[t][q] \in Nat
      BY <3>1
    <3>3. Count(t, q) = depth[t][q] + 0
      BY <1>1 DEF Count
    <3>4. Count(t, q)' = depth'[t][q] + (IF q = r THEN 1 ELSE 0)
      BY <1>1 DEF Count
    <3>5. depth'[t][q] = IF q = r THEN depth[t][q] - 1 ELSE depth[t][q]
      BY <1>1, <3>2
    <3> QED
      BY <3>2, <3>3, <3>4, <3>5
  <2>2. ~Dispatch(t) /\ pc[t] # "walk" /\ pc'[t] # "suspended"
    BY Zenon, <1>1 DEF Dispatch
  <2> QED
    BY Zenon, <1>1, <2>1, <2>2, Quiet
<1> QED
  BY <1>3, <1>4

-----------------------------------------------------------------------------
(* Steps that change who holds a lock. *)

\* A lock that t holds, or that is free, is held by nobody else and has no other
\* heir; that remains so through a step of t that wins no thread.
LEMMA HeldAlone ==
  ASSUME MutexInv, NEW t \in Threads, NEW q \in Queues, owner[q] \in {t, None},
         UNCHANGED bsvars \/ ((ThreadStep(t) \/ ClientStep(t) \/ SchedStep(t)) /\ ~TryUnblock(t)),
         \A x \in Threads : x # t => call'[x] = call[x] /\ depth'[x] = depth[x],
         NEW x \in Threads, x # t
  PROVE  Count(x, q)' = 0 /\ ~Heir(x, q)'
<1>1. Count(x, q) = 0 /\ ~Heir(x, q)
  <2>1. QueueInv(q)
    BY Zenon DEF MutexInv
  <2>2. owner[q] # x /\ Count(x, q) \in Nat
    BY ConstantsAssumption, Shapes DEF Count
  <2>3. ~(Count(x, q) > 0) /\ ~Heir(x, q)
    BY Zenon, <2>1, <2>2 DEF QueueInv
  <2> QED
    BY <2>2, <2>3
<1>2. CASE UNCHANGED bsvars
  BY Zenon, <1>1, <1>2 DEF bsvars, Count, Heir, OnQueue
<1>3. CASE (ThreadStep(t) \/ ClientStep(t) \/ SchedStep(t)) /\ ~TryUnblock(t)
  <2>1. (pc'[x] = "held" <=> pc[x] = "held") /\ call'[x] = call[x] /\ depth'[x] = depth[x]
    BY Zenon, <1>3, Shapes, Bystander
  <2>2. Heir(x, q)' => Heir(x, q) \/ TryUnblock(t)
    BY Zenon, <1>3, Shapes, HeirStep
  <2> QED
    BY Zenon, <1>1, <1>3, <2>1, <2>2 DEF Count
<1> QED
  BY <1>2, <1>3

\* The lock of which t has just made or undone an acquisition, and still has
\* some.
LEMMA Holding ==
  ASSUME NEW t \in Threads, NEW q \in Queues, owner'[q] = t, pc'[t] = "run",
         Count(t, q)' \in Nat \ {0}, q \notin Recursive => Count(t, q)' = 1,
         counter'[q] = IF q \in Recursive THEN Count(t, q)' ELSE 0,
         \A x \in Threads : x # t => Count(x, q)' = 0 /\ ~Heir(x, q)'
  PROVE  QueueInv(q)'
<1>1. t # None
  BY ConstantsAssumption
<1> QED
  BY <1>1 DEF QueueInv

\* The lock that t found free, or of which it is the heir, or that it had.
LEMMA AcquiredHolds ==
  ASSUME MutexInv, NEW t \in Threads, NEW q \in Queues, Acquired(t, q), owner'[q] = t, pc'[t] = "run",
         owner[q] \in {t, None}, pc[t] # "held" \/ call[t].op # "release",
         q \in Recursive \/ depth[t][q] = 0,
         counter[q] = IF q \in Recursive THEN depth[t][q] ELSE 0,
         UNCHANGED bsvars \/ ((ThreadStep(t) \/ ClientStep(t) \/ SchedStep(t)) /\ ~TryUnblock(t))
  PROVE  QueueInv(q)' /\ CallInv(t)'
<1>1. /\ depth'[t][q] = depth[t][q] + 1 /\ depth[t][q] \in Nat /\ call'[t] = Idle
      /\ \A x \in Threads : x # t => call'[x] = call[x] /\ depth'[x] = depth[x]
  BY Shapes DEF Acquired, Leaves
<1>2. counter'[q] = IF q \in Recursive THEN depth'[t][q] ELSE 0
  BY <1>1, Shapes DEF Acquired
<1>3. Count(t, q)' = depth'[t][q]
  BY <1>1 DEF Count
<1>4. \A x \in Threads : x # t => Count(x, q)' = 0 /\ ~Heir(x, q)'
  BY Zenon, <1>1, HeldAlone
<1>5. CallInv(t)'
  BY <1>1, CallOver
<1> QED
  BY <1>1, <1>2, <1>3, <1>4, <1>5, Holding

\* internalAcquire with its unlocked test of owner.
LEMMA AcquireStarts ==
  ASSUME MutexInv, IInv', NEW t \in Threads, NEW r \in Queues, NEW d \in Timeouts, CallAcquire(t, r, d)
  PROVE  (\A x \in Threads : CallInv(x)') /\ (\A q \in Queues : QueueInv(q)')
<1>1. /\ UNCHANGED owner /\ UNCHANGED bsvars /\ pc[t] = "run" /\ pc'[t] = "run" /\ call[t].op = "none"
      /\ \A x \in Threads : x # t => call'[x] = call[x] /\ depth'[x] = depth[x]
  BY Shapes DEF CallAcquire, Acquired, Leaves, Idle, bsvars
<1>2. (owner[r] = t <=> depth[t][r] > 0) /\ depth[t][r] \in Nat
  BY <1>1, ReadsAreExact, Shapes DEF OwnerReadExact, Preemptible
<1>3. \A x \in Threads : x # t => CallInv(x)'
  BY Zenon, <1>1, CallStands DEF bsvars
<1>4. ASSUME NEW q \in Queues, counter'[q] = counter[q], Count(t, q)' = Count(t, q) PROVE QueueInv(q)'
  <2>1. \A x \in Threads : Count(x, q)' = Count(x, q) /\ (Heir(x, q)' <=> Heir(x, q))
    BY Zenon, <1>1, <1>4 DEF bsvars, Count, Heir, OnQueue
  <2>2. Walked(q)' <=> Walked(q)
    BY Zenon, <1>1 DEF bsvars, Walked
  <2> QED
    BY Zenon, <1>1, <1>4, <2>1, <2>2, QueueStands DEF bsvars
<1>5. CASE owner[r] = t /\ Acquired(t, r)
  <2>1. r \in Recursive /\ counter[r] = depth[t][r]
    <3>1. depth[t][r] > 0 /\ r \in Recursive
      BY <1>2, <1>5 DEF CallAcquire
    <3>2. Count(t, r) = depth[t][r] /\ QueueInv(r)
      BY <1>1, <1>2 DEF Count, MutexInv
    <3> QED
      BY Zenon, <1>5, <3>1, <3>2 DEF QueueInv
  <2>2. QueueInv(r)' /\ CallInv(t)'
    BY Zenon, <1>1, <1>5, <2>1, AcquiredHolds
  <2>3. ASSUME NEW q \in Queues, q # r PROVE counter'[q] = counter[q] /\ Count(t, q)' = Count(t, q)
    <3>1. counter'[q] = counter[q] /\ depth'[t][q] = depth[t][q]
      BY <1>5, <2>3, Shapes DEF Acquired
    <3> QED
      BY Zenon, <1>1, <3>1 DEF Count
  <2> QED
    BY Zenon, <1>3, <1>4, <2>2, <2>3
<1>6. CASE owner[r] # t
  <2>1. /\ call'[t].op = "acquire" /\ call'[t].q = r /\ UNCHANGED counter /\ UNCHANGED depth
        /\ depth[t][r] = 0
    BY <1>2, <1>6, Shapes DEF CallAcquire
  <2>2. CallInv(t)'
    BY Zenon, <1>1, <2>1 DEF CallInv, CancelPC
  <2>3. \A q \in Queues : Count(t, q)' = Count(t, q)
    BY Zenon, <1>1, <2>1 DEF Count
  <2> QED
    BY Zenon, <1>3, <1>4, <2>1, <2>2, <2>3
<1> QED
  BY <1>5, <1>6 DEF CallAcquire

\* A step of t in a call for lock q concerns no other lock and no other thread.
LEMMA OnlyThisLock ==
  ASSUME MutexInv, IInv', NEW t \in Threads, ThreadStep(t) \/ ClientStep(t) \/ SchedStep(t),
         NEW q \in Queues, call[t].q = q, call'[t].op = "release" => call'[t].q = q,
         \A r \in Queues : r # q => owner'[r] = owner[r] /\ counter'[r] = counter[r] /\ depth'[t][r] = depth[t][r],
         \A x \in Threads : x # t => call'[x] = call[x] /\ depth'[x] = depth[x],
         owner'[q] # owner[q] => lock[LockOf[q]] = t,
         pc'[t] # "suspended", pc[t] = "walk" => cur[t] = q, pc[t] = "ready" => where[t] = q,
         CallInv(t)', QueueInv(q)'
  PROVE  (\A x \in Threads : CallInv(x)') /\ (\A r \in Queues : QueueInv(r)')
<1>1. \A x \in Threads : CallInv(x)'
  BY Zenon, OthersStand
<1>2. ASSUME NEW r \in Queues, r # q PROVE QueueInv(r)'
  <2>1. Count(t, r)' = Count(t, r)
    BY Zenon, <1>2 DEF Count
  <2>2. ~(pc[t] = "walk" /\ cur[t] = r)
    BY <1>2
  <2>3. ~(Heir(t, r) /\ Dispatch(t))
    BY Zenon, <1>2 DEF Heir, Dispatch
  <2> QED
    BY Zenon, <1>2, <2>1, <2>2, <2>3, Quiet
<1> QED
  BY <1>1, <1>2

\* acquire() of a free lock.
LEMMA TakeStep ==
  ASSUME MutexInv, IInv', NEW t \in Threads, ThreadStep(t) \/ ClientStep(t) \/ SchedStep(t), Take(t)
  PROVE  (\A x \in Threads : CallInv(x)') /\ (\A q \in Queues : QueueInv(q)')
<1>1. PICK q \in Queues : call[t].q = q /\ depth[t][q] = 0 /\ call[t].op = "acquire"
  BY Zenon DEF Take, Holds, MutexInv, CallInv
<1>2. /\ owner[q] = None /\ owner' = [owner EXCEPT ![q] = t] /\ Acquired(t, q) /\ lock[LockOf[q]] = t
      /\ pc[t] \in {"held", "missed"} /\ pc'[t] = "run"
  BY Zenon, <1>1, Shapes DEF Take, Release, Goto
<1>3. counter[q] = 0
  BY Zenon, <1>1, <1>2, ConstantsAssumption DEF MutexInv, QueueInv
<1>4. owner'[q] = t /\ ~TryUnblock(t)
  BY Zenon, <1>2, Shapes DEF TryUnblock
<1>5. QueueInv(q)' /\ CallInv(t)'
  <2>1. counter[q] = IF q \in Recursive THEN depth[t][q] ELSE 0
    BY <1>1, <1>3
  <2> QED
    BY Zenon, <1>1, <1>2, <1>4, <2>1, AcquiredHolds
<1>6. /\ call'[t].op = "none"
      /\ \A r \in Queues : r # q => owner'[r] = owner[r] /\ counter'[r] = counter[r] /\ depth'[t][r] = depth[t][r]
      /\ \A x \in Threads : x # t => call'[x] = call[x] /\ depth'[x] = depth[x]
  BY <1>2, Shapes DEF Acquired, Leaves, Idle
<1> QED
  BY Zenon, <1>1, <1>2, <1>5, <1>6, OnlyThisLock

\* acquire() returns to a thread that was asleep: with the lock only if a walk
\* had made the thread its heir.
LEMMA ReturnStep ==
  ASSUME MutexInv, IInv', NEW t \in Threads, ThreadStep(t) \/ ClientStep(t) \/ SchedStep(t), Return(t)
  PROVE  (\A x \in Threads : CallInv(x)') /\ (\A q \in Queues : QueueInv(q)')
<1>1. pc[t] = "ready" /\ UNCHANGED owner /\ pc'[t] = (IF state[t] = "Cancelled" THEN "dead" ELSE "run")
  BY Zenon, Shapes DEF Return, Dispatch, Goto
<1>2. CASE state[t] = "Cancelled" \/ timedOut[t]
  BY Zenon, <1>1, <1>2, LeavesQuietly DEF Return
<1>3. CASE ~(state[t] = "Cancelled" \/ timedOut[t])
  <2>1. PICK q \in Queues : /\ call[t].q = q /\ depth[t][q] = 0 /\ call[t].op = "acquire"
                            /\ where[t] = q /\ Acquired(t, q)
    BY Zenon, <1>1, <1>3 DEF MutexInv, CallInv, Return
  <2>2. Heir(t, q)
    <3>1. ~OnQueue(q, t)
      BY Zenon, <1>1, Shapes DEF IInv, Core, NoStaleLinks, OnQueue
    <3> QED
      BY Zenon, <1>1, <1>3, <2>1, <3>1 DEF Heir
  <2>3. owner[q] = t /\ counter[q] = IF q \in Recursive THEN depth[t][q] ELSE 0
    <3>1. QueueInv(q) /\ Count(t, q) = depth[t][q]
      BY <1>1, <2>1 DEF MutexInv, Count
    <3> QED
      BY Zenon, <2>1, <2>2, <3>1 DEF QueueInv
  <2>4. QueueInv(q)' /\ CallInv(t)'
    <3>1. ~TryUnblock(t) /\ pc'[t] = "run" /\ owner'[q] = t
      BY Zenon, <1>1, <1>3, <2>3 DEF TryUnblock
    <3> QED
      BY Zenon, <1>1, <2>1, <2>3, <3>1, AcquiredHolds
  <2>5. /\ call'[t].op = "none"
        /\ \A r \in Queues : r # q => counter'[r] = counter[r] /\ depth'[t][r] = depth[t][r]
        /\ \A x \in Threads : x # t => call'[x] = call[x] /\ depth'[x] = depth[x]
    BY <2>1, Shapes DEF Acquired, Leaves, Idle
  <2> QED
    BY Zenon, <1>1, <1>3, <2>1, <2>4, <2>5, OnlyThisLock
<1> QED
  BY Zenon, <1>2, <1>3

\* Inside release() the caller is the owner, and the counter is the number of
\* its acquisitions, the one about to be undone included.
LEMMA ReleaserHolds ==
  ASSUME MutexInv, NEW t \in Threads, pc[t] = "held", call[t].op = "release"
  PROVE  /\ call[t].q \in Queues /\ owner[call[t].q] = t /\ depth[t][call[t].q] \in Nat
         /\ call[t].q \notin Recursive => depth[t][call[t].q] = 0 /\ counter[call[t].q] = 0
         /\ call[t].q \in Recursive => counter[call[t].q] = depth[t][call[t].q] + 1
<1>1. PICK q \in Queues : call[t].q = q
  BY Zenon DEF MutexInv, CallInv
<1>2. depth[t][q] \in Nat /\ Count(t, q) = depth[t][q] + 1 /\ QueueInv(q)
  BY <1>1, Shapes DEF Count, MutexInv
<1>3. owner[q] = t
  BY <1>2 DEF QueueInv
<1> QED
  BY <1>1, <1>2, <1>3 DEF QueueInv

\* OwnerLock::release of an inner acquisition.
LEMMA ReleaseInnerStep ==
  ASSUME MutexInv, IInv', NEW t \in Threads, ThreadStep(t) \/ ClientStep(t) \/ SchedStep(t), ReleaseInner(t)
  PROVE  (\A x \in Threads : CallInv(x)') /\ (\A q \in Queues : QueueInv(q)')
<1>1. pc[t] = "held" /\ call[t].op = "release"
  BY Zenon DEF ReleaseInner, Holds
<1>2. PICK q \in Queues : /\ call[t].q = q /\ owner[q] = t /\ depth[t][q] \in Nat
                          /\ q \in Recursive /\ counter[q] = depth[t][q] + 1
  BY Zenon, <1>1, ReleaserHolds DEF ReleaseInner
<1>3. /\ counter[q] > 1 /\ counter' = [counter EXCEPT ![q] = @ - 1] /\ UNCHANGED <<owner, depth>> /\ Leaves(t)
      /\ pc'[t] = "run"
  BY Zenon, <1>2, Shapes DEF ReleaseInner, Release, Goto
<1>4. call'[t] = Idle /\ call'[t].op = "none" /\ \A x \in Threads : x # t => call'[x] = call[x]
  BY Zenon, <1>3, Shapes DEF Leaves, Idle
<1>5. Count(t, q)' = depth[t][q] /\ depth[t][q] # 0 /\ counter'[q] = depth[t][q]
  BY <1>2, <1>3, <1>4, Shapes DEF Count
<1>6. QueueInv(q)'
  <2>1. \A x \in Threads : x # t => Count(x, q)' = 0 /\ ~Heir(x, q)'
    BY Zenon, <1>1, <1>2, <1>3, <1>4, HeldAlone DEF TryUnblock
  <2> QED
    BY Zenon, <1>2, <1>3, <1>5, <2>1, Holding
<1>7. CallInv(t)'
  BY Zenon, <1>3, <1>4, CallOver
<1> QED
  BY Zenon, <1>1, <1>2, <1>3, <1>4, <1>6, <1>7, Shapes, OnlyThisLock

\* A lock after a step that leaves it held by nobody.
LEMMA NobodyHolds ==
  ASSUME NEW q \in Queues, NEW o, owner'[q] = o, counter'[q] = 0,
         \A x \in Threads : Count(x, q)' = 0 /\ (Heir(x, q)' => o = x),
         o \in Threads => Heir(o, q)' \/ Walked(q)',
         o = None => \A x \in Range(bq'[q]) : state'[x] # "Blocked"
  PROVE  QueueInv(q)'
<1>1. ~(0 > 0)
  OBVIOUS
<1> QED
  BY Zenon, <1>1 DEF QueueInv

\* A lock that is walked, after a step of the walker: held by nobody, and its
\* owner field names a waiting thread or the fence.
LEMMA WalkGoesOn ==
  ASSUME MutexInv, NEW t \in Threads, NEW q \in Queues, pc'[t] = "walk", cur'[t] = q,
         \A x \in Threads : Count(x, q)' = 0 /\ ~Heir(x, q)', counter'[q] = 0,
         NEW i \in Nat, owner'[q] = At(q, i), i >= 1
  PROVE  QueueInv(q)'
<1>1. owner'[q] # None
  <2>1. i <= Len(bq[q]) => bq[q][i] \in Threads
    BY Shapes
  <2> QED
    BY <2>1, ConstantsAssumption, MutexAssumption DEF At
<1>2. Walked(q)'
  BY DEF Walked
<1> QED
  BY Zenon, <1>1, <1>2, NobodyHolds

\* release() of the last acquisition starts to walk the queue.
LEMMA ReleaseOuterStep ==
  ASSUME MutexInv, IInv', NEW t \in Threads, ThreadStep(t) \/ ClientStep(t) \/ SchedStep(t), ReleaseOuter(t)
  PROVE  (\A x \in Threads : CallInv(x)') /\ (\A q \in Queues : QueueInv(q)')
<1>1. pc[t] = "held" /\ call[t].op = "release"
  BY Zenon DEF ReleaseOuter, Holds
<1>2. PICK q \in Queues : call[t].q = q /\ owner[q] = t /\ depth[t][q] = 0 /\ (q \notin Recursive => counter[q] = 0)
  BY <1>1, ReleaserHolds DEF ReleaseOuter
<1>3. /\ counter' = (IF q \in Recursive THEN [counter EXCEPT ![q] = 0] ELSE counter)
      /\ owner' = [owner EXCEPT ![q] = At(q, 1)] /\ UNCHANGED <<call, depth>>
      /\ pc'[t] = "walk" /\ cur'[t] = q /\ idx'[t] = 1 /\ UNCHANGED bq /\ lock[LockOf[q]] = t
  BY Zenon, <1>2, Shapes DEF ReleaseOuter, StartResume, Goto
<1>4. /\ owner'[q] = At(q, 1) /\ counter'[q] = 0
      /\ \A r \in Queues : r # q => owner'[r] = owner[r] /\ counter'[r] = counter[r]
  BY Zenon, <1>2, <1>3, Shapes
<1>5. CallInv(t)'
  <2>1. At(q, idx[t])' = At(q, 1)
    BY Zenon, <1>3 DEF At
  <2>2. \A j \in 1..Len(bq'[q]) : ~(j < idx'[t])
    BY Zenon, <1>3, FirstPlace
  <2> QED
    BY Zenon, <1>1, <1>2, <1>3, <1>4, <2>1, <2>2 DEF CallInv, CancelPC
<1>6. QueueInv(q)'
  <2>1. ASSUME NEW x \in Threads PROVE Count(x, q)' = 0 /\ ~Heir(x, q)'
    <3>1. CASE x # t
      BY Zenon, <1>1, <1>2, <1>3, <3>1, HeldAlone DEF TryUnblock
    <3>2. CASE x = t
      <4>1. "walk" # "held" /\ "walk" # "suspended" /\ 0 + 0 = 0
        OBVIOUS
      <4>2. pc'[x] = "walk" /\ depth'[x][q] = 0
        BY Zenon, <1>2, <1>3, <3>2
      <4> QED
        BY Zenon, <4>1, <4>2 DEF Count, Heir
    <3> QED
      BY <3>1, <3>2
  <2>2. 1 \in Nat /\ 1 >= 1
    OBVIOUS
  <2> QED
    BY Zenon, <1>2, <1>3, <1>4, <2>1, <2>2, WalkGoesOn
<1> QED
  BY Zenon, <1>1, <1>2, <1>3, <1>4, <1>5, <1>6, OnlyThisLock

\* One iteration of resume(): the walk moves the owner field on, or it stops at
\* the thread it has won, which the field then names.
LEMMA WalkStep ==
  ASSUME MutexInv, IInv', NEW t \in Threads, ThreadStep(t) \/ ClientStep(t) \/ SchedStep(t), Walk(t)
  PROVE  (\A x \in Threads : CallInv(x)') /\ (\A q \in Queues : QueueInv(q)')
<1>1. TryUnblock(t) /\ pc[t] = "walk" /\ UNCHANGED <<counter, call, depth>> /\ CallInv(t)
  BY Zenon DEF Walk, TryUnblock, MutexInv
<1>2. PICK q \in Queues : /\ q = cur[t] /\ q = call[t].q /\ counter[q] = 0
                          /\ \A x \in Threads : Count(x, q) = 0 /\ ~Heir(x, q)
  BY Zenon, <1>1, WalkedIsFree
<1>3. PICK i \in Nat : i = idx[t] /\ i >= 1 /\ i <= Len(bq[q])
  BY Zenon, <1>1, <1>2, Shapes DEF TryUnblock, IInv, TypeOK
<1>4. PICK w \in Threads : w = bq[q][i] /\ w \in Range(bq[q])
  BY <1>2, <1>3, Shapes DEF Range
<1>5. /\ call[t].op = "release" /\ owner[q] = w
      /\ \A j \in 1..Len(bq[q]) : j < i => state[bq[q][j]] # "Blocked"
  BY Zenon, <1>1, <1>2, <1>3, <1>4 DEF CallInv, At
<1>6. pc[w] = "suspended" /\ where[w] = q /\ w # t
  BY <1>1, <1>4, Shapes DEF IInv, Core, NoStaleLinks
<1>7. ASSUME NEW x \in Threads, pc'[t] # "held" PROVE Count(x, q)' = 0 /\ (x # w => ~Heir(x, q)')
  <2>1. x # t => (pc'[x] = "held" <=> pc[x] = "held")
    BY Zenon, Shapes, Bystander
  <2>2. Count(x, q)' = Count(x, q)
    BY Zenon, <1>1, <1>7, <2>1 DEF Count
  <2>3. Heir(x, q)' => Heir(x, q) \/ x = bq[q][idx[t]]
    BY Zenon, Shapes, HeirStep
  <2> QED
    BY Zenon, <1>2, <1>3, <1>4, <2>2, <2>3
<1>8. CASE state[w] = "Blocked"
  <2>1. /\ pc' = [pc EXCEPT ![t] = IF timed[w] THEN "cancelTimeout" ELSE "resume"]
        /\ bq' = [bq EXCEPT ![q] = Unlink(bq[q], w)] /\ UNCHANGED where /\ UNCHANGED timedOut
    BY Zenon, <1>1, <1>2, <1>3, <1>4, <1>8 DEF TryUnblock, Goto, info
  <2>2. pc'[t] \in {"cancelTimeout", "resume"} /\ pc'[w] = "suspended"
    BY Zenon, <1>6, <2>1, Shapes
  <2>3. UNCHANGED owner
    BY <1>2, <2>2, Shapes DEF Walk
  <2>4. CallInv(t)'
    BY Zenon, <1>1, <1>2, <1>5, <2>2 DEF CallInv, CancelPC
  <2>5. Heir(w, q)'
    <3>0. bq[q] \in Seq(Threads) /\ IsInjective(bq[q]) /\ bq'[q] = Unlink(bq[q], w)
      BY Zenon, <2>1, Shapes DEF IInv, Core, NoStaleLinks
    <3>1. w \notin Range(bq'[q])
      <4>1. Range(Unlink(bq[q], w)) = Range(bq[q]) \ {w}
        BY Zenon, <1>4, <3>0, RemoveElement
      <4> QED
        BY Zenon, <3>0, <4>1
    <3>2. ~timedOut[w]
      BY Zenon, <1>8 DEF MutexInv, FreshWait
    <3> QED
      BY Zenon, <1>6, <2>1, <2>2, <3>1, <3>2 DEF Heir, OnQueue
  <2>6. QueueInv(q)'
    <3>1. \A x \in Threads : Count(x, q)' = 0 /\ (x # w => ~Heir(x, q)')
      BY Zenon, <1>7, <2>2
    <3> QED
      BY Zenon, <1>1, <1>2, <1>5, <2>3, <2>5, <3>1, ConstantsAssumption, NobodyHolds
  <2> QED
    BY Zenon, <1>1, <1>2, <2>2, <2>3, <2>4, <2>6, OnlyThisLock
<1>9. CASE state[w] # "Blocked"
  <2>1. /\ idx' = [idx EXCEPT ![t] = i + 1] /\ UNCHANGED bq /\ UNCHANGED state
        /\ UNCHANGED pc /\ UNCHANGED cur
    BY Zenon, <1>1, <1>2, <1>3, <1>4, <1>9 DEF TryUnblock
  <2>2. idx'[t] = i + 1 /\ owner' = [owner EXCEPT ![q] = At(q, i + 1)]
    BY Zenon, <1>1, <1>2, <2>1, Shapes DEF Walk
  <2>3. owner'[q] = At(q, i + 1) /\ lock[LockOf[q]] = t /\ \A r \in Queues : r # q => owner'[r] = owner[r]
    BY Zenon, <1>1, <1>2, <2>2, Shapes DEF LockInv
  <2>4. CallInv(t)'
    <3>0. idx'[t] = i + 1 /\ bq' = bq
      BY Zenon, <2>1, <2>2
    <3>1. At(q, idx[t])' = At(q, i + 1)
      BY Zenon, <3>0 DEF At
    <3>2. \A j \in 1..Len(bq[q]) : j < i + 1 => state[bq[q][j]] # "Blocked"
      BY Zenon, <1>4, <1>5, <1>9, NextPlace
    <3>3. pc'[t] = "walk" /\ cur'[t] = q /\ owner'[q] = At(q, idx[t])'
      BY Zenon, <1>1, <1>2, <2>1, <2>3, <3>1
    <3>4. \A j \in 1..Len(bq'[q]) : j < idx'[t] => state'[bq'[q][j]] # "Blocked"
      BY Zenon, <2>1, <2>2, <3>2
    <3>5. call'[t] = call[t] /\ depth'[t] = depth[t] /\ call[t].q = q
      BY Zenon, <1>1, <1>2
    <3> QED
      BY Zenon, <1>1, <1>5, <3>3, <3>4, <3>5 DEF CallInv, CancelPC
  <2>5. QueueInv(q)'
    <3>1. \A x \in Threads : Count(x, q)' = 0 /\ ~Heir(x, q)'
      <4>1. ~Heir(w, q)'
        BY Zenon, <1>4, <2>1 DEF Heir, OnQueue
      <4> QED
        BY <1>1, <1>7, <2>1, <4>1
    <3>2. pc'[t] = "walk" /\ cur'[t] = q /\ counter'[q] = 0
      BY Zenon, <1>1, <1>2, <2>1
    <3>3. i + 1 \in Nat /\ i + 1 >= 1
      BY <1>3
    <3> QED
      BY Zenon, <2>3, <3>1, <3>2, <3>3, WalkGoesOn
  <2> QED
    BY Zenon, <1>1, <1>2, <2>1, <2>3, <2>4, <2>5, OnlyThisLock
<1> QED
  BY Zenon, <1>8, <1>9

\* release() found nobody to hand the lock to.
LEMMA ReleaseFreeStep ==
  ASSUME MutexInv, IInv', NEW t \in Threads, ThreadStep(t) \/ ClientStep(t) \/ SchedStep(t), ReleaseFree(t)
  PROVE  (\A x \in Threads : CallInv(x)') /\ (\A q \in Queues : QueueInv(q)')
<1>1. pc[t] = "missed" /\ call[t].op = "release" /\ UNCHANGED <<counter, depth>> /\ Leaves(t)
  BY Zenon DEF ReleaseFree, Holds
<1>2. PICK q \in Queues : /\ call[t].q = q /\ owner[q] = Fence /\ lock[LockOf[q]] = t
                          /\ \A j \in 1..Len(bq[q]) : state[bq[q][j]] # "Blocked"
  BY Zenon, <1>1 DEF MutexInv, CallInv
<1>3. owner' = [owner EXCEPT ![q] = None] /\ pc'[t] = "run" /\ UNCHANGED bq /\ UNCHANGED state
  BY Zenon, <1>2, Shapes DEF ReleaseFree, Release, Goto
<1>4. /\ call'[t] = Idle /\ call'[t].op = "none" /\ (\A x \in Threads : x # t => call'[x] = call[x])
      /\ owner'[q] = None /\ \A r \in Queues : r # q => owner'[r] = owner[r]
  BY Zenon, <1>1, <1>3, Shapes DEF Leaves, Idle
<1>5. CallInv(t)'
  BY Zenon, <1>3, <1>4, CallOver
<1>6. ASSUME NEW x \in Threads PROVE Count(x, q)' = 0 /\ ~Heir(x, q)'
  <2>1. QueueInv(q) /\ Fence # x /\ Count(x, q) \in Nat
    <3>1. QueueInv(q)
      BY Zenon DEF MutexInv
    <3>2. Fence # x
      BY Zenon, MutexAssumption
    <3>3. Count(x, q) \in Nat
      BY Shapes DEF Count
    <3> QED
      BY Zenon, <3>1, <3>2, <3>3
  <2>2. Count(x, q) = 0 /\ ~Heir(x, q)
    <3>1. ~(Count(x, q) > 0) /\ ~Heir(x, q)
      BY Zenon, <1>2, <2>1 DEF QueueInv
    <3> QED
      BY <2>1, <3>1
  <2>3. x # t => (pc'[x] = "held" <=> pc[x] = "held")
    BY Zenon, Shapes, Bystander
  <2>4. Heir(x, q)' => Heir(x, q)
    BY Zenon, <1>1, Shapes, HeirStep DEF TryUnblock
  <2> QED
    BY Zenon, <1>1, <1>3, <1>4, <2>2, <2>3, <2>4 DEF Count
<1>7. QueueInv(q)'
  <2>1. bq[q] \in Seq(Threads)
    BY Zenon, Shapes
  <2>2. DOMAIN bq[q] = 1..Len(bq[q])
    BY Zenon, <2>1, SeqLength
  <2>3. \A x \in Range(bq'[q]) : state'[x] # "Blocked"
    BY Zenon, <1>2, <1>3, <2>2 DEF Range
  <2>4. None \notin Threads /\ Fence \notin Threads
    BY MutexAssumption, ConstantsAssumption
  <2>5. QueueInv(q)
    BY Zenon DEF MutexInv
  <2>6. counter'[q] = 0
    BY Zenon, <1>1, <1>2, <2>4, <2>5 DEF QueueInv
  <2> QED
    BY Zenon, <1>4, <1>6, <2>3, <2>4, <2>6, NobodyHolds
<1> QED
  BY Zenon, <1>1, <1>2, <1>3, <1>4, <1>5, <1>7, OnlyThisLock

-----------------------------------------------------------------------------
\* Every step keeps the types of the lock's fields.
LEMMA MutexTypes ==
  ASSUME MutexInv, MutexNext
  PROVE  MutexTypeOK'
<1> DEFINE Calls == [op : {"none", "acquire", "release"}, q : Queues \cup {None}, timeout : Timeouts]
<1>1. MutexTypeOK /\ call \in [Threads -> Calls] /\ Idle \in Calls /\ 0 \in Timeouts
  BY ConstantsAssumption DEF MutexInv, MutexTypeOK, Idle, Timeouts
<1>2. ASSUME NEW t \in Threads, Leaves(t) PROVE call' \in [Threads -> Calls]
  BY Zenon, <1>1, <1>2 DEF Leaves
<1>3. ASSUME NEW t \in Threads, NEW q \in Queues, Acquired(t, q)
      PROVE  counter' \in [Queues -> Nat] /\ depth' \in [Threads -> [Queues -> Nat]] /\ call' \in [Threads -> Calls]
  BY <1>2, <1>3, Shapes DEF Acquired
<1>4. ASSUME NEW t \in Threads, NEW q \in Queues, NEW d \in Timeouts, CallAcquire(t, q, d) PROVE MutexTypeOK'
  <2>1. [op |-> "acquire", q |-> q, timeout |-> d] \in Calls
    OBVIOUS
  <2>2. CASE Acquired(t, q)
    BY Zenon, <1>1, <1>3, <1>4, <2>2 DEF CallAcquire, MutexTypeOK
  <2>3. CASE ~Acquired(t, q)
    BY Zenon, <1>1, <1>4, <2>1, <2>3 DEF CallAcquire, MutexTypeOK
  <2> QED
    BY <2>2, <2>3
<1>5. ASSUME NEW t \in Threads, NEW q \in Queues, CallRelease(t, q) PROVE MutexTypeOK'
  <2>1. [op |-> "release", q |-> q, timeout |-> 0] \in Calls
    BY <1>1
  <2>2. depth' \in [Threads -> [Queues -> Nat]]
    BY <1>5, Shapes DEF CallRelease
  <2> QED
    BY Zenon, <1>1, <1>5, <2>1, <2>2 DEF CallRelease, MutexTypeOK
<1>6. ASSUME NEW t \in Threads, UNCHANGED <<owner, counter, depth>>, Leaves(t) \/ UNCHANGED call PROVE MutexTypeOK'
  BY Zenon, <1>1, <1>2, <1>6 DEF MutexTypeOK
<1>7. ASSUME NEW t \in Threads, AcquireLock(t) \/ Wait(t) \/ WaitTimed(t) \/ ReleaseWake(t) \/ Finishes(t)
      PROVE  MutexTypeOK'
  BY Zenon, <1>6, <1>7 DEF AcquireLock, Wait, WaitTimed, ReleaseWake, Finishes, mutexvars
<1>8. ASSUME NEW t \in Threads, Take(t) \/ Return(t) PROVE MutexTypeOK'
  <2>1. pc[t] = "ready" \/ call[t].op = "acquire"
    BY Zenon, <1>8 DEF Take, Holds, Return, Dispatch
  <2>2. call[t].q \in Queues
    BY Zenon, <2>1 DEF MutexInv, CallInv
  <2>3. owner' \in [Queues -> Threads \cup {None, Fence}]
    BY Zenon, <1>8, <2>2, Shapes DEF Take, Return
  <2>4. CASE Acquired(t, call[t].q)
    BY Zenon, <1>3, <2>2, <2>3, <2>4 DEF MutexTypeOK
  <2>5. CASE Leaves(t) /\ UNCHANGED <<owner, counter, depth>>
    BY Zenon, <1>6, <2>5
  <2> QED
    BY Zenon, <1>8, <2>4, <2>5 DEF Take, Return
<1>9. ASSUME NEW t \in Threads, NEW q \in Queues, NEW i \in Nat, i >= 1 PROVE At(q, i) \in Threads \cup {None, Fence}
  BY <1>9, Shapes DEF At
<1>10. ASSUME NEW t \in Threads, ReleaseInner(t) \/ ReleaseOuter(t) PROVE MutexTypeOK'
  <2>1. PICK q \in Queues : call[t].q = q
    BY Zenon, <1>10, ReleaserHolds DEF ReleaseInner, ReleaseOuter, Holds
  <2>2. At(q, 1) \in Threads \cup {None, Fence} /\ (counter[q] > 1 => counter[q] - 1 \in Nat) /\ 0 \in Nat
    BY <1>9, <1>10, Shapes
  <2>3. counter' \in [Queues -> Nat] /\ owner' \in [Queues -> Threads \cup {None, Fence}] /\ UNCHANGED depth
    BY Zenon, <1>10, <2>1, <2>2, Shapes DEF ReleaseInner, ReleaseOuter
  <2>4. call' \in [Threads -> Calls]
    BY Zenon, <1>1, <1>2, <1>10 DEF ReleaseInner, ReleaseOuter
  <2> QED
    BY Zenon, <1>1, <2>3, <2>4 DEF MutexTypeOK
<1>11. ASSUME NEW t \in Threads, Walk(t) PROVE MutexTypeOK'
  <2>1. PICK q \in Queues : q = cur[t]
    BY Zenon, <1>11, WalkedIsFree DEF Walk, TryUnblock
  <2>2. pc'[t] = "walk" => idx'[t] \in Nat /\ idx'[t] >= 1
    <3>1. idx[t] \in Nat /\ idx[t] >= 1 /\ pc[t] = "walk"
      BY Zenon, <1>11 DEF Walk, TryUnblock, MutexInv, IInv, TypeOK
    <3> QED
      BY <1>11, <3>1, Shapes DEF Walk, TryUnblock, Goto
  <2>3. pc'[t] = "walk" => At(q, idx'[t]) \in Threads \cup {None, Fence}
    BY <1>9, <2>2
  <2>4. owner' \in [Queues -> Threads \cup {None, Fence}]
    BY <1>11, <2>1, <2>3, Shapes DEF Walk
  <2> QED
    BY Zenon, <1>1, <1>11, <2>4 DEF Walk, MutexTypeOK
<1>12. ASSUME NEW t \in Threads, ReleaseFree(t) PROVE MutexTypeOK'
  <2>1. owner' \in [Queues -> Threads \cup {None, Fence}]
    BY Zenon, <1>12, Shapes DEF ReleaseFree
  <2> QED
    BY Zenon, <1>1, <1>2, <1>12, <2>1 DEF ReleaseFree, MutexTypeOK
<1>13. CASE UNCHANGED mutexvars
  BY Zenon, <1>1, <1>13 DEF mutexvars, MutexTypeOK
<1> QED
  BY Zenon, <1>4, <1>5, <1>7, <1>8, <1>10, <1>11, <1>12, <1>13 DEF MutexNext, Working

\* The invariant is kept: every action of acquire(), release(), of the machinery
\* under them and of the environment.
LEMMA MutexInvStep ==
  ASSUME MutexInv, [MutexNext]_vars
  PROVE  MutexInv'
<1> DEFINE Kept == (\A x \in Threads : CallInv(x)') /\ (\A q \in Queues : QueueInv(q)')
<1>1. [BSNext]_bsvars
  BY MutexIsClient
<1>2. IInv' /\ LockInv' /\ FreshWait'
  BY <1>1, InductiveStep, LockInvStep, FreshWaitStep DEF MutexInv
<1>3. CASE UNCHANGED vars
  <2>1. UNCHANGED bsvars /\ UNCHANGED <<owner, counter, call, depth>>
    BY <1>3 DEF vars, mutexvars
  <2>2. MutexTypeOK'
    BY Zenon, <2>1 DEF MutexInv, MutexTypeOK
  <2>3. \A x \in Threads : CallInv(x)'
    BY Zenon, <1>1, <2>1, CallStands DEF bsvars
  <2>4. ASSUME NEW q \in Queues PROVE QueueInv(q)'
    <3>1. \A x \in Threads : Count(x, q)' = Count(x, q) /\ (Heir(x, q)' <=> Heir(x, q))
      BY Zenon, <2>1 DEF bsvars, Count, Heir, OnQueue
    <3>2. Walked(q)' <=> Walked(q)
      BY Zenon, <2>1 DEF bsvars, Walked
    <3> QED
      BY Zenon, <1>2, <2>1, <3>1, <3>2, QueueStands DEF bsvars
  <2> QED
    BY Zenon, <1>2, <2>2, <2>3, <2>4 DEF MutexInv
<1>4. ASSUME NEW t \in Threads, NEW q \in Queues, CallRelease(t, q) \/ \E d \in Timeouts : CallAcquire(t, q, d)
      PROVE  Kept
  BY Zenon, <1>2, <1>4, OutsideIsClient, ReleaseStarts, AcquireStarts
<1>5. ASSUME NEW t \in Threads, Working(t) PROVE Kept
  <2>1. ThreadStep(t) \/ ClientStep(t) \/ SchedStep(t)
    BY <1>5, WorkingIsClient
  <2>2. CASE Take(t) \/ Wait(t) \/ WaitTimed(t) \/ Return(t)
    BY Zenon, <1>2, <2>1, <2>2, TakeStep, WaitSteps, ReturnStep
  <2>3. CASE ReleaseInner(t) \/ ReleaseOuter(t) \/ Walk(t) \/ ReleaseFree(t)
    BY Zenon, <1>2, <2>1, <2>3, ReleaseInnerStep, ReleaseOuterStep, WalkStep, ReleaseFreeStep
  <2>4. CASE ReleaseWake(t) \/ (Inside(t) /\ UNCHANGED mutexvars)
    BY Zenon, <1>2, <2>1, <2>4, OutsideSteps, InsideSteps
  <2> QED
    BY Zenon, <1>5, <2>2, <2>3, <2>4 DEF Working
<1>6. ASSUME NEW t \in Threads,
             AcquireLock(t) \/ Finishes(t) \/ (call[t] = Idle /\ ExitStep(t) /\ UNCHANGED mutexvars)
      PROVE  Kept
  <2>1. ClientStep(t) \/ SchedStep(t)
    BY Zenon, <1>6, OutsideIsClient
  <2> QED
    BY Zenon, <1>2, <1>6, <2>1, WaitSteps, OutsideSteps
<1>7. ASSUME (Tick \/ TimerStep) /\ UNCHANGED mutexvars PROVE Kept
  BY Zenon, <1>2, <1>7, TimerQuiet
<1>8. ASSUME MutexNext PROVE MutexInv'
  <2>1. Kept
    BY Zenon, <1>4, <1>5, <1>6, <1>7, <1>8 DEF MutexNext
  <2>2. MutexTypeOK'
    BY <1>8, MutexTypes
  <2> QED
    BY Zenon, <1>2, <2>1, <2>2 DEF MutexInv
<1> QED
  BY <1>3, <1>8

\* Initially every lock is free and nobody is in a call.
LEMMA MutexInitially ==
  ASSUME MutexInit
  PROVE  MutexInv
<1>1. IInv /\ LockInv
  BY Zenon, InitialStates, ConstantsAssumption DEF MutexInit, BSInit, LockInv, HoldPC, CancelPC, Actors
<1>2. FreshWait
  BY DEF MutexInit, BSInit, FreshWait
<1>3. MutexTypeOK
  BY ConstantsAssumption DEF MutexInit, MutexTypeOK, Idle, Timeouts
<1>4. ASSUME NEW t \in Threads PROVE CallInv(t)
  BY <1>4 DEF MutexInit, BSInit, CallInv, Idle, Actors, CancelPC
<1>5. ASSUME NEW q \in Queues PROVE QueueInv(q)
  <2>1. owner[q] = None /\ None \notin Threads /\ counter[q] = 0 /\ Range(bq[q]) = {}
    BY ConstantsAssumption DEF MutexInit, BSInit, Range
  <2>2. ASSUME NEW t \in Threads PROVE Count(t, q) = 0 /\ ~Heir(t, q)
    BY <2>2 DEF MutexInit, BSInit, Count, Heir, Actors
  <2> QED
    BY <2>1, <2>2 DEF QueueInv
<1> QED
  BY <1>1, <1>2, <1>3, <1>4, <1>5 DEF MutexInv

\* The inductive invariant of Mutex and OwnerLock.
THEOREM MutexInvariance == MutexSpec => []MutexInv
<1>1. MutexInit => MutexInv
  BY MutexInitially
<1>2. MutexInv /\ [MutexNext]_vars => MutexInv'
  BY MutexInvStep
<1> QED
  BY <1>1, <1>2, PTL DEF MutexSpec

\* Mutex and OwnerLock use BlockingQueue and Timeout as they are meant to be
\* used, although they lend resume() their owner field as its loop variable:
\* what is proved of the blocking machinery holds of them.
THEOREM MutexUsesBlockingSync == MutexSpec => BSSpec
<1>1. MutexInit => BSInit
  BY DEF MutexInit
<1>2. MutexInv /\ [MutexNext]_vars => [BSNext]_bsvars
  BY MutexIsClient
<1> QED
  BY <1>1, <1>2, MutexInvariance, PTL DEF MutexSpec, BSSpec

\* Wherever a thread reads owner without bLock (BlockingSync.h:179, 208, 231) it
\* finds itself there exactly if it holds the lock, for any number of threads
\* and locks: mutual exclusion, and no hand-over is missed.
THEOREM OwnerReadExactHolds == MutexSpec => []OwnerReadExact
<1>1. MutexInv => OwnerReadExact
  BY ReadsAreExact
<1> QED
  BY <1>1, MutexInvariance, PTL
=============================================================================
