------------------------------- MODULE Pthread -------------------------------
(***************************************************************************)
(* The user library's mutexes and condition variables (ulib/pthread.cc on  *)
(* the Benaphore of include/pthread.h) over the kernel's semaphores, which *)
(* system calls find through the process's semaphore store.                *)
(* An atomic operation on a counter is a step, and so is a system call:    *)
(* the kernel serialises semP and semV by the store's lock and then the    *)
(* semaphore's.  "m" is a mutex, "c" a condition variable.                 *)
(***************************************************************************)
EXTENDS Integers, Sequences, FiniteSets

CONSTANTS Lockers, Triers, MaxSurplus

ASSUME PthreadAssumption == IsFiniteSet(Lockers)

VARIABLES counter, ksem, kqueue, user, held, tried

pthreadVars == <<counter, ksem, kqueue, user, held, tried>>

Benaphores == {"m", "c"}
BenaphoreInit == [b \in Benaphores |-> IF b = "m" THEN 1 ELSE 0]

PthreadInit ==
  /\ counter = BenaphoreInit
  /\ ksem = [b \in Benaphores |-> 0] /\ kqueue = [b \in Benaphores |-> <<>>]
  /\ user = [t \in Lockers |-> <<"run", "m">>] /\ held = {} /\ tried = FALSE

Running(t) == user[t][1] = "run"
UserAt(t, p, b) == user[t] = <<p, b>>
UserGoto(t, p, b) == user' = [user EXCEPT ![t] = <<p, b>>]
Waits(b) == {t \in Lockers : UserAt(t, "P", b) \/ UserAt(t, "blocked", b)}

\* what P means to its caller when it returns
Acquired(b, t) == IF b = "m" THEN held \cup {t} ELSE held

BenaphoreP_Late(t, b) ==
  /\ counter' = [counter EXCEPT ![b] = @ - 1]
  /\ IF counter[b] >= 0 THEN held' = Acquired(b, t) /\ UNCHANGED user
                        ELSE UserGoto(t, "P", b) /\ UNCHANGED held
  /\ UNCHANGED <<ksem, kqueue, tried>>

BenaphoreP(t, b) ==
  /\ counter' = [counter EXCEPT ![b] = @ - 1]
  /\ IF counter[b] > 0 THEN held' = Acquired(b, t) /\ UNCHANGED user
                       ELSE UserGoto(t, "P", b) /\ UNCHANGED held
  /\ UNCHANGED <<ksem, kqueue, tried>>

MutexLock(t) == Running(t) /\ t \notin held /\ BenaphoreP(t, "m")

\* the mutex is not released while its holder waits
CondWait(t) == Running(t) /\ BenaphoreP(t, "c")

SemP(t, b) ==
  /\ UserAt(t, "P", b)
  /\ IF ksem[b] = 0
       THEN UserGoto(t, "blocked", b) /\ kqueue' = [kqueue EXCEPT ![b] = Append(@, t)]
            /\ UNCHANGED <<ksem, held>>
       ELSE UserGoto(t, "run", b) /\ held' = Acquired(b, t)
            /\ ksem' = [ksem EXCEPT ![b] = @ - 1]
            /\ UNCHANGED kqueue
  /\ UNCHANGED <<counter, tried>>

\* a broadcast goes on with its loop
AfterV(p) == IF p = "broadcastV" THEN "broadcast" ELSE "run"

SemV_Forgets(t, b) ==
  /\ user[t][1] \in {"V", "broadcastV"} /\ user[t][2] = b
  /\ IF kqueue[b] # <<>>
       THEN LET w == Head(kqueue[b]) IN
            /\ user' = [user EXCEPT ![t] = <<AfterV(@[1]), b>>, ![w] = <<"run", b>>]
            /\ held' = Acquired(b, w)
            /\ kqueue' = [kqueue EXCEPT ![b] = Tail(@)]
       ELSE UserGoto(t, AfterV(user[t][1]), b) /\ UNCHANGED <<kqueue, held>>
  /\ UNCHANGED <<counter, ksem, tried>>

SemV(t, b) ==
  /\ user[t][1] \in {"V", "broadcastV"} /\ user[t][2] = b
  /\ IF kqueue[b] # <<>>
       THEN LET w == Head(kqueue[b]) IN
            /\ user' = [user EXCEPT ![t] = <<AfterV(@[1]), b>>, ![w] = <<"run", b>>]
            /\ held' = Acquired(b, w)
            /\ kqueue' = [kqueue EXCEPT ![b] = Tail(@)]
            /\ UNCHANGED ksem
       ELSE /\ UserGoto(t, AfterV(user[t][1]), b)
            /\ ksem' = [ksem EXCEPT ![b] = @ + 1]
            /\ UNCHANGED <<kqueue, held>>
  /\ UNCHANGED <<counter, tried>>

BenaphoreV(t, b, next) ==
  /\ counter' = [counter EXCEPT ![b] = @ + 1]
  /\ IF counter[b] >= 0 THEN UserGoto(t, IF next = "V" THEN "run" ELSE "broadcast", b)
                        ELSE UserGoto(t, next, b)
  /\ UNCHANGED <<ksem, kqueue, tried>>

MutexUnlock(t) ==
  Running(t) /\ t \in held /\ held' = held \ {t} /\ BenaphoreV(t, "m", "V")

\* tryP takes its decrement back in a second step
MutexTrylock(t) ==
  /\ Running(t) /\ t \in Triers \ held /\ ksem["m"] < MaxSurplus
  /\ counter' = [counter EXCEPT !["m"] = @ - 1]
  /\ IF counter["m"] > 0 THEN held' = held \cup {t} /\ UNCHANGED <<user, tried>>
                         ELSE UserGoto(t, "undo", "m") /\ tried' = TRUE /\ UNCHANGED held
  /\ UNCHANGED <<ksem, kqueue>>

TrylockUndo(t) ==
  /\ UserAt(t, "undo", "m") /\ UserGoto(t, "run", "m")
  /\ counter' = [counter EXCEPT !["m"] = @ + 1]
  /\ UNCHANGED <<ksem, kqueue, held, tried>>

CondEmpty == counter["c"] >= 0

\* the test of the counter and the increment are apart
CondSignal(t) ==
  /\ Running(t)
  /\ IF CondEmpty THEN UNCHANGED user ELSE UserGoto(t, "signal", "c")
  /\ UNCHANGED <<counter, ksem, kqueue, held, tried>>

CondSignalV(t) == UserAt(t, "signal", "c") /\ BenaphoreV(t, "c", "V") /\ UNCHANGED held

CondBroadcast(t) ==
  /\ Running(t) /\ UserGoto(t, "broadcast", "c")
  /\ UNCHANGED <<counter, ksem, kqueue, held, tried>>

CondBroadcastStep(t) ==
  \/ /\ UserAt(t, "broadcast", "c")
     /\ UserGoto(t, IF CondEmpty THEN "run" ELSE "broadcast1", "c")
     /\ UNCHANGED <<counter, ksem, kqueue, held, tried>>
  \/ UserAt(t, "broadcast1", "c") /\ BenaphoreV(t, "c", "broadcastV") /\ UNCHANGED held

LibraryStep(t) ==
  \/ \E b \in Benaphores : SemP(t, b) \/ SemV(t, b)
  \/ TrylockUndo(t) \/ CondSignalV(t) \/ CondBroadcastStep(t)

PthreadNext ==
  \E t \in Lockers :
    \/ MutexLock(t) \/ MutexTrylock(t) \/ MutexUnlock(t)
    \/ CondWait(t) \/ CondSignal(t) \/ CondBroadcast(t)
    \/ LibraryStep(t)

PthreadSpec == PthreadInit /\ [][PthreadNext]_pthreadVars

-----------------------------------------------------------------------------

(* As long as no pthread_mutex_trylock has failed, at most one thread is    *)
(* between pthread_mutex_lock and pthread_mutex_unlock.                     *)
MutexExclusive == ~tried => Cardinality(held) <= 1

(* A thread waiting in pthread_mutex_lock gets the mutex, trylocks or not,  *)
(* unless a holder sleeps in pthread_cond_wait, which keeps the mutex, or   *)
(* is in a pthread_cond_broadcast, which ends only when no waiter is left.  *)
LockIsServed ==
  \A t \in Lockers :
    t \in Waits("m") ~>
      \/ t \in held
      \/ \E h \in held : h \in Waits("c") \/ user[h][1] = "broadcast"
=============================================================================
