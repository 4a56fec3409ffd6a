------------------------------- MODULE MCMutex ------------------------------
(* A small instance of Mutex and OwnerLock for TLC. *)
EXTENDS Mutex, TLC

CONSTANTS t1, t2, t3, m1, mutexLock, threadLock

ThreeThreads == {t1, t2, t3}
OneMutex == {m1}
MutexLocks == {mutexLock, threadLock}
OwnLock == [q \in Queues |-> mutexLock]
IsOwnerLock == {m1}
OneExiting == {t1}
=============================================================================
