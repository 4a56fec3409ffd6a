------------------------------ MODULE MCProcess -----------------------------
(* Small instances of Process for TLC. *)
EXTENDS Process, TLC

CONSTANTS t1, t2, t3, wait1, wait2, wait3, semLock

TwoThreads == {t1, t2}
ThreeThreads == {t1, t2, t3}
Conditions == [t \in Threads |-> CASE t = t1 -> wait1 [] t = t2 -> wait2 [] t = t3 -> wait3]
AllQueues == {Conditions[t] : t \in Threads} \cup {Elsewhere}
AllLocks == {ThreadLock, semLock}
ProcessLocks == [q \in Queues |-> IF q = Elsewhere THEN semLock ELSE ThreadLock]
MainExits == {t1}
=============================================================================
