---------------------------- MODULE MCMessageQueue --------------------------
(* Small instances of MessageQueue for TLC. *)
EXTENDS MessageQueue, TLC

CONSTANTS t1, t2, t3, m1, m2, threadLock

ThreeThreads == {t1, t2, t3}
TwoMessages == {m1, m2}
SendRecv == {SendQueue, RecvQueue}
MQLocks == {MQLock, threadLock}
OneLock == [q \in Queues |-> MQLock]
OneExiting == {t1}
NoExiting == {}
Interchangeable == Permutations(ThreeThreads \ Exiting) \cup Permutations(TwoMessages)
=============================================================================
