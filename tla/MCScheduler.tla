----------------------------- MODULE MCScheduler ----------------------------
(* Small instances of Scheduler for TLC. *)
EXTENDS Scheduler, TLC

CONSTANTS c1, c2, idle1, idle2, t1, t2, t3

TwoCPUs == {c1, c2}
TwoThreads == {t1, t2}
ThreeThreads == {t1, t2, t3}
IdleThread == [c \in CPUs |-> IF c = c1 THEN idle1 ELSE idle2]
NextCPU == [c \in CPUs |-> IF c = c1 /\ c2 \in CPUs THEN c2 ELSE c1]
FirstCPU == [t \in Threads |-> c1]
SecondPinned == {t2}
NonePinned == {}
Equal == [t \in Threads |-> 1]
FirstTop == [t \in Threads |-> IF t = t1 THEN 0 ELSE 1]
PinnedDoAll == [t \in Threads |->
  IF t \in Pinned THEN {"suspend", "yield", "terminate", "cancel"} ELSE {"suspend"}]
SuspendCancel == [t \in Threads |-> {"suspend", "cancel"}]
YieldTerminate == [t \in Threads |-> {"yield", "terminate"}]
=============================================================================
