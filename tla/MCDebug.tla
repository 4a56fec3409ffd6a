------------------------------- MODULE MCDebug ------------------------------
(***************************************************************************)
(* Small instances of Process and of the debugger stub.  They share no     *)
(* state, so a behaviour is one of the part that the variable part names,  *)
(* while the other rests.                                                  *)
(***************************************************************************)
EXTENDS MCProcess, Gdb

VARIABLE part

DebugInit == part \in {"process", "gdb"} /\ PInit /\ GdbInit

DebugNext ==
  /\ UNCHANGED part
  /\ \/ part = "process" /\ PNext /\ UNCHANGED gdbVars
     \/ part = "gdb" /\ GdbNext /\ UNCHANGED vars

DebugSpec == DebugInit /\ [][DebugNext]_<<part, vars, gdbVars>>

\* Cores execute the stub at their own speed and take interrupts while they run,
\* and the user sooner or later resumes the program or attaches again.
GdbFairness ==
  /\ \A c \in Cores : /\ WF_gdbVars(part = "gdb" /\ ~Rebooted /\ StubStep(c))
                      /\ SF_gdbVars(part = "gdb" /\ ~Rebooted /\ UserResumes(c))
  /\ WF_gdbVars(part = "gdb" /\ ~Rebooted /\ Reattach)

\* A core that waits for the stub goes on, unless the kernel reboots: one that
\* has something to report gets its turn, and a continue request releases every
\* stopped one, unless another reports before (Gdb.cc:779-852).
StubGoesOn == GdbFairness => ReporterIsHeard /\ ContinueReleases
=============================================================================
