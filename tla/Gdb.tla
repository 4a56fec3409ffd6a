-------------------------------- MODULE Gdb --------------------------------
(***************************************************************************)
(* The gdb stub (gdb/Gdb.cc, gdb/GdbAsm.S) in all-stop mode.  A core that  *)
(* hits an exception takes a ticket, waits for its turn, stops the other   *)
(* cores with StopIPI and talks to the front end until that sends a vCont  *)
(* packet.  All stopped cores then take turns to see whether the vCont is  *)
(* meant for them.                                                         *)
(*                                                                         *)
(* Tickets.  Only the distances of ticket and tcounter to serving matter,  *)
(* so ticket[c] is the code's ticket - serving, or -1 once it is old, and  *)
(* line is tcounter - serving; ++serving lowers all of them by one.        *)
(* The front end is external: it sends the requests of Requests, one at a  *)
(* time, keeps its breakpoints consistent (it inserts none twice), and     *)
(* after a resume request waits for the stop reply.                        *)
(***************************************************************************)
EXTENDS Integers, FiniteSets

CONSTANTS N,          \* number of processors; cTID() is 1..N
          Code,       \* addresses of code where breakpoints are set
          HookAddr,   \* where _Unwind_DebugHook is, one of Code
          Unmapped,   \* an address whose access faults
          Probed      \* addresses the front end reads and writes

ASSUME GdbAssumption == N \in Nat \ {0}

Cores == 1 .. N

VARIABLES gpc,      \* where each core is, one of Phases
          gstate,   \* GdbCpu::state
          ticket,   \* GdbCpu::ticket, relative to serving
          line,     \* tcounter, relative to serving
          allstop,
          stopIpi,      \* cores with a StopIPI pending at their local APIC
          visit,    \* loop variable of the core that stops the others
          rip,      \* the breakpoint a core has hit and not looked at yet, or 0
          tf,       \* cores with TF set in the saved eflags: single step
          stub,     \* the other static variables of Gdb.cc, see StubInit
          fh,       \* the fault handler's flag and what became of it, see FaultInit
          request,  \* the memory request being carried out, or NoRequest
          text,     \* the byte at each code address
          fe        \* the front end: "ask", "await" a reply, or "gone"

gdbVars == <<gpc, gstate, ticket, line, allstop, stopIpi, visit, rip, tf, stub, fh, request, text, fe>>
queueVars == <<ticket, line>>
sessionVars == <<stub, fh, request, text, fe>>

Phases == {"off", "run", "enter", "check", "ticket", "wait", "stop", "spin",
           "packet", "access", "loop", "ticket2", "wait2", "leave", "dead"}

\* The phases in which a core reads and handles packets, and in which it has
\* exclusive access to the front end.
Reading == {"packet", "access"}
Speaking == {"stop", "spin"} \cup Reading

NoRequest == [op |-> "none"]

\* told is not the code's: the thread that the session's stop reply named.
StubInit == [Htid |-> -2, hookAddr |-> 0, hook |-> FALSE, action |-> "none", tid |-> -1,
             bpMap |-> [a \in Code |-> "none"], savedThread |-> 0, pinned |-> {}, told |-> 0]

\* enabled is gdbFaultHandlerEnabled.  The others are history: the flag was left
\* set by an access that faulted; the present speaker took a core that leaves the
\* stub for a stopped one; a fault of running code went to the stub's handler.
FaultInit == [enabled |-> FALSE, left |-> FALSE, slipped |-> FALSE, stray |-> FALSE]

\* initGdb: the boot processor traps at once, the others have not started yet.
GdbInit ==
  /\ gpc = [c \in Cores |-> IF c = 1 THEN "enter" ELSE "off"]
  /\ gstate = [c \in Cores |-> IF c = 1 THEN "Running" ELSE "Unknown"]
  /\ ticket = [c \in Cores |-> -1] /\ line = 0
  /\ allstop = FALSE /\ stopIpi = {}
  /\ visit = [c \in Cores |-> 1] /\ rip = [c \in Cores |-> 0] /\ tf = {}
  /\ stub = StubInit /\ fh = FaultInit /\ request = NoRequest
  /\ text = [a \in Code |-> "op"]
  /\ fe = "ask"

GdbGoto(c, phase) == gpc' = [gpc EXCEPT ![c] = phase]

(***************************************************************************)
(* Entering the stub.                                                      *)
(***************************************************************************)
\* startGdbCpu, called by the core itself during its start.  The boot processor
\* waits for it meanwhile, and is taken not to be debugged there.
StartGdbCpu(c) ==
  /\ gpc[c] = "off" /\ gpc[1] = "run"
  /\ GdbGoto(c, "run") /\ gstate' = [gstate EXCEPT ![c] = "Running"]
  /\ UNCHANGED <<queueVars, allstop, stopIpi, visit, rip, tf, sessionVars>>

\* A core executes a breakpoint (rip becomes its address) or runs into another
\* exception, the single step included: catchException in GdbAsm.S.
Trap(c) ==
  /\ gpc[c] = "run"
  /\ \E a \in {0} \cup {b \in Code : text[b] = "cc"} : rip' = [rip EXCEPT ![c] = a]
  /\ GdbGoto(c, "enter")
  /\ UNCHANGED <<gstate, queueVars, allstop, stopIpi, visit, tf, sessionVars>>

\* handle_exception: the core counts as stopped before it looks at the breakpoint.
EnterException(c) ==
  /\ gpc[c] = "enter"
  /\ gstate' = [gstate EXCEPT ![c] = "Stopped"]
  /\ GdbGoto(c, IF rip[c] = 0 THEN "ticket" ELSE "check")
  /\ UNCHANGED <<queueVars, allstop, stopIpi, visit, rip, tf, sessionVars>>

\* KASSERT0(*(unsigned char*)getReg64(Reg::RIP) == 0xCC); a failure reboots.
CheckBreakpoint(c) ==
  /\ gpc[c] = "check"
  /\ GdbGoto(c, IF text[rip[c]] = "cc" THEN "ticket" ELSE "dead")
  /\ rip' = [rip EXCEPT ![c] = 0]
  /\ UNCHANGED <<gstate, queueVars, allstop, stopIpi, visit, tf, sessionVars>>

\* A StopIPI interrupts a running core, which acknowledges it and waits.
TakeStopIPI(c) ==
  /\ gpc[c] = "run" /\ c \in stopIpi
  /\ stopIpi' = stopIpi \ {c}
  /\ gstate' = [gstate EXCEPT ![c] = "Stopped"]
  /\ GdbGoto(c, "loop")
  /\ UNCHANGED <<queueVars, allstop, visit, rip, tf, sessionVars>>

\* A memory fault of running code while gdbFaultHandlerEnabled is set:
\* catchExceptionFault takes it for one of get_char or set_char, where the core
\* goes on with its own registers.  What it does there is not followed.
PageFault(c) ==
  /\ gpc[c] = "run" /\ fh.enabled
  /\ fh' = [fh EXCEPT !.stray = TRUE]
  /\ GdbGoto(c, "dead")
  /\ UNCHANGED <<gstate, queueVars, allstop, stopIpi, visit, rip, tf, stub, request, text, fe>>

(***************************************************************************)
(* Tickets, and stopping everybody.                                        *)
(***************************************************************************)
\* "obtain ticket, if current ticket old": a critical section of lock.
TakeTicket(c) ==
  /\ gpc[c] \in {"ticket", "ticket2"}
  /\ IF ticket[c] < 0
       THEN ticket' = [ticket EXCEPT ![c] = line] /\ line' = line + 1
       ELSE UNCHANGED queueVars
  /\ GdbGoto(c, IF gpc[c] = "ticket" THEN "wait" ELSE "wait2")
  /\ UNCHANGED <<gstate, allstop, stopIpi, visit, rip, tf, sessionVars>>

StartSession_NoTurn(c) ==
  /\ gpc[c] = "wait"
  /\ allstop' = TRUE /\ visit' = [visit EXCEPT ![c] = 1]
  /\ GdbGoto(c, "stop")
  /\ UNCHANGED <<gstate, queueVars, stopIpi, rip, tf, sessionVars>>

\* "wait my turn", then allstop = true.
StartSession(c) ==
  /\ gpc[c] = "wait" /\ ticket[c] = 0
  /\ allstop' = TRUE /\ visit' = [visit EXCEPT ![c] = 1]
  /\ GdbGoto(c, "stop")
  /\ UNCHANGED <<gstate, queueVars, stopIpi, rip, tf, sessionVars>>

StopCore_Trusts(c) ==
  /\ gpc[c] = "stop" /\ visit[c] <= N
  /\ stopIpi' = IF gstate[visit[c]] = "Running" THEN stopIpi \cup {visit[c]} ELSE stopIpi
  /\ visit' = [visit EXCEPT ![c] = @ + 1]
  /\ fh' = [fh EXCEPT !.slipped = @ \/ gpc[visit[c]] = "leave"]
  /\ UNCHANGED <<gpc, gstate, queueVars, allstop, rip, tf, stub, request, text, fe>>

\* One iteration of the loop over the processors.  A core on its way out of the
\* stub still counts as stopped, and is passed over.
StopCore(c) ==
  /\ gpc[c] = "stop" /\ visit[c] <= N
  /\ IF gstate[visit[c]] = "Running"
       THEN stopIpi' = stopIpi \cup {visit[c]} /\ GdbGoto(c, "spin") /\ UNCHANGED <<visit, fh>>
       ELSE /\ visit' = [visit EXCEPT ![c] = @ + 1] /\ UNCHANGED <<gpc, stopIpi>>
            /\ fh' = [fh EXCEPT !.slipped = @ \/ gpc[visit[c]] = "leave"]
  /\ UNCHANGED <<gstate, queueVars, allstop, rip, tf, stub, request, text, fe>>

CoreStopped(c) ==
  /\ gpc[c] = "spin" /\ gstate[visit[c]] = "Stopped"
  /\ visit' = [visit EXCEPT ![c] = @ + 1] /\ GdbGoto(c, "stop")
  /\ UNCHANGED <<gstate, queueVars, allstop, stopIpi, rip, tf, sessionVars>>

Selected(s, c) == IF s.Htid # -2 THEN s.Htid ELSE c

\* "if previous vCont packet processed, send stop reply"; mem2hex without
\* may_fault clears the fault handler's flag.  vCont.tid is not read again before
\* the next vCont packet sets it.
SendStopReply(c) ==
  /\ gpc[c] = "stop" /\ visit[c] > N
  /\ fe # "gone"
  /\ IF stub.action = "none"
       THEN UNCHANGED <<stub, fh, fe>>
       ELSE /\ stub' = [stub EXCEPT !.told = Selected(stub, c), !.Htid = -2, !.action = "none", !.tid = -1]
            /\ fh' = [fh EXCEPT !.enabled = FALSE, !.left = FALSE]
            /\ fe' = IF fe = "await" THEN "ask" ELSE fe
  /\ GdbGoto(c, "packet") /\ visit' = [visit EXCEPT ![c] = 1]
  /\ UNCHANGED <<gstate, queueVars, allstop, stopIpi, rip, tf, request, text>>

(***************************************************************************)
(* Requests (handlePacket).  Each handler maps the stub's variables to     *)
(* their new values.                                                       *)
(***************************************************************************)
MemoryRequests == [op : {"m"}, addr : Probed] \cup [op : {"Z", "z"}, addr : Code]

Requests ==
  [op : {"q", "qSymbol", "?", "g", "k", "c"}] \cup [op : {"s", "H"}, tid : Cores] \cup MemoryRequests

\* The front end's own bookkeeping of the breakpoints it has inserted.
Sensible(r) == r.op \in {"Z", "z"} => (r.op = "Z" <=> text[r.addr] = "op")

\* Queries only build a reply, except that the answer to the stub's own symbol
\* lookup tells it the address of _Unwind_DebugHook.
Query(s, r) == IF r.op = "qSymbol" THEN [s EXCEPT !.hookAddr = HookAddr] ELSE s

\* ?, g, G, p, P: use up the thread chosen with H.
UseThread(s) == [s EXCEPT !.Htid = -2]

ChooseThread(s, tid) == [s EXCEPT !.Htid = tid]

SetSoftBreak(s, a) == [s EXCEPT !.bpMap[a] = text[a], !.hook = s.hook \/ a = s.hookAddr]

\* The front end removes only what it has inserted: bpMap.count(addr) # 0.
RemoveSoftBreak(s, a) == [s EXCEPT !.hook = s.hook /\ a # s.hookAddr]

\* VCont::parse; only the first action of the packet is looked at.
ParseVCont(s, r) ==
  IF r.op = "s" THEN [s EXCEPT !.action = "s", !.tid = r.tid, !.told = 0]
                ELSE [s EXCEPT !.action = "c", !.tid = -1, !.told = 0]

Detach(s) == [s EXCEPT !.action = "c", !.tid = -1, !.told = 0]

Handled(s, r) ==
  CASE r.op \in {"q", "qSymbol"} -> Query(s, r)
    [] r.op \in {"?", "g"} -> UseThread(s)
    [] r.op = "H" -> ChooseThread(s, r.tid)
    [] r.op = "m" -> s
    [] r.op = "Z" -> SetSoftBreak(s, r.addr)
    [] r.op = "z" -> RemoveSoftBreak(s, r.addr)
    [] r.op = "k" -> Detach(s)
    [] r.op \in {"c", "s"} -> ParseVCont(s, r)

Finished_KeepsThread(s, r) == Handled(s, r)

\* The handler, then Htid = -2: the thread chosen with H survives only H itself.
Finished(s, r) == IF r.op = "H" THEN Handled(s, r) ELSE [Handled(s, r) EXCEPT !.Htid = -2]

\* The handlers that call mem2hex or hex2mem without may_fault.
ClearsFlag(r) == r.op \in {"qSymbol", "?", "g"}

\* A request that touches the stub's own memory only, and its reply.
HandlePacket(c) ==
  /\ gpc[c] = "packet" /\ fe = "ask"
  /\ \E r \in Requests \ MemoryRequests :
       /\ stub' = Finished(stub, r)
       /\ fe' = IF r.op \in {"c", "s"} THEN "await" ELSE IF r.op = "k" THEN "gone" ELSE "ask"
       /\ GdbGoto(c, IF stub'.action = "none" THEN "packet" ELSE "loop")
       /\ fh' = [fh EXCEPT !.enabled = @ /\ ~ClearsFlag(r), !.left = @ /\ ~ClearsFlag(r),
                           !.slipped = @ /\ stub'.action = "none"]
  /\ UNCHANGED <<gstate, queueVars, allstop, stopIpi, visit, rip, tf, request, text>>

\* A request for the program's memory: gdbFaultHandlerEnabled = 1 first, and the
\* access while it is set.
BeginAccess(c) ==
  /\ gpc[c] = "packet" /\ fe = "ask"
  /\ \E r \in MemoryRequests : Sensible(r) /\ request' = r
  /\ fh' = [fh EXCEPT !.enabled = TRUE, !.left = FALSE]
  /\ GdbGoto(c, "access")
  /\ UNCHANGED <<gstate, queueVars, allstop, stopIpi, visit, rip, tf, stub, text, fe>>

\* The early return after a fault leaves the flag set.
Faults(r) == r.op = "m" /\ r.addr = Unmapped

EndFlag_Open(r) == [fh EXCEPT !.left = Faults(r)]

EndFlag(r) == [fh EXCEPT !.enabled = Faults(r), !.left = Faults(r)]

\* The access, gdbFaultHandlerEnabled = 0 unless it faulted, and the reply.
EndAccess(c) ==
  /\ gpc[c] = "access"
  /\ stub' = Finished(stub, request)
  /\ text' = CASE request.op = "Z" -> [text EXCEPT ![request.addr] = "cc"]
               [] request.op = "z" -> [text EXCEPT ![request.addr] = stub.bpMap[request.addr]]
               [] request.op = "m" -> text
  /\ fh' = EndFlag(request)
  /\ request' = NoRequest
  /\ GdbGoto(c, "packet")
  /\ UNCHANGED <<gstate, queueVars, allstop, stopIpi, visit, rip, tf, fe>>

\* A front end connects again after a detach.
Reattach ==
  /\ fe = "gone" /\ fe' = "ask"
  /\ UNCHANGED <<gpc, gstate, queueVars, allstop, stopIpi, visit, rip, tf, stub, fh, request, text>>

(***************************************************************************)
(* while (allstop): the stopped cores take turns.                          *)
(***************************************************************************)
TestAllstop(c) ==
  /\ gpc[c] = "loop"
  /\ GdbGoto(c, IF allstop THEN "ticket2" ELSE "leave")
  /\ UNCHANGED <<gstate, queueVars, allstop, stopIpi, visit, rip, tf, sessionVars>>

Pending(c) == stub.action # "none" /\ (stub.tid <= 0 \/ stub.tid = c)

\* The running thread of core c stands for c's thread.
SetGdbAffinity(s, c) ==
  IF s.savedThread = 0 THEN [s EXCEPT !.savedThread = c, !.pinned = @ \cup {c}] ELSE s

ResetGdbAffinity_Forgets(s) == [s EXCEPT !.savedThread = 0]

ResetGdbAffinity(s) ==
  [s EXCEPT !.pinned = @ \ {s.savedThread}, !.savedThread = 0]

NextTurn == \* ++serving
  /\ ticket' = [d \in Cores |-> IF ticket[d] < 0 THEN -1 ELSE ticket[d] - 1]
  /\ line' = line - 1

TakeTurn_NoHandOver(c) ==
  /\ gpc[c] = "wait2" /\ ticket[c] = 0
  /\ IF Pending(c)
       THEN /\ allstop' = (allstop /\ stub.action # "c")
            /\ stub' = IF stub.action = "c" /\ ~stub.hook
                         THEN ResetGdbAffinity(stub) ELSE SetGdbAffinity(stub, c)
            /\ tf' = IF stub.action = "s" THEN tf \cup {c} ELSE tf \ {c}
            /\ UNCHANGED queueVars
            /\ GdbGoto(c, "leave")
       ELSE GdbGoto(c, "loop") /\ NextTurn /\ UNCHANGED <<allstop, stub, tf>>
  /\ UNCHANGED <<gstate, stopIpi, visit, rip, fh, request, text, fe>>

\* The body of the loop behind "wait my turn".
TakeTurn(c) ==
  /\ gpc[c] = "wait2" /\ ticket[c] = 0
  /\ IF Pending(c)
       THEN /\ allstop' = (allstop /\ stub.action # "c")
            /\ stub' = IF stub.action = "c" /\ ~stub.hook
                         THEN ResetGdbAffinity(stub) ELSE SetGdbAffinity(stub, c)
            /\ tf' = IF stub.action = "s" THEN tf \cup {c} ELSE tf \ {c}
            /\ GdbGoto(c, "leave")
       ELSE GdbGoto(c, "loop") /\ UNCHANGED <<allstop, stub, tf>>
  /\ NextTurn
  /\ UNCHANGED <<gstate, stopIpi, visit, rip, fh, request, text, fe>>

\* state = Running, then resumeExecution.
ResumeExecution(c) ==
  /\ gpc[c] = "leave"
  /\ gstate' = [gstate EXCEPT ![c] = "Running"]
  /\ GdbGoto(c, "run")
  /\ UNCHANGED <<queueVars, allstop, stopIpi, visit, rip, tf, sessionVars>>

\* An assertion has failed, or a core runs on in the stub's fault handler.
Rebooted == \E c \in Cores : gpc[c] = "dead"

CoreStep(c) ==
  \/ StartGdbCpu(c) \/ Trap(c) \/ EnterException(c) \/ CheckBreakpoint(c)
  \/ TakeStopIPI(c) \/ PageFault(c) \/ TakeTicket(c) \/ StartSession(c)
  \/ StopCore(c) \/ CoreStopped(c) \/ SendStopReply(c) \/ HandlePacket(c)
  \/ BeginAccess(c) \/ EndAccess(c)
  \/ TestAllstop(c) \/ TakeTurn(c) \/ ResumeExecution(c)

GdbNext == ~Rebooted /\ (Reattach \/ \E c \in Cores : CoreStep(c))

GdbSpec == GdbInit /\ [][GdbNext]_gdbVars

\* Cores execute the stub at their own speed, take interrupts while they run, and
\* the user sooner or later resumes the program or attaches again: the steps that
\* are treated fairly.
StubStep(c) ==
  \/ c \in tf /\ Trap(c)
  \/ EnterException(c) \/ CheckBreakpoint(c) \/ TakeStopIPI(c) \/ TakeTicket(c)
  \/ StartSession(c) \/ StopCore(c) \/ CoreStopped(c) \/ SendStopReply(c)
  \/ EndAccess(c) \/ TestAllstop(c) \/ TakeTurn(c) \/ ResumeExecution(c)

UserResumes(c) == HandlePacket(c) /\ gpc'[c] = "loop"

(***************************************************************************)
(* Properties.                                                             *)
(***************************************************************************)

\* The ticket lock gives the front end to one core at a time: no two cores
\* stop others, send stop replies or handle packets at once (Gdb.cc:779-809).
OneSpeaker ==
  \A c, d \in Cores : gpc[c] \in Speaking /\ gpc[d] \in Speaking => c = d

\* The stub and the front end never wait for each other: a core reads packets
\* only when the front end is not waiting for a stop reply, and the stop reply
\* it has sent names the core that reports, not a thread chosen earlier with H.
FrontEndInStep ==
  \A c \in Cores : gpc[c] \in Reading => fe # "await" /\ stub.told \in {0, c}

\* While packets are handled no other core runs, unless one was on its way out of
\* the stub when the speaker looked at its state (Gdb.cc:791-797, 854).
AllStopped ==
  \A c \in Cores : gpc[c] \in Reading /\ ~fh.slipped
                     => \A d \in Cores : gpc[d] \notin {"run", "enter", "leave"}

\* A fault of running code reaches the kernel's own handler (GdbAsm.S:179-182),
\* unless the flag was left set by an access that faulted (Gdb.cc:127, 144) or
\* the core had slipped away from the speaker.
FaultsAreOwn == fh.stray => fh.left \/ fh.slipped

\* Removing a breakpoint brings the original byte back, and only the thread that
\* the stub has saved is pinned to its core (Gdb.cc:559-603, 718-737).
SessionRestores ==
  /\ \A a \in Code : stub.bpMap[a] # "cc"
  /\ stub.pinned = {stub.savedThread} \ {0}

\* A core that has something to report gets its turn, unless the kernel reboots
\* (Gdb.cc:779-809).
ReporterIsHeard ==
  \A c \in Cores : gpc[c] \in {"ticket", "wait"} ~> gpc[c] \in Reading \/ Rebooted

\* A continue request releases every stopped core, unless one reports again
\* before (Gdb.cc:812-852).
ContinueReleases ==
  \A c \in Cores : stub.action = "c" /\ gpc[c] \in {"loop", "ticket2", "wait2"}
                     ~> gpc[c] = "run" \/ Rebooted \/ \E d \in Cores : gpc[d] \in Reading

\* What the stub remembers of a session agrees with the front end, with the
\* program's text, with the threads it holds and with the cores it has stopped,
\* across faults, detaching and attaching again (Gdb.cc:438-797, GdbAsm.S:176-183).
SessionConsistent == FrontEndInStep /\ SessionRestores /\ AllStopped /\ FaultsAreOwn
=============================================================================
