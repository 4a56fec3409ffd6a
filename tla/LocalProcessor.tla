--------------------------- MODULE LocalProcessor ---------------------------
(***************************************************************************)
(* The per-processor state that every entry to the kernel relies on        *)
(* (machine/Processor.h, isr_wrapper.S, syscall_wrapper.S, IsrEntry in     *)
(* Machine.cc): the count of nested locks that tells whether interrupts    *)
(* are enabled, the owner of gs, and the kernel stack in the TSS.  Tasks   *)
(* (threads) are preempted at any instruction with interrupts enabled and  *)
(* continue on any processor.                                              *)
(*                                                                         *)
(* Code that runs with interrupts disabled from the entry of an interrupt  *)
(* to lockFake, and from unlockFake to iretq, is one step of its processor.*)
(***************************************************************************)
EXTENDS Naturals, Sequences

CONSTANTS CPUs, Tasks, NoTask,
          MaxNesting,  \* bound on nested locks of one thread
          MaxFrames    \* bound on nested entries to the kernel

ASSUME ProcessorAssumption == MaxNesting \in Nat /\ MaxFrames \in Nat

VARIABLES lockCount,   \* Processor::lockCount
          currThread,  \* Processor::currThread
          iflag,       \* rflags.IF: 1 if the processor accepts interrupts
          gs,          \* "kern" or "user" base
          tssRsp,      \* whose kernel stack an entry from user mode gets
          code,        \* where a thread is in its code
          nesting,     \* history: locks its code has taken and not given back
          frames       \* its entries to the kernel, oldest first

cpuVars == <<lockCount, currThread, iflag, gs, tssRsp, code, nesting, frames>>

Positions == {"user", "kern", "tested", "locking", "unlocking"}
Frames == [kind : {"syscall", "irq", "fault"}, code : Positions, iflag : {0, 1}, nesting : Nat]

CpuInit ==
  /\ currThread \in [CPUs -> Tasks]
  /\ \A c, d \in CPUs : currThread[c] = currThread[d] => c = d
  /\ lockCount = [c \in CPUs |-> 1]
  /\ iflag = [c \in CPUs |-> 0]
  /\ gs = [c \in CPUs |-> "kern"]
  /\ tssRsp = [c \in CPUs |-> NoTask]
  /\ code = [t \in Tasks |-> "kern"]
  /\ nesting = [t \in Tasks |-> 1]
  /\ frames = [t \in Tasks |-> << >>]

CodeAt(c, where) == code[currThread[c]] = where
MoveTo(c, where) == code' = [code EXCEPT ![currThread[c]] = where]

(***************************************************************************)
(* LocalProcessor::lock and unlock, as used by kernel code.                *)
(***************************************************************************)
LockTest(c) ==
  /\ CodeAt(c, "kern") /\ nesting[currThread[c]] < MaxNesting
  /\ MoveTo(c, IF lockCount[c] = 0 THEN "tested" ELSE "locking")
  /\ UNCHANGED <<lockCount, currThread, iflag, gs, tssRsp, nesting, frames>>

DisableInterrupts(c) ==
  /\ CodeAt(c, "tested") /\ MoveTo(c, "locking")
  /\ iflag' = [iflag EXCEPT ![c] = 0]
  /\ UNCHANGED <<lockCount, currThread, gs, tssRsp, nesting, frames>>

IncLockCount(c) ==
  /\ CodeAt(c, "locking") /\ MoveTo(c, "kern")
  /\ lockCount' = [lockCount EXCEPT ![c] = @ + 1]
  /\ nesting' = [nesting EXCEPT ![currThread[c]] = @ + 1]
  /\ UNCHANGED <<currThread, iflag, gs, tssRsp, frames>>

\* Kernel code gives back only what it took itself since it was entered.
Own(t) ==
  LET f == frames[t][Len(frames[t])]
  IN  IF frames[t] = << >> \/ f.kind = "syscall" THEN nesting[t] ELSE nesting[t] - f.nesting - 1

DecLockCount_Unchecked(c) ==
  /\ CodeAt(c, "kern") /\ MoveTo(c, "unlocking")
  /\ lockCount' = [lockCount EXCEPT ![c] = @ - 1]
  /\ nesting' = [nesting EXCEPT ![currThread[c]] = @ - 1]
  /\ UNCHANGED <<currThread, iflag, gs, tssRsp, frames>>

DecLockCount(c) ==
  /\ CodeAt(c, "kern") /\ Own(currThread[c]) > 0
  /\ MoveTo(c, "unlocking")
  /\ lockCount' = [lockCount EXCEPT ![c] = @ - 1]
  /\ nesting' = [nesting EXCEPT ![currThread[c]] = @ - 1]
  /\ UNCHANGED <<currThread, iflag, gs, tssRsp, frames>>

EnableInterrupts(c) ==
  /\ CodeAt(c, "unlocking") /\ MoveTo(c, "kern")
  /\ iflag' = [iflag EXCEPT ![c] = IF lockCount[c] = 0 THEN 1 ELSE @]
  /\ UNCHANGED <<lockCount, currThread, gs, tssRsp, nesting, frames>>

(***************************************************************************)
(* Entry to the kernel and return.                                         *)
(***************************************************************************)
Frame(c, kind) ==
  LET t == currThread[c]
  IN  [kind |-> kind, code |-> code[t], iflag |-> iflag[c], nesting |-> nesting[t]]
Enter(c, kind) ==
  /\ Len(frames[currThread[c]]) < MaxFrames
  /\ frames' = [frames EXCEPT ![currThread[c]] = Append(@, Frame(c, kind))]
  /\ MoveTo(c, "kern")
  /\ gs' = [gs EXCEPT ![c] = "kern"]
Leave(c) ==
  LET fs == frames[currThread[c]]
  IN  frames' = [frames EXCEPT ![currThread[c]] = SubSeq(fs, 1, Len(fs) - 1)]

\* syscall_wrapper up to the call of syscall_handler.
SyscallEntry(c) ==
  /\ CodeAt(c, "user") /\ Enter(c, "syscall")
  /\ UNCHANGED <<lockCount, currThread, iflag, tssRsp, nesting>>

\* From there to sysretq.
SyscallExit(c) ==
  LET t == currThread[c] fs == frames[t]
  IN  /\ CodeAt(c, "kern") /\ fs # << >> /\ fs[Len(fs)].kind = "syscall" /\ nesting[t] = 0
      /\ Leave(c) /\ MoveTo(c, "user")
      /\ tssRsp' = [tssRsp EXCEPT ![c] = t]
      /\ gs' = [gs EXCEPT ![c] = "user"]
      /\ UNCHANGED <<lockCount, currThread, iflag, nesting>>

\* A thread of a process enters its program for the first time.
StartUserCode(c) ==
  LET t == currThread[c]
  IN  /\ CodeAt(c, "kern") /\ frames[t] = << >> /\ nesting[t] = 0
      /\ MoveTo(c, "user")
      /\ tssRsp' = [tssRsp EXCEPT ![c] = t]
      /\ gs' = [gs EXCEPT ![c] = "user"]
      /\ UNCHANGED <<lockCount, currThread, iflag, nesting, frames>>

\* ISR_ENTRY and the constructor of IsrEntry: an interrupt needs the flag, an
\* exception comes at any instruction of kernel or user code.
IsrEntry(c, kind) ==
  /\ iflag[c] = 1 \/ kind = "fault"
  /\ Enter(c, kind)
  /\ iflag' = [iflag EXCEPT ![c] = 0]
  /\ lockCount' = [lockCount EXCEPT ![c] = @ + 1]
  /\ nesting' = [nesting EXCEPT ![currThread[c]] = @ + 1]
  /\ UNCHANGED <<currThread, tssRsp>>

\* The destructor of IsrEntry and ISR_EXIT.
IsrExit(c) ==
  LET t == currThread[c] fs == frames[t] f == fs[Len(fs)]
  IN  /\ CodeAt(c, "kern") /\ fs # << >> /\ f.kind # "syscall" /\ nesting[t] = f.nesting + 1
      /\ lockCount' = [lockCount EXCEPT ![c] = @ - 1]
      /\ nesting' = [nesting EXCEPT ![t] = @ - 1]
      /\ MoveTo(c, f.code) /\ Leave(c)
      /\ iflag' = [iflag EXCEPT ![c] = f.iflag]
      /\ IF f.code = "user" THEN /\ tssRsp' = [tssRsp EXCEPT ![c] = t]
                                 /\ gs' = [gs EXCEPT ![c] = "user"]
                            ELSE UNCHANGED <<tssRsp, gs>>
      /\ UNCHANGED currThread

SwitchThread_AnyDepth(c, next) ==
  LET t == currThread[c]
  IN  /\ CodeAt(c, "kern") /\ nesting[t] >= 1
      /\ next \notin {currThread[d] : d \in CPUs}
      /\ currThread' = [currThread EXCEPT ![c] = next]
      /\ UNCHANGED <<lockCount, iflag, gs, tssRsp, code, nesting, frames>>

\* Scheduler::switchThread, reached with one lock: the FakeLock or RealLock of
\* suspend, yield and terminate, or the lockFake of a preempting interrupt.  The
\* handlers of exceptions do not switch.
SwitchThread(c, next) ==
  LET t == currThread[c] fs == frames[t]
  IN  /\ CodeAt(c, "kern") /\ nesting[t] = 1
      /\ fs # << >> => fs[Len(fs)].kind # "fault"
      /\ next \notin {currThread[d] : d \in CPUs}
      /\ currThread' = [currThread EXCEPT ![c] = next]
      /\ UNCHANGED <<lockCount, iflag, gs, tssRsp, code, nesting, frames>>

CpuNext ==
  \E c \in CPUs :
    \/ LockTest(c) \/ DisableInterrupts(c) \/ IncLockCount(c)
    \/ DecLockCount(c) \/ EnableInterrupts(c)
    \/ SyscallEntry(c) \/ SyscallExit(c) \/ StartUserCode(c)
    \/ \E k \in {"irq", "fault"} : IsrEntry(c, k)
    \/ IsrExit(c)
    \/ \E t \in Tasks : SwitchThread(c, t)

CpuSpec == CpuInit /\ [][CpuNext]_cpuVars

(***************************************************************************)
(* Properties.                                                             *)
(***************************************************************************)
\* What a position in the code says about interrupts and nested locks.
Fits(where, enabled, locks) ==
  /\ where \in {"user", "tested"} => enabled = 1 /\ locks = 0
  /\ where = "kern" => (enabled = 1 <=> locks = 0)
  /\ where \in {"locking", "unlocking"} => enabled = 0

\* Counts of locks do not go below zero and a kernel stack belongs to a thread
\* (Processor.h:126-143).
CpuTypeOK ==
  /\ lockCount \in [CPUs -> Nat] /\ currThread \in [CPUs -> Tasks]
  /\ iflag \in [CPUs -> {0, 1}] /\ gs \in [CPUs -> {"kern", "user"}]
  /\ tssRsp \in [CPUs -> Tasks \cup {NoTask}]
  /\ code \in [Tasks -> Positions] /\ nesting \in [Tasks -> Nat]
  /\ frames \in [Tasks -> Seq(Frames)]

\* The assertion of checkLock holds in all kernel code, wherever the thread was
\* preempted and continued: interrupts are enabled exactly when the processor
\* counts no lock, and it counts the locks of the thread it runs.  lock() tests
\* the count before it disables interrupts: "despite looking like trouble, I
\* believe this is safe" (Processor.h:119-143).
LockCountExact ==
  \A c \in CPUs : /\ lockCount[c] = nesting[currThread[c]]
                  /\ Fits(code[currThread[c]], iflag[c], lockCount[c])

\* While a processor runs user code, gs holds the user base and an interrupt will
\* use the kernel stack of the thread that runs, although the thread was perhaps
\* last entered on another processor; in kernel code gs is the kernel's
\* (Machine.cc:814-824, syscall_wrapper.S:24-39).
UserEntryReady ==
  \A c \in CPUs : IF CodeAt(c, "user") THEN gs[c] = "user" /\ tssRsp[c] = currThread[c]
                                   ELSE gs[c] = "kern"
=============================================================================
