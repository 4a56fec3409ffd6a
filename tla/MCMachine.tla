------------------------------ MODULE MCMachine -----------------------------
(***************************************************************************)
(* Small instances of the parts in which something must happen eventually: *)
(* interrupts, booting, open files, the user library's locks, the          *)
(* dispatching of threads and the release of unmapped frames.  They share  *)
(* no state, so a behaviour is one of the part that the variable part      *)
(* names, while the others rest.                                           *)
(***************************************************************************)
EXTENDS Interrupts, Boot, Files, Pthread

CONSTANTS c1, c2, idle1, idle2, t1, t2, None

VARIABLES part,
          curr, cpc, this, target, prev, ready, readyCount, resumed, ipc, ipi,
          state, next, frame, saved, fresh, pend, owe,                \* Scheduler
          kernel, pt, free, mapStart, activeCores, invList, lastPI, pi, within,
          tlb, op, regions, leaked, contended, mapFailed              \* AddressSpace

Swapped == <<1, 0>>
TwoCPUs == {c1, c2}
TwoThreads == {t1, t2}

\* Two threads of equal priority that share a processor, without migration.
Sched == INSTANCE Scheduler WITH
  CPUs <- TwoCPUs, Threads <- TwoThreads, Pinned <- {}, Migrate <- FALSE,
  IdleOf <- [c \in TwoCPUs |-> IF c = c1 THEN idle1 ELSE idle2],
  Partner <- [c \in TwoCPUs |-> IF c = c1 THEN c2 ELSE c1],
  Home <- [t \in TwoThreads |-> c1], Priority <- [t \in TwoThreads |-> 1],
  Ops <- [t \in TwoThreads |-> {"suspend"}]
schedVars == <<curr, cpc, this, target, prev, ready, readyCount, resumed, ipc, ipi,
               state, next, frame, saved, fresh, pend, owe>>

\* The kernel's address space on two cores.
Space == INSTANCE AddressSpace WITH
  Cores <- {1, 2}, Mappers <- {1}, Kinds <- {TRUE}, NPages <- 2, NFrames <- 2,
  MaxRegion <- 1, MaxPosts <- 2
spaceVars == <<kernel, pt, free, mapStart, activeCores, invList, lastPI, pi, within,
               tlb, op, regions, leaked, contended, mapFailed>>

MachineInit ==
  /\ part \in {"interrupts", "boot", "files", "pthread", "scheduler", "memory"}
  /\ IrqInit /\ BootInit /\ FilesInit /\ PthreadInit /\ Sched!SInit /\ Space!SpaceInit
  /\ part # "boot" => bspIndex = 0     \* a part that rests, once

\* Bound: three threads use two files, two threads three; a fourth file is opened
\* while nothing else happens, into a slot that needs no growth.
FewAtOnce ==
  /\ created' > 2 => scall'["u3"].at = "user"
  /\ created' > 3 => /\ scall'["u2"].at = "user"
                     /\ scall'["u1"].at \in {"user", "reserved", "bitLoaded", "bitSet"}

MachineNext ==
  /\ UNCHANGED part
  /\ \/ part = "interrupts" /\ IrqNext
          /\ UNCHANGED <<bootVars, filesVars, pthreadVars, schedVars, spaceVars>>
     \/ part = "boot" /\ BootNext
          /\ UNCHANGED <<irqVars, filesVars, pthreadVars, schedVars, spaceVars>>
     \/ part = "files" /\ FilesNext /\ FewAtOnce
          /\ UNCHANGED <<irqVars, bootVars, pthreadVars, schedVars, spaceVars>>
     \/ part = "pthread" /\ PthreadNext
          /\ UNCHANGED <<irqVars, bootVars, filesVars, schedVars, spaceVars>>
     \/ part = "scheduler" /\ Sched!SNext
          /\ UNCHANGED <<irqVars, bootVars, filesVars, pthreadVars, spaceVars>>
     \/ part = "memory" /\ Space!SpaceNext
          /\ UNCHANGED <<irqVars, bootVars, filesVars, pthreadVars, schedVars>>

MachineSpec ==
  MachineInit
    /\ [][MachineNext]_<<part, irqVars, bootVars, filesVars, pthreadVars, schedVars, spaceVars>>

(***************************************************************************)
(* Fairness, each for the part that runs, and the properties that need it. *)
(***************************************************************************)
\* The clock chip keeps interrupting, processors take their interrupts, and the
\* interrupt thread has top priority.
IrqFairness ==
  /\ WF_irqVars(part = "interrupts" /\ ~halted /\ IrqHandlerRTC)
  /\ WF_irqVars(part = "interrupts" /\ ~halted /\ AsyncIrqLoop)
  /\ \A p \in 0 .. Processors - 1 :
       WF_irqVars(part = "interrupts" /\ ~halted /\ IrqHandlerPreempt(p))

\* The interrupt thread serves every noted interrupt, although only the next tick
\* of the clock wakes it, unless a flood of interrupts with lower numbers, which
\* findset prefers, keeps it busy; and round-robin preemption reaches every
\* processor again and again (Machine.cc:455-471, 1018-1020).
InterruptsServed == part = "interrupts" /\ IrqFairness => IrqIsServed /\ EveryCpuPreempted

\* Processors run; an AP that is started again and again gets to draw a ticket
\* some time.
BootFairness ==
  /\ WF_bootVars(part = "boot" /\ BspStep)
  /\ \A i \in TableIndex : /\ WF_bootVars(part = "boot" /\ ApStep(i))
                           /\ SF_bootVars(part = "boot" /\ TakeBootTicket(i))

\* With Startup IPIs lost only a bounded number of times, the system comes up
\* with all processors, if the boot processor is the first in the table and every
\* AP that has drawn a ticket reports before its time is up (Machine.cc:346-370).
AllProcessorsStart ==
  part = "boot" /\ bspIndex = 0 /\ [](~late) /\ BootFairness => AllProcessorsUp

\* A system call that may continue does.
FilesFairness ==
  \A t \in Users : WF_filesVars(part = "files" /\ Undivided(t) /\ FileStep(t))

\* close() returns when the calls that use its file are done, unless another
\* close of the same file has taken the one wake-up (SynchronizedArray.h:56-81).
ClosesReturn == FilesFairness => CloseReturns

\* A call in progress goes on; that a holder unlocks some time is assumed of the
\* program.
PthreadFairness ==
  \A t \in Lockers : /\ WF_pthreadVars(part = "pthread" /\ LibraryStep(t))
                     /\ SF_pthreadVars(part = "pthread" /\ MutexUnlock(t))

\* pthread_mutex_lock returns, unless a holder sleeps in pthread_cond_wait, which
\* keeps the mutex, or broadcasts without end (pthread.h:31-40, pthread.cc:68-127).
LocksServed == PthreadFairness => LockIsServed

\* A processor keeps executing switchThread and the idle loop, preemption
\* interrupts keep coming (the RTC handler sends them round robin) and are
\* taken.  Nothing makes a thread suspend or terminate.
SchedFairness ==
  \A c \in TwoCPUs :
    /\ WF_schedVars(part = "scheduler" /\ Sched!SwitchStep(c))
    /\ WF_schedVars(part = "scheduler" /\ Sched!PreemptIPI(c))
    /\ SF_schedVars(part = "scheduler" /\ Sched!Interrupt(c))
    /\ \A s \in TwoCPUs : WF_schedVars(part = "scheduler" /\ Sched!IdleStep(c, s))

\* A ready thread is dispatched if there is no thread of a better class: the
\* queues are first-in first-out, and preempt() gives the processor away
\* (Scheduler.cc:66-117, 154-160).
ReadyIsDispatched ==
  part = "scheduler" /\ SchedFairness => Sched!ReadyIsDispatched

\* Every core takes interrupts.
SpaceFairness ==
  \A c \in {1, 2} : WF_spaceVars(part = "memory" /\ Space!RunKernelInvalidation(c))

\* A page unmapped in the kernel space gets its frame released: every core passes
\* its record at some interrupt (AddressSpace.h:162-180, 227-232).
UnmappedReleased == SpaceFairness => Space!UnmappedIsReleased
=============================================================================
