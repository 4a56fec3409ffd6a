-------------------------------- MODULE Boot --------------------------------
(***************************************************************************)
(* System start (machine/Machine.cc, machine/boot.S, kernel/Kernel.cc).    *)
(* The boot processor runs the initialisation steps in order; in the       *)
(* middle of them it starts the other processors (APs) one by one.  An AP  *)
(* goes through boot.S, where it draws a ticket that becomes its number,   *)
(* and then over the one boot stack to its own stack; it reports back by   *)
(* overwriting apIndex.  The boot processor looks at apIndex and at the    *)
(* time only: an AP that is slow is reset, wherever it is.                 *)
(***************************************************************************)
EXTENDS Naturals, Sequences, FiniteSets

CONSTANTS ProcessorCount,
          Startups,     \* Startup IPIs before the next INIT (10 in the code)
          MaxLost,      \* bound: Startup IPIs that have no effect
          MaxWasted     \* bound: tickets drawn by APs that are started once more

ASSUME BootAssumption ==
  ProcessorCount \in Nat \ {0} /\ Startups \in Nat \ {0} /\ MaxWasted \in Nat

VARIABLES step,         \* index of the boot processor's next step
          have,         \* what the steps so far have set up
          bspIndex,     \* the boot processor's place in the processor table
          starting,     \* [idx, at, sent]: AP being started, what the boot processor does
                        \* next, Startup IPIs sent; idx = ProcessorCount if none
          apIndex,      \* Machine::apIndex
          ap,           \* where each AP is
          object,       \* processorTable entry an AP initialises
          number,       \* its ticket, the idx argument of kmain
          bootTicket, bootServing,
          lost,
          late          \* history: an AP was reset after it had drawn a ticket

bootVars == <<step, have, bspIndex, starting, apIndex, ap, object, number, bootTicket, bootServing,
              lost, late>>

TableIndex == 0 .. ProcessorCount - 1
APs == TableIndex \ {bspIndex}

(***************************************************************************)
(* The steps of the boot processor: what each needs, gives and takes away. *)
(***************************************************************************)
Step(op, needs, gives, takes) == [op |-> op, needs |-> needs, gives |-> gives, takes |-> takes]

EarlySteps == <<
  Step("clear bss",    {}, {"bss"}, {}),
  Step("boot heap",    {"bss"}, {"heap"}, {}),
  Step("dummyProc",    {"bss"}, {"locks"}, {}),
  Step("Multiboot",    {"heap", "locks", "identity"}, {"mbi", "debug"}, {}),
  Step("Screen",       {"identity"}, {"output"}, {}),
  Step("Serial",       {"debug"}, {"serial"}, {}),
  Step("constructors", {"heap", "locks"}, {"globals"}, {}),
  Step("setupIDTable", {"output"}, {"idt"}, {}),
  Step("check",        {"output"}, {"nx"}, {}),
  Step("init2",        {"mbi", "output"}, {}, {}) >>

MemorySteps_HeapFirst == <<
  Step("memory map",   {"mbi", "heap"}, {"mem"}, {}),
  Step("copy boot16",  {"identity", "mem"}, {"boot16"}, {}),
  Step("bootstrap",    {"nx", "identity"}, {"paging"}, {"identity", "mbi"}),
  Step("remap",        {"paging"}, {"mbi"}, {}),
  Step("map FM",       {"paging", "mem"}, {"kernel memory"}, {}),
  Step("frameManager", {"heap", "globals", "kernel memory", "mem"}, {"frames"}, {}),
  Step("reinit heap",  {"kernel memory"}, {"heap"}, {"globals"}),
  Step("bootstrap2",   {"frames", "paging"}, {"page tables"}, {}),
  Step("initKernel",   {"heap", "globals", "page tables"}, {"kernelSpace"}, {}) >>
\* The second heap forgets what the constructors allocated on the first.
MemorySteps == <<
  Step("memory map",   {"mbi", "heap"}, {"mem"}, {}),
  Step("copy boot16",  {"identity", "mem"}, {"boot16"}, {}),
  Step("bootstrap",    {"nx", "identity"}, {"paging"}, {"identity", "mbi"}),
  Step("remap",        {"paging"}, {"mbi"}, {}),
  Step("map FM",       {"paging", "mem"}, {"kernel memory"}, {}),
  Step("reinit heap",  {"kernel memory"}, {"heap"}, {"globals"}),
  Step("constructors", {"heap", "locks"}, {"globals"}, {}),
  Step("frameManager", {"heap", "globals", "kernel memory", "mem"}, {"frames"}, {}),
  Step("bootstrap2",   {"frames", "paging"}, {"page tables"}, {}),
  Step("dummyProc FM", {"frames"}, {"mapping"}, {}),
  Step("initKernel",   {"heap", "globals", "page tables"}, {"kernelSpace"}, {}) >>

ProcessorSteps == <<
  Step("initACPI",   {"mbi", "kernelSpace", "mapping"}, {"acpi"}, {}),
  Step("IOAPICs",    {"acpi", "kernelSpace", "mapping", "idt"}, {"ioapics"}, {}),
  Step("processors", {"acpi", "heap", "kernelSpace"}, {"processors"}, {}),
  Step("APIC",       {"kernelSpace", "mapping", "processors"}, {"apic", "bspIndex"}, {}),
  Step("init",       {"bspIndex", "idt", "paging"}, {"current thread"}, {}) >>

LateSteps == <<
  Step("initGdb",     {"acpi", "idt", "bspIndex", "serial"}, {}, {}),
  Step("RTC",         {"ioapics", "globals"}, {"rtc"}, {}),
  Step("PIT",         {"ioapics", "globals"}, {"pit"}, {}),
  Step("keyboard",    {"rtc", "ioapics", "globals"}, {}, {}),
  Step("interrupts",  {"apic", "idt", "current thread", "processors", "rtc", "globals"}, {"irq"}, {}),
  Step("test IPI",    {"irq", "apic"}, {}, {}),
  Step("start APs",   {"irq", "pit", "apic", "boot16", "boot code", "paging"}, {"cpus"}, {}),
  Step("readModules", {"mbi", "heap"}, {"files"}, {}),
  Step("initACPI2",   {"acpi", "current thread"}, {}, {}),
  Step("CDI drivers", {"heap", "globals"}, {"drivers"}, {}),
  Step("PCI",         {"heap"}, {"devices"}, {}),
  Step("TCP/IP",      {"current thread"}, {"network"}, {}),
  Step("CDI devices", {"drivers", "devices", "network", "irq"}, {}, {}),
  Step("IRQ thread",  {"processors", "globals"}, {}, {}) >>

CleanupSteps == <<
  Step("free boot16",     {"frames"}, {}, {"boot16"}),
  Step("remap screen",    {"kernelSpace", "mapping", "output"}, {}, {}),
  Step("free boot code",  {"frames"}, {}, {"boot code"}),
  Step("kosMain",         {"files", "current thread"}, {}, {}) >>

Steps == EarlySteps \o MemorySteps \o ProcessorSteps \o LateSteps \o CleanupSteps
Booted == step > Len(Steps)

NoAP == [idx |-> ProcessorCount, at |-> "init", sent |-> 0]

\* The firmware lists the boot processor anywhere in its table; the search for
\* its APIC ID finds it (step "APIC").
BootInit ==
  /\ step = 1 /\ have = {"identity", "boot code"}
  /\ bspIndex \in TableIndex
  /\ starting = NoAP /\ apIndex = 0
  /\ ap = [i \in TableIndex |-> "off"]
  /\ object = [i \in TableIndex |-> ProcessorCount]
  /\ number = [i \in TableIndex |-> ProcessorCount]
  /\ bootTicket = 1 /\ bootServing = 1     \* the boot processor had ticket 0
  /\ lost = 0 /\ late = FALSE

Advance ==
  /\ step' = step + 1
  /\ have' = (have \ Steps[step].takes) \cup Steps[step].gives

RunStep ==
  /\ ~Booted /\ Steps[step].op # "start APs"
  /\ Advance
  /\ UNCHANGED <<bspIndex, starting, apIndex, ap, object, number, bootTicket, bootServing, lost, late>>

(***************************************************************************)
(* initBSP2: starting the other processors.                                *)
(***************************************************************************)
AtStart == ~Booted /\ Steps[step].op = "start APs"
NextAP == {i \in APs : ap[i] = "off" /\ \A j \in APs : ap[j] = "off" => i <= j}
Waiting(at) == AtStart /\ starting.idx < ProcessorCount /\ starting.at = at

BeginAP(i) ==
  /\ AtStart /\ starting = NoAP /\ i \in NextAP
  /\ apIndex' = i /\ starting' = [NoAP EXCEPT !.idx = i]
  /\ UNCHANGED <<step, have, bspIndex, ap, object, number, bootTicket, bootServing, lost, late>>

\* INIT resets a processor wherever it is.
SendInitIPI ==
  LET i == starting.idx
  IN  /\ Waiting("init")
      /\ starting' = [starting EXCEPT !.at = "startup", !.sent = 0]
      /\ ap' = [ap EXCEPT ![i] = "init"]
      /\ late' = (late \/ ap[i] \notin {"off", "init", "boot.S"})
      /\ UNCHANGED <<step, have, bspIndex, apIndex, object, number, bootTicket, bootServing, lost>>

\* A processor that waits for it starts boot.S; others ignore a Startup IPI.
SendStartupIPI ==
  LET i == starting.idx
  IN  /\ Waiting("startup")
      /\ starting' = [starting EXCEPT !.at = "poll", !.sent = @ + 1]
      /\ \/ ap[i] # "init" /\ UNCHANGED <<ap, lost>>
         \/ ap[i] = "init" /\ ap' = [ap EXCEPT ![i] = "boot.S"] /\ UNCHANGED lost
         \/ ap[i] = "init" /\ lost < MaxLost /\ lost' = lost + 1 /\ UNCHANGED ap
      /\ UNCHANGED <<step, have, bspIndex, apIndex, object, number, bootTicket, bootServing, late>>

SeeAP_Early ==
  /\ Waiting("poll")
  /\ starting' = NoAP
  /\ UNCHANGED <<step, have, bspIndex, apIndex, ap, object, number, bootTicket, bootServing, lost, late>>

\* apDone.
SeeAP ==
  /\ Waiting("poll") /\ apIndex # starting.idx
  /\ starting' = NoAP
  /\ UNCHANGED <<step, have, bspIndex, apIndex, ap, object, number, bootTicket, bootServing, lost, late>>

TimeUp_Once ==
  /\ Waiting("poll") /\ apIndex = starting.idx /\ starting.sent < Startups
  /\ starting' = [starting EXCEPT !.at = "startup"]
  /\ UNCHANGED <<step, have, bspIndex, apIndex, ap, object, number, bootTicket, bootServing, lost, late>>

\* A second without an answer: the next Startup IPI, or after the last one INIT.
TimeUp ==
  /\ Waiting("poll") /\ apIndex = starting.idx
  /\ starting' = [starting EXCEPT !.at = IF starting.sent < Startups THEN "startup" ELSE "init"]
  /\ UNCHANGED <<step, have, bspIndex, apIndex, ap, object, number, bootTicket, bootServing, lost, late>>

AllStarted ==
  /\ AtStart /\ starting = NoAP /\ NextAP = {}
  /\ Advance
  /\ UNCHANGED <<bspIndex, starting, apIndex, ap, object, number, bootTicket, bootServing, lost, late>>

(***************************************************************************)
(* Application processors.                                                 *)
(***************************************************************************)
TakeBootTicket(i) ==
  /\ ap[i] = "boot.S" /\ ap' = [ap EXCEPT ![i] = "spin"]
  /\ bootTicket < ProcessorCount + MaxWasted
  /\ number' = [number EXCEPT ![i] = bootTicket] /\ bootTicket' = bootTicket + 1
  /\ UNCHANGED <<step, have, bspIndex, starting, apIndex, object, bootServing, lost, late>>

\* Passes the ticket lock and releases it, then moves to the boot stack.
PassBootLock(i) ==
  /\ ap[i] = "spin" /\ number[i] = bootServing /\ bootServing' = bootServing + 1
  /\ ap' = [ap EXCEPT ![i] = "boot stack"]
  /\ UNCHANGED <<step, have, bspIndex, starting, apIndex, object, number, bootTicket, lost, late>>

\* initAP: asserts its number and takes the processor object.
InitAP(i) ==
  /\ ap[i] = "boot stack"
  /\ IF number[i] = apIndex
       THEN ap' = [ap EXCEPT ![i] = "initAP"] /\ object' = [object EXCEPT ![i] = apIndex]
       ELSE ap' = [ap EXCEPT ![i] = "failed"] /\ UNCHANGED object
  /\ UNCHANGED <<step, have, bspIndex, starting, apIndex, number, bootTicket, bootServing, lost, late>>

\* Processor::init moves to a stack of its own; initAP2 tells the boot processor.
InitAP2(i) ==
  /\ ap[i] = "initAP" /\ ap' = [ap EXCEPT ![i] = "initAP2"]
  /\ apIndex' = bspIndex
  /\ UNCHANGED <<step, have, bspIndex, starting, object, number, bootTicket, bootServing, lost, late>>

\* Enables interrupts and leaves the boot code for the idle thread.
TerminateBoot(i) ==
  /\ ap[i] = "initAP2" /\ ap' = [ap EXCEPT ![i] = "idle"]
  /\ UNCHANGED <<step, have, bspIndex, starting, apIndex, object, number, bootTicket, bootServing, lost, late>>

\* A failed assertion ends in Reboot.
BootFailed == \E i \in APs : ap[i] = "failed"

ApStep(i) ==
  /\ ~BootFailed
  /\ TakeBootTicket(i) \/ PassBootLock(i) \/ InitAP(i) \/ InitAP2(i) \/ TerminateBoot(i)

BspStep ==
  /\ ~BootFailed
  /\ \/ RunStep \/ SendInitIPI \/ SendStartupIPI \/ SeeAP \/ TimeUp \/ AllStarted
     \/ \E i \in APs : BeginAP(i)

BootNext == BspStep \/ \E i \in APs : ApStep(i)
BootSpec == BootInit /\ [][BootNext]_bootVars

(***************************************************************************)
(* Properties.                                                             *)
(***************************************************************************)
\* Every initialisation step finds what it uses set up and not yet taken away:
\* the comments in initBSP and initBSP2 give the reasons for their order
\* ("<- need paging bootstrapped", "<- need dynamic memory", "needs current
\* thread") (Machine.cc:135-440).
BootOrder == ~Booted => Steps[step].needs \subseteq have

\* At most one processor is on the boot stack, although an AP releases the ticket
\* lock before it starts to use that stack; unless an AP was reset after it had
\* drawn a ticket (boot.S:199-211, Machine.cc:346-370).
BootStackExclusive ==
  ~late => Cardinality({i \in APs : ap[i] \in {"boot stack", "initAP"}}) <= 1

\* Every AP initialises its own entry of the processor table, under the same
\* condition: an AP that is reset between its report and the INIT IPI starts once
\* more while the next one is waited for, and takes that one's entry
\* (Machine.cc:120-121, 127, 348-363).
OwnProcessorObject == ~late => \A i \in APs : object[i] \in {i, ProcessorCount}

\* "KASSERT1(idx == apIndex, idx)" (Machine.cc:120): the number that an AP drew in
\* boot.S is the index the boot processor is waiting for if the boot processor is
\* the first in the processor table and every AP gets from its ticket to its
\* report in time; if it is not the first, no AP ever passes the assertion.
BootIndexAgrees ==
  \A i \in APs : /\ ap[i] = "failed" => bspIndex # 0 \/ late
                 /\ ap[i] \in {"initAP", "initAP2", "idle"} => bspIndex = 0

\* With Startup IPIs lost only a bounded number of times, the system comes up
\* with all processors (Machine.cc:346-370).
AllProcessorsUp == <>[](Booted /\ \A i \in APs : ap[i] = "idle")
=============================================================================
