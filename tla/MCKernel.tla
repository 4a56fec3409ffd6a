------------------------------ MODULE MCKernel ------------------------------
(***************************************************************************)
(* Small instances of the parts of the kernel whose safety is checked      *)
(* together: the scheduler, context switching, physical memory, page       *)
(* tables, the data structures, the keyboard and the screen, and the       *)
(* firmware's tables.                                                      *)
(* They share no state, so a behaviour is one of the part that the         *)
(* variable part names, while the others rest.                             *)
(***************************************************************************)
EXTENDS MCScheduler, Context, Frames, Structures, Keyboard, Screen, Firmware, Paging

VARIABLE part

\* Boot modules, a memory map and other tags of multiboot information, with
\* sizes that need padding.
MCTags ==
  {[type |-> "end", size |-> 8], [type |-> "cmdline", size |-> 11],
   [type |-> "module", size |-> 20, name |-> "a", end |-> 200],
   [type |-> "module", size |-> 24, name |-> "a", end |-> 300],
   [type |-> "mmap", size |-> 17,
    entries |-> {[addr |-> 0, len |-> 4, free |-> TRUE], [addr |-> 4, len |-> 0, free |-> TRUE],
                 [addr |-> 8, len |-> 4, free |-> FALSE]}],
   [type |-> "acpi", size |-> 28]}
MCTagLists == BoundedSeq(MCTags, 3)

\* Subtables of the MADT: processors that repeat an id or are disabled, two
\* overrides of one interrupt, a type of no use and an unknown one.
MCSubtables ==
  {[type |-> "cpu", length |-> 8, cpu |-> c[1], id |-> c[2], enabled |-> c[3]] :
     c \in {<<0, 0, TRUE>>, <<0, 2, TRUE>>, <<1, 4, FALSE>>, <<1, 5, TRUE>>}}
  \cup {[type |-> "ioapic", length |-> 12, base |-> 0, at |-> a] : a \in {1, 2}}
  \cup {[type |-> "override", length |-> 10, from |-> 0, to |-> to] : to \in {2, 3}}
  \cup {[type |-> "address", length |-> 12, at |-> a] : a \in {7, 8}}
  \cup {[type |-> t, length |-> 6] : t \in {"ignored", "unknown"}}
MCMadts == BoundedSeq(MCSubtables, 3)

\* A PCI hierarchy: a host, two functions below it and two on the next bus, each
\* absent, a device, a bridge to the next bus, a bridge of another kind, or
\* something else, known (header 2) or not (3).  The host is the only one, or
\* there may be another.
MCSlots == {<<0, 1, 0>>, <<0, 1, 1>>, <<1, 0, 0>>, <<1, 0, 1>>}
Absent == [header |-> 9]
MCHeaders == {Absent} \cup [header : {0}, bridge : {FALSE}, multi : BOOLEAN]
             \cup [header : {1}, bridge : {TRUE}, multi : BOOLEAN]
             \cup [header : {1, 2, 3}, bridge : {FALSE}, multi : {FALSE}]
OneBridge(f) ==
  \A b \in {0, 1} : Cardinality({s \in MCSlots : s[1] = b /\ f[s].header = 1 /\ f[s].bridge}) <= 1
Fixed(multi) == [header |-> 0, bridge |-> FALSE, multi |-> multi, secondary |-> 0]
MCHosts == {<<0, 0, 0>> :> Fixed(multi) : multi \in BOOLEAN}
           \cup {(<<0, 0, 0>> :> Fixed(TRUE)) @@ (<<0, 0, 1>> :> Fixed(FALSE))}
MCPciTrees ==
  {host @@ (<<2, 0, 0>> :> Fixed(FALSE))
     @@ [s \in {u \in MCSlots : f[u] # Absent} |->
           [header |-> f[s].header, bridge |-> f[s].bridge, multi |-> f[s].multi, secondary |-> s[1] + 1]]
   : f \in {g \in [MCSlots -> MCHeaders] : OneBridge(g)}, host \in MCHosts}

\* A table of five entries per level: one for the user, the recursive one, two
\* for kernel memory and one for devices and the image.  A lazy page or a guard
\* of a program, a page of the kernel and a large one that would hold it.
MCUserMaps == {<<25, 1, "lazy">>, <<25, 1, "guard">>}
MCKernelMaps == {<<1250, 1, "alloc">>, <<1250, 2, "alloc">>}

MCSegments == <<<<1, 2>>, <<3, 3>>>>

Parts == {"scheduler", "context", "frames", "structures", "keyboard", "screen", "firmware",
          "paging"}

KernelInit ==
  /\ part \in Parts
  /\ SInit /\ ContextInit /\ FramesInit /\ StructuresInit /\ KbdInit /\ ScreenInit /\ FirmwareInit
  /\ IF part = "paging" THEN PagingInit
     ELSE pg = "none" /\ spaces = {} /\ ended = {} /\ wanted = {} /\ posted = {} /\ forgotten = {}
  /\ part # "structures" => under = "list"
  /\ part # "firmware" => table.kind = "acpi"

\* Only the scheduler is expected to go on for ever.
KernelNext ==
  /\ UNCHANGED part
  /\ \/ part = "scheduler" /\ SNext
          /\ UNCHANGED <<vector, framesVars, structureVars, kbdVars, screenVars, firmwareVars, ptVars>>
     \/ part = "context" /\ ContextNext
          /\ UNCHANGED <<vars, framesVars, structureVars, kbdVars, screenVars, firmwareVars, ptVars>>
     \/ part = "frames" /\ FramesNext
          /\ UNCHANGED <<vars, vector, structureVars, kbdVars, screenVars, firmwareVars, ptVars>>
     \/ part = "structures" /\ StructuresNext
          /\ UNCHANGED <<vars, vector, framesVars, kbdVars, screenVars, firmwareVars, ptVars>>
     \/ part = "keyboard" /\ KbdNext
          /\ UNCHANGED <<vars, vector, framesVars, structureVars, screenVars, firmwareVars, ptVars>>
     \/ part = "screen" /\ ScreenNext
          /\ UNCHANGED <<vars, vector, framesVars, structureVars, kbdVars, firmwareVars, ptVars>>
     \/ part = "firmware" /\ FirmwareNext
          /\ UNCHANGED <<vars, vector, framesVars, structureVars, kbdVars, screenVars, ptVars>>
     \/ part = "paging" /\ PagingNext
          /\ UNCHANGED <<vars, vector, framesVars, structureVars, kbdVars, screenVars, firmwareVars>>
     \/ part # "scheduler"
          /\ UNCHANGED <<vars, vector, framesVars, structureVars, kbdVars, screenVars, firmwareVars, ptVars>>

KernelSpec ==
  KernelInit /\ [][KernelNext]_<<part, vars, vector, framesVars, structureVars, kbdVars, screenVars, firmwareVars, ptVars>>

\* What is typed reaches the reader and what is written is shown, each key and
\* each character once and in order, and the machine is reset on request only
\* (Keyboard.cc:480-600, Screen.h:44-110).
ConsoleExact == KeysExact /\ ResetOnlyOnRequest /\ SegmentsShowTheirText

\* Physical memory is handed out once and page tables map what was asked for,
\* in every space, and give it back (FrameManager.h, Paging.h).
MemoryExact == FramesExact /\ (part = "paging" => PagingExact)
=============================================================================
