------------------------------ MODULE Firmware ------------------------------
(***************************************************************************)
(* What the kernel learns from firmware and buses while it boots, as       *)
(* operators on the tables: the walks over the multiboot tags and over the *)
(* MADT, the scan of the PCI buses and the size of a BAR; and the memory   *)
(* mappings that the ACPI library asks for.  The tables are inputs: every  *)
(* initial state holds one of them.                                        *)
(***************************************************************************)
EXTENDS Integers, Sequences, FiniteSets, FiniteSetsExt, SequencesExt

CONSTANTS TagLists,     \* sequences of multiboot tags
          Madts,        \* sequences of MADT subtables
          PciTrees,     \* functions from <<bus, device, function>> to what is there
          MaxDevice, MaxFunction, MaxBus,
          BarBits,      \* width of a base address register, 32 in the code
          Page, Wheres, Lengths, MaxMappings,  \* ACPI mappings: page size, requests, bound
          MapBottom, MapTop     \* the kernel's addresses for mappings, in pages

VARIABLES table, mappings, granted,
          kernelMap, awaited, mapStart  \* pages mapped, pages that cores have to invalidate

firmwareVars == <<table, mappings, granted, kernelMap, awaited, mapStart>>

(******************************* multiboot *********************************)
RoundUp(n, a) == ((n + a - 1) \div a) * a

\* The boot loader's layout: every tag at an address that is a multiple of 8.
TagAt(tags, k) == 8 + FoldLeft(LAMBDA a, t : a + RoundUp(t.size, 8), 0, SubSeq(tags, 1, k - 1))
MbiEnd(tags) == TagAt(tags, Len(tags) + 1)
TagOn(tags, a) == CHOOSE k \in 1..Len(tags) : TagAt(tags, k) = a

NextTag_Unaligned(a, size) == a + size
NextTag(a, size) == a + RoundUp(size, 8)

\* FORALLTAGS from address a: the tags visited, in order
RECURSIVE ForAllTags(_, _)
ForAllTags(tags, a) ==
  IF a >= MbiEnd(tags) \/ ~\E k \in 1..Len(tags) : TagAt(tags, k) = a THEN <<>> ELSE
  LET t == tags[TagOn(tags, a)] IN
  IF t.type = "end" THEN <<>> ELSE <<t>> \o ForAllTags(tags, NextTag(a, t.size))

Walk(tags) == ForAllTags(tags, 8)

\* init: the end of everything the boot loader has put into memory
MultibootInit(tags) ==
  Max({MbiEnd(tags)} \cup {t.end : t \in {u \in ToSet(Walk(tags)) : u.type = "module"}})

GetRSDP(tags) == SelectSeq(Walk(tags), LAMBDA t : t.type = "acpi")

GetMemory(tags) ==
  UNION {{e \in t.entries : e.len > 0 /\ e.free} : t \in {u \in ToSet(Walk(tags)) : u.type = "mmap"}}

\* kernelFS.insert keeps the first module of a name
ReadModules(tags) ==
  LET mods == SelectSeq(Walk(tags), LAMBDA t : t.type = "module") IN
  {k \in 1..Len(mods) : \A j \in 1..(k - 1) : mods[j].name # mods[k].name}

(********************************* MADT ************************************)
MadtStep_Disabled(acc, sub) ==
  LET rest == [acc EXCEPT !.left = @ - sub.length] IN
  IF sub.type = "cpu" THEN [rest EXCEPT !.apicMap = @ \cup {<<sub.cpu, sub.id>>}] ELSE rest

\* map::insert keeps the first entry of a key
InsertFirst(map, key, value) == IF \E e \in map : e[1] = key THEN map ELSE map \cup {<<key, value>>}

\* The loop of initACPI; types that are known and of no use are "ignored", and
\* any other type aborts, as does a length beyond the table's end.
MadtStep(acc, sub) ==
  IF acc.failed \/ sub.length > acc.left THEN [acc EXCEPT !.failed = TRUE] ELSE
  LET rest == [acc EXCEPT !.left = @ - sub.length] IN
  CASE sub.type = "cpu" ->
         IF sub.enabled THEN [rest EXCEPT !.apicMap = InsertFirst(@, sub.cpu, sub.id)] ELSE rest
    [] sub.type = "ioapic" -> [rest EXCEPT !.ioApicMap = InsertFirst(@, sub.base, sub.at)]
    [] sub.type = "override" -> [rest EXCEPT !.ioOverrideMap = InsertFirst(@, sub.from, sub.to)]
    [] sub.type = "address" -> [rest EXCEPT !.apicAddr = sub.at]
    [] sub.type = "ignored" -> rest
    [] OTHER -> [acc EXCEPT !.failed = TRUE]
MadtWalk(subs) ==
  FoldLeft(MadtStep, [left |-> FoldLeft(LAMBDA n, s : n + s.length, 0, subs), failed |-> FALSE, apicMap |-> {},
                      ioApicMap |-> {}, ioOverrideMap |-> {}, apicAddr |-> 0], subs)

(********************************** PCI ************************************)
Present(pci, b, d, f) == <<b, d, f>> \in DOMAIN pci

\* A scan so far: the devices listed, and whether the kernel has aborted.
RECURSIVE CheckBus(_, _, _)

\* checkFunction: a device is listed, the bus behind a PCI-to-PCI bridge is
\* scanned, a header of an unknown type aborts
CheckFunction(scan, pci, b, d, f) ==
  LET p == pci[b, d, f] IN
  CASE scan.aborted -> scan
    [] ~scan.aborted /\ p.header = 0 -> [scan EXCEPT !.listed = Append(@, <<b, d, f>>)]
    [] ~scan.aborted /\ p.header = 1 -> IF p.bridge THEN CheckBus(scan, pci, p.secondary) ELSE scan
    [] ~scan.aborted /\ p.header = 2 -> scan
    [] OTHER -> [scan EXCEPT !.aborted = TRUE]

CheckDevice_OneFunction(scan, pci, b, d) ==
  IF ~Present(pci, b, d, 0) THEN scan ELSE CheckFunction(scan, pci, b, d, 0)

CheckDevice(scan, pci, b, d) ==
  LET first == CheckFunction(scan, pci, b, d, 0)
      Function(s, f) == IF Present(pci, b, d, f) THEN CheckFunction(s, pci, b, d, f) ELSE s IN
  IF ~Present(pci, b, d, 0) THEN scan
  ELSE IF ~pci[b, d, 0].multi THEN first
  ELSE FoldLeft(Function, first, [f \in 1..(MaxFunction - 1) |-> f])

CheckBus(scan, pci, b) ==
  FoldLeft(LAMBDA s, d : CheckDevice(s, pci, b, d - 1), scan, [d \in 1..MaxDevice |-> d])

\* checkAllBuses; with several host controllers, the bus of each controller that
\* is not there
CheckAllBuses(pci) ==
  LET none == [listed |-> <<>>, aborted |-> FALSE]
      Controller(s, f) == IF ~Present(pci, 0, 0, f - 1) THEN CheckBus(s, pci, f - 1) ELSE s IN
  IF ~pci[0, 0, 0].multi THEN CheckBus(none, pci, 0)
  ELSE FoldLeft(Controller, none, [f \in 1..MaxBus |-> f])

\* What is there: functions of devices on a bus that bridges connect to another.
Usable(pci, p) == p[3] = 0 \/ (Present(pci, p[1], p[2], 0) /\ pci[p[1], p[2], 0].multi)
RECURSIVE Reach(_, _)
Reach(pci, buses) ==
  LET more == buses \cup {pci[p].secondary : p \in {q \in DOMAIN pci : q[1] \in buses /\ Usable(pci, q)
                                                                     /\ pci[q].header = 1 /\ pci[q].bridge}}
  IN IF more = buses THEN buses ELSE Reach(pci, more)

\* A base address register keeps only the address bits above its size; flags are read-only.
BarWrite(size, flags, v) == (v \div size) * size + flags
Ones == 2^BarBits - 1

GetBARSize_NotBack(size, flags, bar) ==
  [size |-> (2^BarBits - BarWrite(size, flags, Ones)) % 2^BarBits, bar |-> BarWrite(size, flags, Ones)]
GetBARSize(size, flags, bar) ==
  LET mask == BarWrite(size, flags, Ones) IN
  [size |-> (2^BarBits - mask) % 2^BarBits, bar |-> BarWrite(size, flags, bar)]

(****************************** ACPI mappings ******************************)
PagesOf(vma, size) == (vma \div Page)..((vma + size) \div Page - 1)
NoRange == -1

\* getVmRange, with no address given: the pages below those handed out before
GetVmRange(size) == IF mapStart - size < MapBottom * Page THEN NoRange ELSE mapStart - size

\* putVmRange of the lowest page handed out: what is unused above it, as well
PutVmRange(page, used) ==
  IF page * Page <= mapStart /\ (page + 1) * Page >= mapStart
  THEN Min({v \in (page + 1)..MapTop : v = MapTop \/ v \in used}) * Page ELSE mapStart

\* with no range left the kernel stops: a page at topaddr is not aligned
AcpiOsMapMemory(where, length) ==
  LET pma == (where \div Page) * Page
      size == RoundUp(where + length, Page) - pma
      vma == GetVmRange(size) IN
  /\ Cardinality(granted) < MaxMappings
  /\ mapStart' = vma
  /\ IF vma = NoRange THEN UNCHANGED <<kernelMap, mappings, granted>>
     ELSE /\ kernelMap' = kernelMap \cup PagesOf(vma, size)
          /\ mappings' = mappings \cup {<<vma, size>>}
          /\ granted' = granted \cup {<<vma + where - pma, length>>}
  /\ UNCHANGED <<table, awaited>>

UnmapSize_NoOffset(address, size) == RoundUp(size, Page)
UnmapSize(address, size) == RoundUp(size + address - (address \div Page) * Page, Page)

\* unmap: with other cores active the pages are posted, one by one
AcpiOsUnmapMemory(address, length, others) ==
  LET vma == (address \div Page) * Page  size == UnmapSize(address, length)
      pages == PagesOf(vma, size) IN
  /\ <<address, length>> \in granted
  /\ granted' = granted \ {<<address, length>>}
  /\ kernelMap' = kernelMap \ pages
  /\ mappings' = mappings \ {<<vma, size>>}
  /\ awaited' = IF others THEN awaited \o SetToSortSeq(pages, LAMBDA p, q : p < q) ELSE awaited
  /\ UNCHANGED <<table, mapStart>>

\* runInvalidation by the last core, for the page posted first
RetireMapping ==
  /\ awaited # <<>> /\ awaited' = Tail(awaited)
  /\ mapStart' = PutVmRange(Head(awaited), kernelMap \cup ToSet(Tail(awaited)))
  /\ UNCHANGED <<table, mappings, granted, kernelMap>>

FirmwareInit ==
  /\ mappings = {} /\ kernelMap = {} /\ granted = {} /\ awaited = <<>> /\ mapStart = MapTop * Page
  /\ table \in [kind : {"tags"}, is : TagLists] \cup [kind : {"madt"}, is : Madts]
               \cup [kind : {"pci"}, is : PciTrees] \cup [kind : {"acpi"}, is : {0}]
               \cup [kind : {"bar"}, is : {<<k, b>> \in (1..(BarBits - 1)) \X (0..Ones) : b % 2^k = 0}]

FirmwareNext ==
  /\ table.kind = "acpi" /\ mapStart # NoRange
  /\ \/ \E w \in Wheres, n \in Lengths : AcpiOsMapMemory(w, n)
     \/ \E g \in granted, others \in BOOLEAN : AcpiOsUnmapMemory(g[1], g[2], others)
     \/ RetireMapping

-----------------------------------------------------------------------------

(* The walk visits exactly the tags in front of the end tag, so that no     *)
(* memory region, module or root pointer is missed or read from the middle  *)
(* of a tag, and the kernel starts to allocate above all modules            *)
(* (Multiboot.cc, FORALLTAGS and its users).                                *)
Before(tags) ==
  LET stop == {k \in 1..Len(tags) : tags[k].type = "end"} IN
  SubSeq(tags, 1, IF stop = {} THEN Len(tags) ELSE Min(stop) - 1)
TagsExact ==
  table.kind = "tags" =>
    LET tags == table.is  seen == ToSet(Before(tags)) IN
    /\ Walk(tags) = Before(tags)
    /\ \A t \in seen : t.type = "module" => t.end <= MultibootInit(tags)
    /\ GetMemory(tags) = {e \in UNION {t.entries : t \in {u \in seen : u.type = "mmap"}} : e.len > 0 /\ e.free}
    /\ {t.name : t \in {u \in seen : u.type = "module"}} =
         {SelectSeq(Walk(tags), LAMBDA t : t.type = "module")[k].name : k \in ReadModules(tags)}
    /\ GetRSDP(tags) # <<>> <=> \E t \in seen : t.type = "acpi"

(* The MADT walk aborts for a subtable of an unknown type only, and ends     *)
(* with nothing left: of the enabled processors, the I/O APICs and the      *)
(* overrides the first of each number counts, of the addresses the last     *)
(* (ACPI.h:86-134).                                                         *)
MadtExact ==
  table.kind = "madt" =>
    LET subs == table.is  r == MadtWalk(subs)
        First1(Of(_), Key(_), Value(_)) ==
          {<<Key(subs[k]), Value(subs[k])>> : k \in
             {k \in 1..Len(subs) : /\ Of(subs[k])
                                   /\ \A j \in 1..(k - 1) : Of(subs[j]) => Key(subs[j]) # Key(subs[k])}} IN
    /\ r.failed <=> \E s \in ToSet(subs) : s.type = "unknown"
    /\ ~r.failed =>
         /\ r.left = 0
         /\ r.apicMap = First1(LAMBDA s : s.type = "cpu" /\ s.enabled, LAMBDA s : s.cpu, LAMBDA s : s.id)
         /\ r.ioApicMap = First1(LAMBDA s : s.type = "ioapic", LAMBDA s : s.base, LAMBDA s : s.at)
         /\ r.ioOverrideMap = First1(LAMBDA s : s.type = "override", LAMBDA s : s.from, LAMBDA s : s.to)
         /\ LET o == {k \in 1..Len(subs) : subs[k].type = "address"} IN
              r.apicAddr = IF o = {} THEN 0 ELSE subs[Max(o)].at

(* With one host controller the scan lists every device behind any depth of *)
(* PCI-to-PCI bridges once, and with several the devices that are reached   *)
(* from the buses of those that are not there.  It aborts if and only if    *)
(* something of an unknown header type is reached (PCI.cc:20-82).           *)
ScanExact ==
  table.kind = "pci" =>
    LET pci == table.is  scan == CheckAllBuses(pci)
        roots == IF pci[0, 0, 0].multi THEN {f \in 0..(MaxBus - 1) : ~Present(pci, 0, 0, f)} ELSE {0}
        reached == {p \in DOMAIN pci : p[1] \in Reach(pci, roots) /\ Usable(pci, p)} IN
    /\ scan.aborted <=> \E p \in reached : pci[p].header \notin 0..2
    /\ ~scan.aborted => ToSet(scan.listed) = {p \in reached : pci[p].header = 0}
    /\ ~pci[0, 0, 0].multi => Len(scan.listed) = Cardinality(ToSet(scan.listed))

(* getBARSize returns the size of a region whose flag bits are zero, and    *)
(* leaves the register as it was (PCI.h:190-196).                           *)
BarSizeExact ==
  table.kind = "bar" =>
    LET size == 2^table.is[1]  r == GetBARSize(size, 0, table.is[2]) IN
    r.size = size /\ r.bar = table.is[2]

(* AcpiOsUnmapMemory computes the address and size that AcpiOsMapMemory has *)
(* recorded: what ACPICA returns is unmapped completely, nothing else is,   *)
(* and `mappings` is empty at the end, which initACPI2 asserts.  No page is *)
(* mapped while it is in use or waits for a core's invalidation, which      *)
(* would then clear the new entry.                                          *)
MappingsExact ==
  /\ kernelMap = UNION {PagesOf(m[1], m[2]) : m \in mappings}
  /\ \A m, n \in mappings : m # n => PagesOf(m[1], m[2]) \cap PagesOf(n[1], n[2]) = {}
  /\ kernelMap \cap ToSet(awaited) = {} /\ IsInjective(awaited)
  /\ \A g \in granted : \E m \in mappings : m[1] <= g[1] /\ g[1] + g[2] <= m[1] + m[2]
  /\ granted = {} => mappings = {} /\ kernelMap = {}

(* Every walk over what the firmware left finds all of it, and nothing that *)
(* is not there (Multiboot.cc, ACPI.h, PCI.cc).                             *)
FirmwareExact == TagsExact /\ MadtExact /\ ScanExact /\ BarSizeExact /\ MappingsExact
=============================================================================
