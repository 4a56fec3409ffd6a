------------------------------- MODULE Paging -------------------------------
(***************************************************************************)
(* Page tables of several levels (machine/Paging.h), reached the way the   *)
(* code reaches them: through the recursive entry of the top-level table,  *)
(* so that every access to a page entry is itself translated by the        *)
(* tables.  The kernel's space and the spaces cloned from it share the     *)
(* tables below their kernel entries.                                      *)
(* An address counts words of one page entry, so a page of level N has     *)
(* PtEntries^N of them; a frame is a page of level 1.  The state `pg` is   *)
(* the memory, the free frames, the installed table, whether no assertion  *)
(* has failed and no access to a table has faulted, and the page, if any,  *)
(* that was to be mapped where an entry is present.                        *)
(***************************************************************************)
EXTENDS Integers, Sequences, FiniteSets, SequencesExt, FiniteSetsExt

CONSTANTS PtLevels, PtEntries, RecIndex, KernBIndex,
          ImagePages,  \* pages of level 2 of the kernel's image
          PtFrames,    \* number of frames
          UserMaps, KernelMaps,  \* what is mapped: addresses, levels and kinds
          MaxSpaces,   \* bound on the spaces that exist at a time ...
          MaxForgotten \* ... and on the pages whose frames are not released

VARIABLES pg,          \* [mem, free, cr3, ok, over]
          spaces,      \* top-level tables of the cloned spaces ...
          ended,       \* ... of those whose user part has been cleared
          wanted,      \* what has been mapped and not unmapped ...
          posted,      \* ... unmapped, but not yet invalidated by all cores ...
          forgotten    \* ... unmapped without the release of its frame
ptVars == <<pg, spaces, ended, wanted, posted, forgotten>>

PtSize(n) == PtEntries ^ n
AllFrames == 0..(PtFrames - 1)
Lazy == PtFrames
Guard == PtFrames + 1
Zero == [p |-> FALSE, ps |-> FALSE, a |-> 0]
ZeroTable == [i \in 0..(PtEntries - 1) |-> Zero]
TableEntry(f) == [p |-> TRUE, ps |-> FALSE, a |-> f]
PageBit(n) == n > 1
IsPage(n, e) == n < PtLevels /\ (n = 1 \/ e.ps)

DevIndex == PtEntries - 1
KernelTop == DevIndex * PtSize(PtLevels)
KernelBase == DevIndex * PtSize(PtLevels) + (PtEntries - 2) * PtSize(PtLevels - 1)
CloneAddr == DevIndex * PtSize(PtLevels) + 3 * PtSize(1)

(***************************** addresses ***********************************)

PtPrefix[n \in 0..PtLevels] ==
  IF n = 0 THEN 0 ELSE RecIndex * PtSize(1 + PtLevels - n) + PtPrefix[n - 1]

GetTable(n, vma) == PtPrefix[n] + (vma \div PtSize(n + 1)) * PtSize(1)
GetEntry(n, vma) == PtPrefix[n] + vma \div PtSize(n)
GetIndex(n, vma) == (vma % PtSize(n + 1)) \div PtSize(n)

\* the processor: the word an address leads to, -1 for a page fault
RECURSIVE PageWalk(_, _, _, _)
PageWalk(mem, f, n, vma) ==
  LET e == mem[f][GetIndex(n, vma)] IN
  IF ~e.p THEN -1
  ELSE IF n = 1 \/ e.ps THEN e.a * PtEntries + (vma % PtSize(n))
  ELSE PageWalk(mem, e.a, n - 1, vma)

At(s, vma) == PageWalk(s.mem, s.cr3, PtLevels, vma)
Fail(s) == [s EXCEPT !.ok = FALSE]
GetPE(s, at) == LET w == At(s, at) IN
                IF w = -1 THEN Zero ELSE s.mem[w \div PtEntries][w % PtEntries]
SetPE(s, at, e) == LET w == At(s, at) IN
                   IF w = -1 THEN Fail(s) ELSE [s EXCEPT !.mem[w \div PtEntries][w % PtEntries] = e]
SetTable(s, at, table) == LET w == At(s, at) IN
                          IF w = -1 THEN Fail(s) ELSE [s EXCEPT !.mem[w \div PtEntries] = table]

(* The frame manager, whose choice among the free frames Frames models:    *)
(* here tables take the lowest and pages the highest, so that fewer states *)
(* differ in the names of frames only.  A frame that is not a table holds  *)
(* anything, here entries of the image.                                    *)
Junk == [i \in 0..(PtEntries - 1) |-> TableEntry(0)]
Block(n, f) == f..(f + PtEntries ^ (n - 1) - 1)
FreeBlocks(s, n) == {f \in s.free : f % PtEntries ^ (n - 1) = 0 /\ Block(n, f) \subseteq s.free}
TableFrame(s) == Min(s.free)
PageFrame(s, n) == Max(FreeBlocks(s, n))
TakeFrame(s, n, f) == [s EXCEPT !.free = @ \ Block(n, f)]
GiveBack(s, n, f) == [s EXCEPT !.free = @ \cup Block(n, f), !.ok = @ /\ f \notin s.free,
                               !.mem = [g \in AllFrames |-> IF g \in Block(n, f) THEN Junk ELSE @[g]]]

(******************************* mapping ***********************************)

NewTable_Dirty(s, n, vma, f) ==
  SetPE(TakeFrame(s, 1, f), GetEntry(n + 1, vma), TableEntry(f))

\* a new table is cleared through the entry that has just been set
NewTable(s, n, vma, f) ==
  SetTable(SetPE(TakeFrame(s, 1, f), GetEntry(n + 1, vma), TableEntry(f)),
           GetTable(n, vma), ZeroTable)

\* tables are created from the top down; false if a larger page is in the way
RECURSIVE MapTable(_, _, _)
MapTable(s, n, vma) ==
  IF n = PtLevels THEN [s |-> s, done |-> TRUE]
  ELSE LET up == MapTable(s, n + 1, vma)
           e == GetPE(up.s, GetEntry(n + 1, vma))
           f == TableFrame(up.s) IN
       IF ~up.done THEN up
       ELSE IF ~e.p
       THEN [s |-> NewTable(up.s, n, vma, f), done |-> TRUE]
       ELSE [s |-> up.s, done |-> ~IsPage(n + 1, e)]

Map(s, n, vma, present, a) ==
  LET t == MapTable(s, n, vma)
      at == GetEntry(n, vma) IN
  IF ~t.done THEN t
  ELSE [s |-> IF GetPE(t.s, at).p THEN [Fail(t.s) EXCEPT !.over = {<<n, vma>>}]
              ELSE SetPE(t.s, at, [p |-> present, ps |-> PageBit(n), a |-> a]),
        done |-> TRUE]

\* the entry must be a page; one that is lazy or a guard is cleared at once, one
\* that is present stays, without its P bit if others may still use it (async)
Unmap1(s, n, vma, async) ==
  LET e == GetPE(s, GetEntry(n, vma)) IN
  CASE IsPage(n, e) /\ e.p ->
         [s |-> IF async THEN SetPE(s, GetEntry(n, vma), [e EXCEPT !.p = FALSE]) ELSE s, found |-> TRUE]
    [] IsPage(n, e) /\ ~e.p /\ e.a \in {Lazy, Guard} ->
         [s |-> SetPE(s, GetEntry(n, vma), Zero), found |-> FALSE]
    [] OTHER -> [s |-> Fail(s), found |-> FALSE]

Unmap2(s, n, vma) ==
  [s |-> SetPE(s, GetEntry(n, vma), Zero), a |-> GetPE(s, GetEntry(n, vma)).a]

\* unmap2 takes the entry from unmap1, which has none for a lazy or guard page
Unmap(s, n, vma) ==
  LET r == Unmap1(s, n, vma, FALSE) IN
  IF r.found THEN Unmap2(r.s, n, vma).s ELSE Fail(r.s)

Status(n, e) == IF e.p THEN "Mapped"
                ELSE IF e.a \in {Lazy, Guard} THEN "Reserved"
                ELSE IF e.a = 0 THEN "Available" ELSE "Unmapped"

\* the size of the page the address belongs to, 0 if it has another status
RECURSIVE Test(_, _, _, _)
Test(s, n, vma, status) ==
  LET e == GetPE(s, GetEntry(n, vma)) IN
  IF e.p /\ ~IsPage(n, e) THEN Test(s, n - 1, vma, status)
  ELSE IF Status(n, e) \in status THEN PtSize(n) ELSE 0

RECURSIVE Vtop(_, _, _)
Vtop(s, n, vma) ==
  LET e == GetPE(s, GetEntry(n, vma)) IN
  IF IsPage(n, e) THEN e.a * PtEntries + (vma % PtSize(n)) ELSE Vtop(s, n - 1, vma)

RECURSIVE PageFault(_, _, _)
PageFault(s, n, vma) ==
  LET e == GetPE(s, GetEntry(n, vma))
      f == PageFrame(s, n) IN
  IF e.p /\ ~IsPage(n, e) THEN PageFault(s, n - 1, vma)
  ELSE IF ~e.p /\ IsPage(n, e) /\ e.a = Lazy
  THEN [s |-> SetPE(TakeFrame(s, n, f), GetEntry(n, vma), [e EXCEPT !.p = TRUE, !.a = f]), done |-> TRUE]
  ELSE [s |-> s, done |-> FALSE]

\* releases pages and tables of a range, the lower levels first
RECURSIVE ClearAll(_, _, _, _)
ClearAll(s, n, start, end) ==
  LET Clear(vma, r) ==
        LET e == GetPE(r, GetEntry(n, vma))
            below == IF ~e.p THEN r
                     ELSE IF IsPage(n, e) THEN GiveBack(r, n, e.a)
                     ELSE GiveBack(ClearAll(r, n - 1, vma, vma + PtSize(n)), 1, e.a) IN
        SetPE(below, GetEntry(n, vma), Zero)
      vmas == {start + i * PtSize(n) : i \in 0..((end - start) \div PtSize(n) - 1)}
  IN FoldSet(Clear, s, {vma \in vmas : GetPE(s, GetEntry(n, vma)) # Zero})

(******************************* booting ***********************************)

\* the five tables of bootMemPT lie at the start of the kernel's image
BootTables ==
  LET Link(table, i, f) == [table EXCEPT ![i] = TableEntry(f)]
      Large(m) == [p |-> TRUE, ps |-> TRUE, a |-> m * PtEntries] IN
  [f \in 0..4 |->
     CASE f = 0 -> Link(Link(Link(ZeroTable, RecIndex, 0), GetIndex(PtLevels, KernelTop - 1), 1),
                        GetIndex(PtLevels, KernelBase), 3)
       [] f = 1 -> Link(ZeroTable, GetIndex(PtLevels - 1, KernelTop - 1), 2)
       [] f = 2 -> ZeroTable
       [] f = 3 -> Link(ZeroTable, GetIndex(PtLevels - 1, KernelBase), 4)
       [] f = 4 -> [i \in 0..(PtEntries - 1) |-> IF i < ImagePages THEN Large(i) ELSE Zero]]

Bootstrap ==
  [mem |-> [f \in AllFrames |-> IF f \in 0..4 THEN BootTables[f] ELSE Junk],
   free |-> {}, cr3 |-> 0, ok |-> TRUE, over |-> {}]

Bootstrap2_Skips(s) == s

\* every kernel entry of the top-level table gets its table before cloning
Bootstrap2(s) ==
  LET Prepare(r, i) == MapTable(r, PtLevels - 1, i * PtSize(PtLevels)).s IN
  FoldLeft(Prepare, s, [i \in 1..(DevIndex - KernBIndex) |-> KernBIndex + i - 1])

\* the frame manager's own memory comes behind the image and is mapped first
FmAddr == KernelTop - PtSize(2)
FmFrame == ImagePages * PtEntries
InitBSP ==
  LET s == Map(Bootstrap, 2, FmAddr, TRUE, FmFrame).s IN
  Bootstrap2([s EXCEPT !.free = {f \in AllFrames : f >= FmFrame + PtEntries}])

Entry(r, vma, n, a) == [root |-> r, vma |-> vma, n |-> n, a |-> a]

PagingInit ==
  /\ pg = InitBSP
  /\ spaces = {} /\ ended = {} /\ posted = {} /\ forgotten = {}
  /\ wanted = {Entry(0, FmAddr, 2, FmFrame)}
              \cup {Entry(0, KernelBase + i * PtSize(2), 2, i * PtEntries) : i \in 0..(ImagePages - 1)}

(***************************** operations **********************************)

Plenty == FreeBlocks(pg, 2) # {} /\ Cardinality(pg.free) > 2 * PtEntries
Covers(w, vma) == vma \in w.vma..(w.vma + PtSize(w.n) - 1)
Overlaps(w, vma, n) == Covers(w, vma) \/ w.vma \in vma..(vma + PtSize(n) - 1)
Here(ws) == {w \in ws : w.root \in {0, pg.cr3}}

\* mapPageRegion, one page of it, of a range that getVmRange hands out and that
\* is not in use; it asserts that map succeeds
PtMap(root, vma, n, kind) ==
  /\ Plenty /\ \A w \in Here(wanted \cup posted) : ~Overlaps(w, vma, n)
  /\ LET f == PageFrame(pg, n)
         a == IF kind = "alloc" THEN f ELSE IF kind = "lazy" THEN Lazy ELSE Guard
         r == Map(IF kind = "alloc" THEN TakeFrame(pg, n, f) ELSE pg, n, vma, kind = "alloc", a) IN
     /\ pg' = IF r.done THEN r.s ELSE Fail(r.s)
     /\ wanted' = wanted \cup {Entry(root, vma, n, a)}
  /\ UNCHANGED <<spaces, ended, posted, forgotten>>

Retire_Keeps(s, w) == Unmap2(s, w.n, w.vma).s

\* the last core to invalidate a page clears its entry and releases its frame
Retire(s, w) ==
  LET r == Unmap2(s, w.n, w.vma) IN
  IF r.a \in {Lazy, Guard} THEN r.s ELSE GiveBack(r.s, w.n, r.a)

\* unmapPageRegion, not direct: a page that was present is posted if other cores
\* are active in the space; if not, it is unmapped and its frame not released
PtUnmap(w, others) ==
  /\ w \in Here(wanted) /\ \E c \in UserMaps \cup KernelMaps : w.vma = c[1] /\ w.n = c[2]
  /\ wanted' = wanted \ {w}
  /\ LET r == Unmap1(pg, w.n, w.vma, TRUE) IN
     \/ ~r.found /\ pg' = r.s /\ UNCHANGED <<posted, forgotten>>
     \/ r.found /\ others /\ pg' = r.s /\ posted' = posted \cup {w} /\ UNCHANGED forgotten
     \/ /\ r.found /\ ~others /\ Cardinality(forgotten) < MaxForgotten
        /\ LET u == Unmap2(r.s, w.n, w.vma) IN
           pg' = u.s /\ forgotten' = forgotten \cup {[n |-> w.n, a |-> u.a]}
        /\ UNCHANGED posted
  /\ UNCHANGED <<spaces, ended>>

\* runInvalidation, for a page that all other cores have invalidated
RetirePage(w) ==
  /\ w \in Here(posted)
  /\ pg' = Retire(pg, w)
  /\ posted' = posted \ {w}
  /\ UNCHANGED <<spaces, ended, wanted, forgotten>>

\* a program touches memory that is not present; only lazy pages get a frame
PtFault(w, offset) ==
  /\ w \in Here(wanted) /\ w.a \in {Lazy, Guard} /\ Plenty
  /\ LET r == PageFault(pg, PtLevels, w.vma + offset)
         f == PageFrame(pg, w.n) IN
     /\ pg' = IF r.done THEN r.s ELSE pg
     /\ wanted' = IF r.done THEN (wanted \ {w}) \cup {[w EXCEPT !.a = f]} ELSE wanted
  /\ UNCHANGED <<spaces, ended, posted, forgotten>>

\* cloneKernelPT: the new table is filled through a mapping at cloneAddr
CloneKernelPT(s, newpt) ==
  LET mapped == Map(TakeFrame(s, 1, newpt), 1, CloneAddr, TRUE, newpt).s
      kernelPE(i) == GetPE(mapped, PtPrefix[PtLevels] + i)
      table == [i \in 0..(PtEntries - 1) |->
                  IF i = RecIndex THEN TableEntry(newpt) ELSE IF i >= KernBIndex THEN kernelPE(i) ELSE Zero] IN
  Unmap(SetTable(mapped, CloneAddr, table), 1, CloneAddr)

NewSpace ==
  /\ Plenty /\ Cardinality(spaces) < MaxSpaces
  /\ LET newpt == TableFrame(pg) IN
     /\ pg' = CloneKernelPT(pg, newpt)
     /\ spaces' = spaces \cup {newpt}
  /\ UNCHANGED <<ended, wanted, posted, forgotten>>

InstallPT(r) ==
  /\ r \in ({0} \cup spaces) \ {pg.cr3} /\ r \notin ended
  /\ pg' = [pg EXCEPT !.cr3 = r]
  /\ UNCHANGED <<spaces, ended, wanted, posted, forgotten>>

\* clearUserPaging, in the space whose process has ended: the pages that only
\* this core has not invalidated come first
ClearUser ==
  /\ pg.cr3 \in spaces \ ended
  /\ LET mine == {w \in posted : w.root = pg.cr3}
         s == FoldSet(LAMBDA w, r : Retire(r, w), pg, mine) IN
     /\ pg' = ClearAll(s, PtLevels, 0, RecIndex * PtSize(PtLevels))
     /\ posted' = posted \ mine
  /\ ended' = ended \cup {pg.cr3}
  /\ wanted' = {w \in wanted : w.root # pg.cr3}
  /\ UNCHANGED <<spaces, forgotten>>

\* ~AddressSpace, once another table is installed
DestroySpace(r) ==
  /\ r \in ended \ {pg.cr3}
  /\ pg' = GiveBack(pg, 1, r)
  /\ spaces' = spaces \ {r} /\ ended' = ended \ {r}
  /\ UNCHANGED <<wanted, posted, forgotten>>

PagingNext ==
  /\ pg.ok
  /\ \/ \E c \in UserMaps : pg.cr3 \in spaces \ ended /\ PtMap(pg.cr3, c[1], c[2], c[3])
     \/ \E c \in KernelMaps : PtMap(0, c[1], c[2], c[3])
     \/ \E w \in wanted, others \in BOOLEAN : PtUnmap(w, others)
     \/ \E w \in posted : RetirePage(w)
     \/ \E w \in wanted : \E offset \in {0, PtSize(w.n) - 1} : PtFault(w, offset)
     \/ NewSpace \/ ClearUser
     \/ \E r \in {0} \cup spaces : InstallPT(r) \/ DestroySpace(r)

-----------------------------------------------------------------------------

Probes == UNION {{w.vma, w.vma + PtSize(w.n) - 1} : w \in wanted}
          \cup {c[1] : c \in UserMaps \cup KernelMaps} \cup {CloneAddr}

RECURSIVE TablesBelow(_, _)
TablesBelow(f, n) ==
  LET Below == {i \in 0..(PtEntries - 1) :
                  /\ pg.mem[f][i].p /\ ~IsPage(n, pg.mem[f][i])
                  /\ ~(n = PtLevels /\ i = RecIndex)} IN
  {f} \cup UNION {TablesBelow(pg.mem[f][i].a, n - 1) : i \in Below}

\* the entry of a page of level n is a table, and nothing is mapped below it
EmptyTable(n, vma) ==
  LET e == GetPE(pg, GetEntry(n, vma)) IN
  e.p /\ ~IsPage(n, e) /\ \A v \in vma..(vma + PtSize(n) - 1) : At(pg, v) = -1

(* Every access to a page entry through the recursive index reaches the    *)
(* entry meant, and in every space an address leads where it was mapped    *)
(* to, and nowhere else: kernel mappings made in one space are there in    *)
(* all, whenever those were cloned.  test and vtop report the same.  A     *)
(* frame is free, a table, part of one page that is mapped or waits for    *)
(* other cores, or was forgotten when the only active core unmapped it:    *)
(* none else is lost when a space is cleared and destroyed.                *)
(* No assertion of Paging.h fails but one: a large page that is mapped     *)
(* where small ones have been, none of them in use any more, meets their   *)
(* table, which unmapping leaves behind.                                   *)
PagingExact ==
  /\ pg.ok \/ \E m \in pg.over : EmptyTable(m[1], m[2])
  /\ pg.ok => \A root \in {0} \cup spaces, v \in Probes :
       LET ws == {w \in wanted : w.root \in {0, root} /\ Covers(w, v)}
           gone == {w \in posted : w.root \in {0, root} /\ Covers(w, v)}
           SizeIf(of, yes) == IF yes THEN PtSize((CHOOSE w \in of : TRUE).n) ELSE 0 IN
       /\ Cardinality(ws \cup gone) <= 1
       /\ PageWalk(pg.mem, root, PtLevels, v) =
            IF \E w \in ws : w.a \in AllFrames
            THEN LET w == CHOOSE w \in ws : TRUE IN w.a * PtEntries + (v - w.vma) ELSE -1
       /\ root = pg.cr3 =>
            /\ Test(pg, PtLevels, v, {"Mapped"}) = SizeIf(ws, \E w \in ws : w.a \in AllFrames)
            /\ Test(pg, PtLevels, v, {"Reserved"}) = SizeIf(ws, \E w \in ws : w.a \notin AllFrames)
            /\ Test(pg, PtLevels, v, {"Unmapped"}) = SizeIf(gone, gone # {})
            /\ Test(pg, PtLevels, v, {"Mapped"}) > 0 =>
                 Vtop(pg, PtLevels, v) = PageWalk(pg.mem, root, PtLevels, v)
  /\ pg.ok => pg.free = AllFrames \
       (UNION {TablesBelow(root, PtLevels) : root \in {0} \cup spaces}
        \cup UNION {Block(w.n, w.a) : w \in {x \in wanted \cup posted \cup forgotten : x.a \in AllFrames}})
=============================================================================
