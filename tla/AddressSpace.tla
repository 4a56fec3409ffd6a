---------------------------- MODULE AddressSpace ----------------------------
(***************************************************************************)
(* One address space: its page table, the range of virtual pages handed    *)
(* out from the top down, the translations the cores have cached, and the  *)
(* list of pages whose frames wait until every core has dropped its        *)
(* translation (PageInvalidation).  `kernel` tells the kernel space, which *)
(* all cores use all the time and which they invalidate at every interrupt,*)
(* from a process's, which cores enter and leave.                          *)
(* A section under vlock, plock or ulock is one action.  Pages, frames and *)
(* records are numbers; an entry with P clear and a frame is one that      *)
(* waits ("Unmapped" in Paging::test).                                     *)
(***************************************************************************)
EXTENDS Integers, Sequences, FiniteSets, SequencesExt

CONSTANTS Cores, Mappers, Kinds, NPages, NFrames, MaxRegion, MaxPosts

ASSUME SpaceAssumption ==
  /\ {NPages, NFrames, MaxRegion, MaxPosts} \subseteq Nat
  /\ Mappers \subseteq Cores /\ Kinds \subseteq BOOLEAN /\ Kinds # {}

VARIABLES kernel, pt, free, mapStart, activeCores, invList, lastPI, pi, within,
          tlb, op, regions, leaked, contended, mapFailed

tableVars == <<pt, free, leaked>>
rangeVars == <<mapStart, regions>>
invVars == <<activeCores, invList, lastPI, pi, within>>
spaceVars == <<kernel, tableVars, rangeVars, invVars, tlb, op, contended, mapFailed>>

Pages == 1..NPages
PhysFrames == 1..NFrames
LazyPage == NFrames + 1
GuardPage == NFrames + 2
NoEntry == [p |-> FALSE, a |-> 0]
NoOp == [at |-> "none", page |-> 0, end |-> 0, frame |-> 0]

\* a new space; the kernel's has been entered by every core (initProcessor)
SpaceInit ==
  /\ kernel \in Kinds
  /\ pt = [v \in Pages |-> NoEntry] /\ free = PhysFrames /\ leaked = {}
  /\ mapStart = NPages + 1 /\ regions = {}
  /\ activeCores = (IF kernel THEN Cardinality(Cores) ELSE 0)
  /\ within = [c \in Cores |-> IF kernel THEN "in" ELSE "out"]
  /\ invList = <<>> /\ lastPI = 1 /\ pi = [c \in Cores |-> 1]
  /\ tlb = [c \in Cores |-> [v \in Pages |-> 0]]
  /\ op = [c \in Cores |-> NoOp] /\ contended = {} /\ mapFailed = FALSE

OpAt(c, a) == op[c].at = a /\ within[c] = "in" /\ ~mapFailed
OpNext(c) == op' = [op EXCEPT ![c] = IF @.page + 1 = @.end THEN NoOp
                                     ELSE [@ EXCEPT !.page = @ + 1, !.frame = 0]]
OpGoto(c, a) == op' = [op EXCEPT ![c].at = a]

(***************************** mapping *************************************)

GetVmRange_NoTest(c, n) ==
  /\ c \in Mappers /\ OpAt(c, "none")
  /\ mapStart' = mapStart - n
  /\ op' = [op EXCEPT ![c] = [at |-> "map", page |-> mapStart - n, end |-> mapStart, frame |-> n]]
  /\ UNCHANGED <<kernel, tableVars, regions, invVars, tlb, contended, mapFailed>>

\* getVmRange without an address; mapping the range it returns comes later
GetVmRange(c, n) ==
  /\ c \in Mappers /\ OpAt(c, "none")
  /\ mapStart - n >= 1
  /\ mapStart' = mapStart - n
  /\ \E guard \in BOOLEAN :
       op' = [op EXCEPT ![c] = [at |-> IF guard THEN "guard" ELSE "map",
                                page |-> mapStart - n, end |-> mapStart, frame |-> n]]
  /\ UNCHANGED <<kernel, tableVars, regions, invVars, tlb, contended, mapFailed>>

\* Paging::map asserts that the entry is not present
SetEntry(c, e, rest) ==
  LET v == op[c].page IN
  IF pt[v].p THEN mapFailed' = TRUE /\ UNCHANGED <<pt, free, op, regions>>
  ELSE /\ pt' = [pt EXCEPT ![v] = e]
       /\ free' = free \ {e.a}
       /\ IF v + 1 = op[c].end
            THEN /\ op' = [op EXCEPT ![c] = NoOp]
                 /\ regions' = regions \cup {[start |-> op[c].end - op[c].frame,
                                              end |-> op[c].end]}
            ELSE /\ op' = [op EXCEPT ![c].page = v + 1, ![c].at = rest]
                 /\ UNCHANGED regions
       /\ UNCHANGED mapFailed

\* the frame manager hands out the lowest free frame
AllocFrame == {f \in free : \A g \in free : f <= g}

\* the kernel's pages get frames at once, a process's when they are touched
MapPage(c) ==
  /\ \/ OpAt(c, "guard") /\ SetEntry(c, [p |-> FALSE, a |-> GuardPage], "map")
     \/ OpAt(c, "map") /\ kernel
        /\ \E f \in AllocFrame : SetEntry(c, [p |-> TRUE, a |-> f], "map")
     \/ OpAt(c, "map") /\ ~kernel /\ SetEntry(c, [p |-> FALSE, a |-> LazyPage], "map")
  /\ UNCHANGED <<kernel, leaked, mapStart, invVars, tlb, contended>>

(**************************** access, faults *******************************)

\* the hardware caches what it finds; only code that runs in the space does so
Touch(c, v) ==
  /\ within[c] = "in" /\ ~mapFailed
  /\ tlb[c][v] = 0 /\ pt[v].p
  /\ tlb' = [tlb EXCEPT ![c][v] = pt[v].a]
  /\ UNCHANGED <<kernel, tableVars, rangeVars, invVars, op, contended, mapFailed>>

\* Paging::fault reads the entry, takes a frame and writes the entry, all
\* without plock; a program touches what it has mapped
Fault(c, v) ==
  /\ OpAt(c, "none") /\ \E r \in regions : v \in r.start..(r.end - 1)
  /\ tlb[c][v] = 0 /\ ~pt[v].p /\ pt[v].a = LazyPage
  /\ \E f \in AllocFrame :
       /\ free' = free \ {f}
       /\ op' = [op EXCEPT ![c] = [at |-> "fault", page |-> v, end |-> v + 1, frame |-> f]]
  /\ contended' = IF \E d \in Cores : op[d].at = "fault" /\ op[d].page = v
                  THEN contended \cup {v} ELSE contended
  /\ UNCHANGED <<kernel, pt, leaked, rangeVars, invVars, tlb, mapFailed>>

FaultEnd(c) ==
  LET v == op[c].page IN
  /\ OpAt(c, "fault")
  /\ pt' = [pt EXCEPT ![v] = [p |-> TRUE, a |-> op[c].frame]]
  /\ leaked' = IF pt[v].a \in PhysFrames THEN leaked \cup {pt[v].a} ELSE leaked
  /\ OpNext(c)
  /\ UNCHANGED <<kernel, free, rangeVars, invVars, tlb, contended, mapFailed>>

(***************************** unmapping ***********************************)

\* what a program unmaps it has mapped, and nobody else uses any more
UnmapRegion(c, r) ==
  /\ OpAt(c, "none")
  /\ \A d \in Cores \ {c} : op[d].page \notin r.start..(r.end - 1)
  /\ regions' = regions \ {r}
  /\ op' = [op EXCEPT ![c] = [at |-> "unmap", page |-> r.start, end |-> r.end, frame |-> 0]]
  /\ UNCHANGED <<kernel, tableVars, mapStart, invVars, tlb, contended, mapFailed>>

\* unmap1: a present entry only loses P, a lazy or guard entry is cleared
UnmapPage1(c) ==
  LET v == op[c].page IN
  /\ OpAt(c, "unmap")
  /\ IF pt[v].p THEN pt' = [pt EXCEPT ![v].p = FALSE] /\ OpGoto(c, "post")
                ELSE pt' = [pt EXCEPT ![v] = NoEntry] /\ OpNext(c)
  /\ UNCHANGED <<kernel, free, leaked, rangeVars, invVars, tlb, contended, mapFailed>>

\* with other cores active, the frame waits for all of them
Post_One(c) ==
  LET v == op[c].page IN
  /\ OpAt(c, "post") /\ lastPI <= MaxPosts
  /\ IF activeCores > 1
       THEN /\ invList' = Append(invList, [id |-> lastPI, page |-> v, count |-> activeCores - 1])
            /\ lastPI' = lastPI + 1
            /\ op' = [op EXCEPT ![c] = IF v + 1 = @.end THEN NoOp
                                       ELSE [@ EXCEPT !.page = v + 1, !.at = "unmap"]]
       ELSE OpGoto(c, "unmap2") /\ UNCHANGED <<invList, lastPI>>
  /\ UNCHANGED <<kernel, tableVars, rangeVars, activeCores, pi, within, tlb, contended,
                 mapFailed>>

Post(c) ==
  LET v == op[c].page IN
  /\ OpAt(c, "post") /\ lastPI <= MaxPosts
  /\ IF activeCores > 1
       THEN /\ invList' = Append(invList, [id |-> lastPI, page |-> v, count |-> activeCores])
            /\ lastPI' = lastPI + 1
            /\ op' = [op EXCEPT ![c] = IF v + 1 = @.end THEN NoOp
                                       ELSE [@ EXCEPT !.page = v + 1, !.at = "unmap"]]
       ELSE OpGoto(c, "unmap2") /\ UNCHANGED <<invList, lastPI>>
  /\ UNCHANGED <<kernel, tableVars, rangeVars, activeCores, pi, within, tlb, contended,
                 mapFailed>>

\* alone, the entry is cleared at once; its frame is not given back
UnmapPage2(c) ==
  LET v == op[c].page IN
  /\ OpAt(c, "unmap2")
  /\ leaked' = leaked \cup {pt[v].a}
  /\ pt' = [pt EXCEPT ![v] = NoEntry]
  /\ tlb' = [tlb EXCEPT ![c][v] = 0]
  /\ op' = [op EXCEPT ![c] = IF v + 1 = @.end THEN NoOp
                             ELSE [@ EXCEPT !.page = v + 1, !.at = "unmap"]]
  /\ UNCHANGED <<kernel, free, rangeVars, invVars, contended, mapFailed>>

(**************************** invalidation *********************************)

\* putVmRange: the range grows back over the free entries that follow
PutVmRange(table, start, v) ==
  IF v <= start /\ v + 1 >= start
    THEN CHOOSE e \in (v + 1)..(NPages + 1) :
           /\ \A w \in (v + 1)..(e - 1) : table[w] = NoEntry
           /\ e = NPages + 1 \/ table[e] # NoEntry
    ELSE start

Retire_KeepsEntry(s, r) ==
  [pt |-> s.pt, free |-> s.free \cup {s.pt[r.page].a}, start |-> PutVmRange(s.pt, s.start, r.page)]

\* unmap2, releaseFrames, putVmRange for a record whose last core has come
Retire(s, r) ==
  LET table == [s.pt EXCEPT ![r.page] = NoEntry] IN
  [pt |-> table, free |-> s.free \cup {s.pt[r.page].a},
   start |-> PutVmRange(table, s.start, r.page)]

Passed_After(c) ==
  [k \in DOMAIN invList |->
     IF invList[k].id > pi[c] THEN [invList[k] EXCEPT !.count = @ - 1] ELSE invList[k]]

\* the core has come to every record from its own position on
Passed(c) ==
  [k \in DOMAIN invList |->
     IF invList[k].id >= pi[c] THEN [invList[k] EXCEPT !.count = @ - 1] ELSE invList[k]]

RunInvalidation(c) ==
  LET passed == Passed(c)
      done == FoldLeft(Retire, [pt |-> pt, free |-> free, start |-> mapStart],
                       SelectSeq(passed, LAMBDA r : r.count = 0)) IN
  /\ pt' = done.pt /\ free' = done.free /\ mapStart' = done.start
  /\ invList' = SelectSeq(passed, LAMBDA r : r.count # 0)
  /\ UNCHANGED <<leaked, regions, lastPI>>

\* at every interrupt, for the kernel space
RunKernelInvalidation(c) ==
  /\ kernel /\ ~mapFailed /\ pi[c] # lastPI
  /\ RunInvalidation(c)
  /\ pi' = [pi EXCEPT ![c] = lastPI]
  /\ tlb' = [tlb EXCEPT ![c] = [v \in Pages |->
       IF \E k \in DOMAIN invList : invList[k].id >= pi[c] /\ invList[k].page = v
       THEN 0 ELSE @[v]]]
  /\ UNCHANGED <<kernel, activeCores, within, op, contended, mapFailed>>

\* enter(): the new page table is installed, then the core is counted
InstallPagetable(c) ==
  /\ ~kernel /\ ~mapFailed /\ within[c] \in {"out", "leaving"}
  /\ within' = [within EXCEPT ![c] = IF @ = "out" THEN "entering" ELSE "out"]
  /\ tlb' = [tlb EXCEPT ![c] = [v \in Pages |-> 0]]
  /\ UNCHANGED <<kernel, tableVars, rangeVars, activeCores, invList, lastPI, pi, op,
                 contended, mapFailed>>

EnterSpace(c) ==
  /\ within[c] = "entering" /\ within' = [within EXCEPT ![c] = "in"]
  /\ pi' = [pi EXCEPT ![c] = lastPI]
  /\ activeCores' = activeCores + 1
  /\ UNCHANGED <<kernel, tableVars, rangeVars, invList, lastPI, tlb, op, contended,
                 mapFailed>>

\* a core leaves between system calls; its translations go with the new table
LeaveSpace(c) ==
  /\ ~kernel /\ OpAt(c, "none")
  /\ within' = [within EXCEPT ![c] = "leaving"]
  /\ RunInvalidation(c)
  /\ activeCores' = activeCores - 1
  /\ UNCHANGED <<kernel, pi, tlb, op, contended, mapFailed>>

\* the last core of a process that has ended, before it enters another space
ClearUserPaging(c) ==
  /\ ~kernel /\ OpAt(c, "none") /\ activeCores = 1
  /\ \A d \in Cores \ {c} : within[d] = "out" /\ op[d] = NoOp
  /\ LET used == {pt[v].a : v \in {w \in Pages : pt[w].p}}
         passed == Passed(c)
         late == {pt[passed[k].page].a : k \in {j \in DOMAIN passed : passed[j].count = 0}} IN
     /\ pt' = [v \in Pages |-> NoEntry]
     /\ free' = free \cup used \cup late
     /\ invList' = SelectSeq(passed, LAMBDA r : r.count # 0)
  /\ mapStart' = NPages + 1 /\ regions' = {}
  /\ pi' = [pi EXCEPT ![c] = lastPI]
  /\ tlb' = [tlb EXCEPT ![c] = [v \in Pages |-> 0]]
  /\ UNCHANGED <<kernel, leaked, activeCores, lastPI, within, op, contended, mapFailed>>

SpaceNext ==
  \E c \in Cores :
    \/ \E n \in 1..MaxRegion : GetVmRange(c, n)
    \/ MapPage(c)
    \/ \E v \in Pages : Touch(c, v) \/ Fault(c, v)
    \/ FaultEnd(c)
    \/ \E r \in regions : UnmapRegion(c, r)
    \/ UnmapPage1(c) \/ Post(c) \/ UnmapPage2(c)
    \/ RunKernelInvalidation(c)
    \/ InstallPagetable(c) \/ EnterSpace(c) \/ LeaveSpace(c) \/ ClearUserPaging(c)

SpaceSpec == SpaceInit /\ [][SpaceNext]_spaceVars

-----------------------------------------------------------------------------

Entries == [p : BOOLEAN, a : {0, LazyPage, GuardPage} \cup PhysFrames]

(* The mapping range stays within the space (AddressSpace.h:144), at most   *)
(* every core is active, and no record is kept that all cores have passed.  *)
SpaceTypeOK ==
  /\ pt \in [Pages -> Entries] /\ free \subseteq PhysFrames
  /\ mapStart \in 1..(NPages + 1) /\ activeCores \in 0..Cardinality(Cores)
  /\ tlb \in [Cores -> [Pages -> {0} \cup PhysFrames]]
  /\ \A k \in DOMAIN invList : invList[k].count > 0

Active(c) == within[c] = "in"

(* A translation that a core still caches never leads to a frame that has   *)
(* been released: munmap may return before the other cores know, but the    *)
(* memory is not reused until they do, if one core maps at a time.  (Two    *)
(* cores that fault on the same lazy page at the same time are set apart.)  *)
StaleIsHarmless ==
  \A c \in Cores, v \in Pages :
    Active(c) /\ tlb[c][v] # 0 =>
      /\ tlb[c][v] \notin free
      /\ v \notin contended => pt[v].a = tlb[c][v]

(* A frame is free, or in one entry, or taken by one fault in progress, or  *)
(* lost, and only one of these: no frame is mapped twice or freed twice, if *)
(* one core maps at a time.                                                 *)
FrameHasOneOwner ==
  \A f \in PhysFrames :
    (IF f \in free THEN 1 ELSE 0) + (IF f \in leaked THEN 1 ELSE 0)
    + Cardinality({v \in Pages : pt[v].a = f})
    + Cardinality({c \in Cores : op[c].at = "fault" /\ op[c].frame = f}) = 1

(* Paging::map asserts that the entry it fills is not present.              *)
MapFindsFree == ~mapFailed

(* A page unmapped in the kernel space gets its frame released: every core  *)
(* passes its record at some interrupt.                                     *)
UnmappedIsReleased ==
  \A n \in 1..MaxPosts :
    (kernel /\ \E k \in DOMAIN invList : invList[k].id = n)
      ~> (mapFailed \/ ~\E k \in DOMAIN invList : invList[k].id = n)
=============================================================================
