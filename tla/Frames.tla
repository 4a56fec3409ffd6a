------------------------------- MODULE Frames -------------------------------
(***************************************************************************)
(* Physical memory: the RegionSet in which booting collects it, and the    *)
(* FrameManager that receives it and hands out small frames, large frames  *)
(* and contiguous runs.  Addresses count small frames; a large frame has S *)
(* of them (pagetableentries in the code) and there are L.  Each operation *)
(* of the FrameManager runs under its locks and is one action.  The phase  *)
(* "run" is left for good when an operation waits for a lock that nobody   *)
(* releases ("stuck"), takes the index of a large frame from a map entry   *)
(* that it has just freed and that the allocator has overwritten           *)
(* ("stale"), or clears a bit at an index that wrapped ("corrupt").        *)
(***************************************************************************)
EXTENDS Integers, Sequences, FiniteSets, FiniteSetsExt, SequencesExt

CONSTANTS L, S, MaxHeld, Sizes, Aligns, Limits

VARIABLES phase, mem, points, largeFrames, smallFrames, held, lplockKept,
          contig   \* the answer of allocContig, until the next operation

memVars == <<mem, points>>
frameVars == <<largeFrames, smallFrames, held, lplockKept>>
framesVars == <<phase, memVars, frameVars, contig>>

Top == L * S
TopAddr == -1
NoRun == [got |-> TopAddr, want |-> TopAddr, align |-> 1]

FramesInit ==
  /\ phase = "boot" /\ mem = {} /\ points = {}
  /\ largeFrames = {} /\ smallFrames = << >> /\ held = {} /\ lplockKept = FALSE
  /\ contig = NoRun

(****************************** RegionSet **********************************)

Region == {r \in [start : 0..Top, end : 0..Top] : r.start < r.end}
Interval(r) == r.start..(r.end - 1)
\* the order of the set: regions that touch are equivalent
Below(r, q) == r.end < q.start
\* the regions from lower_bound(r) on, in order
From(regions, r) ==
  SetToSortSeq({q \in regions : ~Below(q, r)}, LAMBDA p, q : p.start < q.start)

\* insert: merge with the first, erase what is covered, merge with the last
InsertRegion_NoMerge(regions, r) == regions \cup {r}

InsertRegion(regions, r) ==
  LET seq == From(regions, r)
      start == IF seq # <<>> /\ Head(seq).start < r.start THEN Head(seq).start ELSE r.start
      covered == {q \in ToSet(seq) : q.end <= r.end}
      rest == SelectSeq(seq, LAMBDA q : q.end > r.end)
      last == IF rest # <<>> /\ Head(rest).start <= r.end THEN {Head(rest)} ELSE {} IN
  (regions \ (covered \cup last))
    \cup {[start |-> start, end |-> IF last = {} THEN r.end ELSE Head(rest).end]}

\* the region that remove() and in() look at
Containing(regions, r) ==
  {q \in regions : From(regions, r) # <<>> /\ q = Head(From(regions, r))
                   /\ q.start <= r.start /\ q.end >= r.end}

RemoveRegion(regions, r) ==
  UNION {(regions \ {q})
           \cup {p \in {[start |-> r.end, end |-> q.end], [start |-> q.start, end |-> r.start]} :
                   p.start < p.end} : q \in Containing(regions, r)}

AlignUp(a, s) == ((a + s - 1) \div s) * s

\* retrieve: the first region that holds an aligned run of that size
Retrievable(regions, s) == {q \in regions : q.end >= AlignUp(q.start, s) + s}
Retrieve(regions, s) == AlignUp(Min({q.start : q \in Retrievable(regions, s)}), s)

AddMemory(r) ==
  /\ phase = "boot"
  /\ mem' = InsertRegion(mem, r) /\ points' = points \cup Interval(r)
  /\ UNCHANGED <<phase, frameVars, contig>>

TakeMemory(r) ==
  /\ phase = "boot" /\ Containing(mem, r) # {}
  /\ mem' = RemoveRegion(mem, r) /\ points' = points \ Interval(r)
  /\ UNCHANGED <<phase, frameVars, contig>>

\* memory for the FrameManager itself, a large frame at a time
TakeLarge ==
  /\ phase = "boot" /\ Retrievable(mem, S) # {}
  /\ LET a == Retrieve(mem, S)  r == [start |-> a, end |-> a + S] IN
     mem' = RemoveRegion(mem, r) /\ points' = points \ Interval(r)
  /\ UNCHANGED <<phase, frameVars, contig>>

(***************************** FrameManager ********************************)

With(f, i, v) == [j \in DOMAIN f \cup {i} |-> IF j = i THEN v ELSE f[j]]
Without(f, i) == [j \in DOMAIN f \ {i} |-> f[j]]
First(f) == Min(DOMAIN f)
Everything == 0..(S - 1)

\* set bits start..end-1 of large frame i's bitmap; a full one becomes large
ReleaseSmall(fm, addr, n) ==
  LET i == addr \div S
      end == Min({S, (addr % S) + n})
      bits == (IF i \in DOMAIN fm.small THEN fm.small[i] ELSE {})
                \cup ((addr % S)..(end - 1)) IN
  IF bits = Everything THEN [large |-> fm.large \cup {i}, small |-> Without(fm.small, i)]
                ELSE [large |-> fm.large, small |-> With(fm.small, i, bits)]

\* releaseRegion cuts the region where a large frame begins or ends
RECURSIVE ReleaseRegion(_, _, _)
ReleaseRegion(fm, addr, n) ==
  IF n = 0 THEN fm
  ELSE IF addr % S # 0 \/ n < S
    THEN LET len == Min({S, (addr % S) + n}) - (addr % S) IN
         ReleaseRegion(ReleaseSmall(fm, addr, n), addr + len, n - len)
    ELSE ReleaseRegion([fm EXCEPT !.large = @ \cup {addr \div S}], addr + S, n - S)

HandOver ==
  /\ phase = "boot" /\ mem # {} /\ phase' = "run"
  /\ LET fm == FoldLeft(LAMBDA f, r : ReleaseRegion(f, r.start, r.end - r.start),
                        [large |-> {}, small |-> << >>],
                        SetToSortSeq(mem, LAMBDA p, q : p.start < q.start)) IN
     largeFrames' = fm.large /\ smallFrames' = fm.small
  /\ UNCHANGED <<memVars, held, lplockKept, contig>>

\* MaxHeld bounds the frames in use
Ready == phase = "run" /\ Cardinality(held) < MaxHeld
Hold(addr, n) == held' = held \cup {[start |-> addr, end |-> addr + n]}

\* lplock has been kept, and is waited for with splock held
Stuck == lplockKept /\ phase' = "stuck" /\ UNCHANGED <<memVars, frameVars>> /\ contig' = NoRun

\* the key of a map entry that has been erased is read: it is what it was, or
\* what the allocator has written there
ReadErased(erased) == phase' \in {phase} \cup (IF erased THEN {"stale"} ELSE {})

AllocSmall_KeepsBit ==
  /\ Ready /\ DOMAIN smallFrames # {}
  /\ LET i == First(smallFrames) IN Hold(i * S + Min(smallFrames[i]), 1)
  /\ UNCHANGED <<phase, memVars, largeFrames, smallFrames, lplockKept>> /\ contig' = NoRun

\* when nothing is left, topaddr is returned with lplock held
AllocSmall ==
  /\ Ready
  /\ LET split == smallFrames = << >>
         i == IF split THEN Min(largeFrames) ELSE First(smallFrames)
         bits == IF split THEN Everything ELSE smallFrames[i]
         k == Min(bits) IN
     \/ split /\ Stuck
     \/ /\ split /\ ~lplockKept /\ largeFrames = {} /\ lplockKept' = TRUE
        /\ UNCHANGED <<phase, memVars, largeFrames, smallFrames, held>> /\ contig' = NoRun
     \/ /\ split => ~lplockKept /\ largeFrames # {}
        /\ largeFrames' = IF split THEN largeFrames \ {i} ELSE largeFrames
        /\ smallFrames' = IF bits = {k} THEN Without(smallFrames, i)
                                        ELSE With(smallFrames, i, bits \ {k})
        /\ ReadErased(bits = {k}) /\ Hold(i * S + k, 1)
        /\ UNCHANGED <<memVars, lplockKept>> /\ contig' = NoRun

AllocLarge ==
  /\ Ready /\ ~lplockKept /\ largeFrames # {}
  /\ Hold(Min(largeFrames) * S, S)
  /\ largeFrames' = largeFrames \ {Min(largeFrames)}
  /\ UNCHANGED <<phase, memVars, smallFrames, lplockKept>> /\ contig' = NoRun

\* a frame goes back with the size it was mapped with
ReleaseFrame(r) ==
  /\ phase = "run"
  /\ LET n == r.end - r.start
         fm == ReleaseSmall([large |-> largeFrames, small |-> smallFrames], r.start, n)
         full == fm.large # largeFrames IN
     \/ n < S /\ full /\ Stuck
     \/ /\ n < S /\ (full => ~lplockKept) /\ held' = held \ {r}
        /\ largeFrames' = fm.large /\ smallFrames' = fm.small
        /\ ReadErased(full) /\ UNCHANGED <<memVars, lplockKept>> /\ contig' = NoRun
     \/ /\ n >= S /\ ~lplockKept /\ held' = held \ {r}
        /\ largeFrames' = largeFrames \cup {i \in 0..(L - 1) : i * S \in Interval(r)}
        /\ UNCHANGED <<phase, memVars, smallFrames, lplockKept>> /\ contig' = NoRun

\* the scan of allocContig over one bitmap, whose bits stand for `unit`
\* frames each, from base on: the first bit of the run and its length, in bits
Scan_Sloppy(bits, q, base, unit) ==
  LET starts == {k \in bits : /\ (base + k * unit) % q.align = 0
                              /\ Cardinality({m \in bits : m >= k}) * unit >= q.size
                              /\ base + k * unit + q.size <= q.limit} IN
  IF starts = {} THEN -1 ELSE Min(starts)

Scan(bits, q, base, unit) ==
  LET RECURSIVE From1(_, _, _)
      From1(idx, first, found) ==
        LET f == IF found = 0 THEN idx ELSE first
            at == base + f * unit
            n == IF found > 0 THEN found + 1 ELSE IF at % q.align = 0 THEN 1 ELSE 0
            later == {k \in bits : k > idx} IN
        IF found = 0 /\ at + q.size > q.limit THEN -1
        ELSE IF n * unit >= q.size THEN f
        ELSE IF later = {} THEN -1
        ELSE From1(Min(later), f, IF Min(later) = idx + 1 THEN n ELSE 0)
  IN IF bits = {} THEN -1 ELSE From1(Min(bits), 0, 0)

\* a run within one split large frame, and its address
SmallRuns(q) ==
  {i \in DOMAIN smallFrames : Scan(smallFrames[i], q, i * S, 1) # -1}

\* findset() of an empty bitmap is the largest word, whose multiple by the
\* size of a large frame, plus one large frame, wraps to address zero
Wild == -2

\* what the request should get: the lowest run that is free, aligned and
\* below the limit, from split large frames before whole ones
FreeRuns(q) ==
  {a \in 0..(Top - 1) :
     /\ a % q.align = 0 /\ a + q.size <= q.limit
     /\ IF q.size < S
          THEN \E i \in DOMAIN smallFrames :
                 \A k \in 0..(q.size - 1) : a + k - i * S \in smallFrames[i]
          ELSE a % S = 0 /\ \A k \in 0..(q.size \div S - 1) : a \div S + k \in largeFrames}

Wanted(q) ==
  IF FreeRuns(q) # {} THEN Min(FreeRuns(q))
  ELSE LET whole == {i * S : i \in {j \in largeFrames : /\ (j * S) % q.align = 0
                                                       /\ j * S + q.size <= q.limit}} IN
       IF q.size < S /\ whole # {} THEN Min(whole) ELSE TopAddr

Answer(q, addr) == contig' = [got |-> addr, want |-> Wanted(q), align |-> q.align]

\* the first large frame is split when no small run fits, whatever the alignment
AllocContigSmall(q) ==
  /\ Ready /\ q.size < S
  /\ LET i == Min(SmallRuns(q))
         k == Scan(smallFrames[i], q, i * S, 1)
         rest == smallFrames[i] \ (k..(k + q.size - 1))
         b == Min(largeFrames) IN
     \/ SmallRuns(q) = {} /\ Stuck
     \/ /\ SmallRuns(q) # {} /\ Hold(i * S + k, q.size) /\ Answer(q, i * S + k)
        /\ smallFrames' = IF rest = {} THEN Without(smallFrames, i)
                                       ELSE With(smallFrames, i, rest)
        /\ UNCHANGED <<phase, memVars, largeFrames, lplockKept>>
     \/ /\ SmallRuns(q) = {} /\ ~lplockKept
        /\ IF largeFrames = {} \/ b * S + q.size > q.limit
             THEN Answer(q, TopAddr) /\ UNCHANGED <<largeFrames, smallFrames, held>>
             ELSE /\ largeFrames' = largeFrames \ {b}
                  /\ smallFrames' = With(smallFrames, b, q.size..(S - 1))
                  /\ Hold(b * S, q.size) /\ Answer(q, b * S)
        /\ UNCHANGED <<phase, memVars, lplockKept>>

AllocContigLarge(r) ==
  LET q == [r EXCEPT !.size = AlignUp(@, S)]
      b == Scan(largeFrames, q, 0, S) IN
  /\ Ready /\ ~lplockKept /\ r.size >= S
  /\ IF largeFrames = {} /\ q.size = S
       THEN /\ phase' = "corrupt" /\ Answer(q, Wild)
            /\ UNCHANGED <<largeFrames, held>>
     ELSE IF b = -1
       THEN /\ Answer(q, TopAddr)
            /\ UNCHANGED <<phase, largeFrames, held>>
     ELSE /\ largeFrames' = largeFrames \ (b..(b + q.size \div S - 1))
          /\ Hold(b * S, q.size)
          /\ Answer(q, b * S)
          /\ UNCHANGED phase
  /\ UNCHANGED <<memVars, smallFrames, lplockKept>>

FramesNext ==
  \/ \E r \in Region : AddMemory(r) \/ TakeMemory(r)
  \/ TakeLarge \/ HandOver
  \/ AllocSmall \/ AllocLarge
  \/ \E r \in held : ReleaseFrame(r)
  \/ \E q \in [size : Sizes, align : Aligns, limit : Limits] :
       AllocContigSmall(q) \/ AllocContigLarge(q)

FramesSpec == FramesInit /\ [][FramesNext]_framesVars

-----------------------------------------------------------------------------

(* The regions are exactly the maximal runs of the memory they were given:  *)
(* inserts that overlap or touch are merged, whatever they cover, and a     *)
(* removal leaves both ends.                                                *)
RegionsExact ==
  /\ UNION {Interval(r) : r \in mem} = points
  /\ \A r, q \in mem : r # q => Below(r, q) \/ Below(q, r)

FreeFrames ==
  UNION {(i * S)..(i * S + S - 1) : i \in largeFrames}
    \cup UNION {{i * S + k : k \in smallFrames[i]} : i \in DOMAIN smallFrames}

(* Every frame that booting handed over is free or held by one caller, and  *)
(* no other frame is: splitting, merging and contiguous runs neither lose a *)
(* frame nor hand one out twice, and a large frame is not split and whole   *)
(* at a time.                                                               *)
FramesConserved ==
  phase = "run" =>
    /\ FreeFrames \cup UNION {Interval(r) : r \in held} = points
    /\ \A r \in held : Interval(r) \cap FreeFrames = {}
    /\ \A r, q \in held : r # q => Interval(r) \cap Interval(q) = {}
    /\ DOMAIN smallFrames \cap largeFrames = {}

(* allocContig returns the first aligned run of free frames below the limit *)
(* that exists, and topaddr only when there is none; except for a request   *)
(* of one large frame when there is none, which it answers with an address  *)
(* that wrapped, and for an alignment beyond a large frame, which it does   *)
(* not look at when it splits one.                                          *)
ContigExact ==
  \/ contig.got \in {contig.want, Wild}
  \/ contig.align > S /\ contig.got # TopAddr /\ contig.got % contig.align # 0

(* lplock is kept only by an allocation that has found no frame at all:     *)
(* from then on there is no large frame, and a caller that needs one, or    *)
(* completes one, is stuck; nothing else gets the frame manager stuck.      *)
LockKeptWhenEmpty ==
  /\ lplockKept => largeFrames = {}
  /\ phase = "stuck" => lplockKept

(* Memory goes from the region set to the frame manager and to its callers  *)
(* without loss or duplication, and a request that can be met is           *)
(* (RegionSet.h:46-92, FrameManager.h:60-166).                              *)
FramesExact == RegionsExact /\ FramesConserved /\ ContigExact /\ LockKeptWhenEmpty
=============================================================================
