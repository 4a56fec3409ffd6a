----------------------------- MODULE Structures -----------------------------
(***************************************************************************)
(* The kernel's generic containers as the pointer and bit manipulations    *)
(* the code does, checked against what they stand for: HierarchicalBitmap  *)
(* against a set, EmbeddedList against a sequence, BlockStore against a    *)
(* set of blocks.  `under` names the structure a behaviour exercises.      *)
(***************************************************************************)
EXTENDS Integers, Sequences, FiniteSets, FiniteSetsExt, SequencesExt

CONSTANTS Words, WordBits, BitCount, Elems, Stores, PageSize, MaxPages

VARIABLES under, bitmaps, bitset, nextOf, prevOf, order, chain, stores, pages, inUse

bitmapVars == <<bitmaps, bitset>>
listVars == <<nextOf, prevOf, order, chain>>
blockVars == <<stores, pages, inUse>>
structureVars == <<under, bitmapVars, listVars, blockVars>>

(************************** HierarchicalBitmap *****************************)

B == Words * WordBits

\* init: one level more until a bitmap of B bits covers everything
DivUp(x, y) == (x + y - 1) \div y
RECURSIVE TopLevelOf(_)
TopLevelOf(n) == IF DivUp(n, B) > 1 THEN 1 + TopLevelOf(DivUp(n, B)) ELSE 1
TopLevel == TopLevelOf(BitCount)
BitLimit == -1

Group(bm, i, g) == {k \in bm[i] : k \div B = g}

\* set: stop at a level whose bitmap was not empty before
RECURSIVE BitSet(_, _, _)
BitSet(bm, i, idx) ==
  LET done == Group(bm, i, idx \div B) # {}
      now == [bm EXCEPT ![i] = @ \cup {idx}] IN
  IF done \/ i = TopLevel THEN now ELSE BitSet(now, i + 1, idx \div B)

BitClear_Bottom(bm, i, idx) == [bm EXCEPT ![i] = @ \ {idx}]

\* clear: stop at a level whose bitmap is not empty after
RECURSIVE BitClear(_, _, _)
BitClear(bm, i, idx) ==
  LET now == [bm EXCEPT ![i] = @ \ {idx}] IN
  IF Group(now, i, idx \div B) # {} \/ i = TopLevel THEN now
  ELSE BitClear(now, i + 1, idx \div B)

\* multiscan: `mask` falls once a word had a bit; B when there is none
MultiScan(bits) ==
  LET scan(acc, i) ==
        LET word == {b % WordBits : b \in {k \in bits : (k % B) \div WordBits = i}} IN
        [result |-> acc.result + (IF ~acc.mask THEN 0 ELSE IF word = {} THEN WordBits ELSE Min(word)),
         mask |-> acc.mask /\ word = {}]
  IN FoldLeft(scan, [result |-> 0, mask |-> TRUE], [i \in 1..Words |-> i - 1]).result

\* multiscan_r: from the last word, whole words added below the first hit; 0 when there is none
MultiScanRev(bits) ==
  LET scan(acc, i) ==
        LET word == {b % WordBits : b \in {k \in bits : (k % B) \div WordBits = i}} IN
        [result |-> acc.result + (IF ~acc.mask THEN WordBits ELSE IF word = {} THEN 0 ELSE Max(word)),
         mask |-> acc.mask /\ word = {}]
  IN FoldLeft(scan, [result |-> 0, mask |-> TRUE], [i \in 1..Words |-> Words - i]).result

RECURSIVE FindSet(_, _, _)
FindSet(bm, i, g) ==
  LET ldx == MultiScan(Group(bm, i, g)) IN
  IF ldx = B THEN BitLimit ELSE IF i = 0 THEN g * B + ldx ELSE FindSet(bm, i - 1, g * B + ldx)

RECURSIVE FindSetRev(_, _, _)
FindSetRev(bm, i, g) ==
  LET ldx == MultiScanRev(Group(bm, i, g)) IN
  IF ldx = B THEN BitLimit ELSE IF i = 0 THEN g * B + ldx ELSE FindSetRev(bm, i - 1, g * B + ldx)

SetBit(k) ==
  /\ bitmaps' = BitSet(bitmaps, 0, k) /\ bitset' = bitset \cup {k}
  /\ UNCHANGED <<under, listVars, blockVars>>
ClearBit(k) ==
  /\ bitmaps' = BitClear(bitmaps, 0, k) /\ bitset' = bitset \ {k}
  /\ UNCHANGED <<under, listVars, blockVars>>

(***************************** EmbeddedList ********************************)

Null == "null"
Anchor == "anchor"
Links == Elems \cup {Anchor}
OnList(e) == nextOf[e] # Null

Insert(e, k) == order' = SubSeq(order, 1, k) \o <<e>> \o SubSeq(order, k + 1, Len(order))

\* x is the element (or anchor) at position k; k = 0 and Len + 1 are the anchor
Position(k) == IF k \in DOMAIN order THEN order[k] ELSE Anchor

InsertBefore(k, e) ==
  LET x == Position(k) IN
  /\ ~OnList(e) /\ e \notin ToSet(chain)
  /\ nextOf' = [nextOf EXCEPT ![prevOf[x]] = e, ![e] = x]
  /\ prevOf' = [prevOf EXCEPT ![e] = prevOf[x], ![x] = e]
  /\ Insert(e, k - 1)
  /\ UNCHANGED <<under, bitmapVars, chain, blockVars>>

InsertAfter_OneWay(k, e) ==
  LET x == Position(k) IN
  /\ ~OnList(e) /\ e \notin ToSet(chain)
  /\ nextOf' = [nextOf EXCEPT ![e] = nextOf[x], ![x] = e]
  /\ prevOf' = [prevOf EXCEPT ![e] = x]
  /\ Insert(e, k)
  /\ UNCHANGED <<under, bitmapVars, chain, blockVars>>

InsertAfter(k, e) ==
  LET x == Position(k) IN
  /\ ~OnList(e) /\ e \notin ToSet(chain)
  /\ prevOf' = [prevOf EXCEPT ![nextOf[x]] = e, ![e] = x]
  /\ nextOf' = [nextOf EXCEPT ![e] = nextOf[x], ![x] = e]
  /\ Insert(e, k)
  /\ UNCHANGED <<under, bitmapVars, chain, blockVars>>

Unlink(e) ==
  /\ OnList(e) /\ e \notin ToSet(chain)
  /\ nextOf' = [nextOf EXCEPT ![prevOf[e]] = nextOf[e], ![e] = Null]
  /\ prevOf' = [prevOf EXCEPT ![nextOf[e]] = prevOf[e], ![e] = Null]
  /\ order' = SelectSeq(order, LAMBDA x : x # e)
  /\ UNCHANGED <<under, bitmapVars, chain, blockVars>>

\* the loop of remove(first, count): `count` steps, or up to the fence
RECURSIVE LastOf(_, _)
LastOf(e, count) ==
  IF count = 0 \/ nextOf[e] = Anchor THEN e ELSE LastOf(nextOf[e], count - 1)

\* split_front takes count + 1 elements, as far as there are
SplitFront(count) ==
  LET first == nextOf[Anchor]  last == LastOf(first, count)
      n == Min({count + 1, Len(order)}) IN
  /\ order # <<>> /\ chain = <<>>
  /\ nextOf' = [nextOf EXCEPT ![prevOf[first]] = nextOf[last], ![last] = Null]
  /\ prevOf' = [prevOf EXCEPT ![nextOf[last]] = prevOf[first], ![first] = Null]
  /\ chain' = SubSeq(order, 1, n) /\ order' = SubSeq(order, n + 1, Len(order))
  /\ UNCHANGED <<under, bitmapVars, blockVars>>

\* splice_back of what split_front returned
SpliceBack ==
  LET first == Head(chain)  last == Last(chain)  x == prevOf[Anchor] IN
  /\ chain # <<>>
  /\ prevOf' = [prevOf EXCEPT ![nextOf[x]] = last, ![first] = x]
  /\ nextOf' = [nextOf EXCEPT ![last] = nextOf[x], ![x] = first]
  /\ order' = order \o chain /\ chain' = <<>>
  /\ UNCHANGED <<under, bitmapVars, blockVars>>

(*************************** BlockStore, PageStore *************************)

\* a block is its first address and its size
Blocks == (0..(MaxPages * PageSize - 1)) \X Stores

RECURSIVE Fill(_, _, _, _)
Fill(stack, p, left, s) ==
  IF left < s THEN stack ELSE Fill(<<<<p, s>>>> \o stack, p + s, left - s, s)

Alloc2_KeepsHead(s) ==
  LET filled == IF stores[s] = <<>> THEN Fill(<<>>, pages * PageSize, PageSize, s)
                ELSE stores[s] IN
  /\ stores[s] # <<>> \/ pages < MaxPages
  /\ pages' = IF stores[s] = <<>> THEN pages + 1 ELSE pages
  /\ stores' = [stores EXCEPT ![s] = filled]
  /\ inUse' = [inUse EXCEPT ![Head(filled)] = @ + 1]
  /\ UNCHANGED <<under, bitmapVars, listVars>>

\* PageStore::check maps a page whenever it is asked: it never keeps one
Alloc2(s) ==
  LET filled == IF stores[s] = <<>> THEN Fill(<<>>, pages * PageSize, PageSize, s)
                ELSE stores[s] IN
  /\ stores[s] # <<>> \/ pages < MaxPages
  /\ pages' = IF stores[s] = <<>> THEN pages + 1 ELSE pages
  /\ stores' = [stores EXCEPT ![s] = Tail(filled)]
  /\ inUse' = [inUse EXCEPT ![Head(filled)] = @ + 1]
  /\ UNCHANGED <<under, bitmapVars, listVars>>

Release2(b) ==
  /\ inUse[b] > 0 /\ inUse' = [inUse EXCEPT ![b] = @ - 1]
  /\ stores' = [stores EXCEPT ![b[2]] = <<b>> \o @]
  /\ UNCHANGED <<under, bitmapVars, listVars, pages>>

StructuresInit ==
  /\ under \in {"bitmap", "list", "blocks"}
  /\ bitmaps = [i \in 0..TopLevel |-> {}] /\ bitset = {}
  /\ nextOf = [x \in Links |-> IF x = Anchor THEN Anchor ELSE Null] /\ prevOf = nextOf
  /\ order = <<>> /\ chain = <<>>
  /\ stores = [s \in Stores |-> <<>>] /\ pages = 0 /\ inUse = [b \in Blocks |-> 0]

StructuresNext ==
  \/ under = "bitmap" /\ \E k \in 0..(BitCount - 1) : SetBit(k) \/ ClearBit(k)
  \/ under = "list" /\ \/ \E e \in Elems : \/ Unlink(e)
                                           \/ \E k \in 1..(Len(order) + 1) : InsertBefore(k, e)
                                           \/ \E k \in 0..Len(order) : InsertAfter(k, e)
                       \/ \E n \in 0..Cardinality(Elems) : SplitFront(n)
                       \/ SpliceBack
  \/ under = "blocks" /\ \/ \E s \in Stores : Alloc2(s)
                         \/ \E b \in Blocks : Release2(b)

-----------------------------------------------------------------------------

(* The upper levels of a hierarchical bitmap summarise the lower ones after *)
(* any sequence of set and clear, although both stop early; so findset and  *)
(* findset_rev find the lowest and the highest bit, and findset finds none  *)
(* in an empty bitmap (findset_rev then answers 0: multiscan_r has no code  *)
(* for "none").                                                             *)
BitmapExact ==
  under = "bitmap" =>
    /\ bitmaps[0] = bitset
    /\ \A i \in 0..(TopLevel - 1) : bitmaps[i + 1] = {k \div B : k \in bitmaps[i]}
    /\ FindSet(bitmaps, TopLevel, 0) = (IF bitset = {} THEN BitLimit ELSE Min(bitset))
    /\ FindSetRev(bitmaps, TopLevel, 0) = (IF bitset = {} THEN 0 ELSE Max(bitset))

(* The links of an EmbeddedList are those of one ring through the anchor in *)
(* both directions, in the order of the insertions, and an element is off   *)
(* the list exactly when both its links are null, which onList() asserts;   *)
(* a chain cut off by split_front is closed at its ends.                    *)
Ring == <<Anchor>> \o order \o <<Anchor>>
ListExact ==
  /\ \A k \in 1..(Len(Ring) - 1) : nextOf[Ring[k]] = Ring[k + 1] /\ prevOf[Ring[k + 1]] = Ring[k]
  /\ \A e \in Elems \ (ToSet(order) \cup ToSet(chain)) : nextOf[e] = Null /\ prevOf[e] = Null
  /\ chain # <<>> => prevOf[Head(chain)] = Null /\ nextOf[Last(chain)] = Null
  /\ \A k \in 1..(Len(chain) - 1) : nextOf[chain[k]] = chain[k + 1] /\ prevOf[chain[k + 1]] = chain[k]

(* A block is in use by one object, or in the store of its size once, and  *)
(* no two of them overlap: alloc2 never hands out memory that another       *)
(* object of the same or of the other size still uses.                      *)
Known(b) == inUse[b] + Cardinality({k \in DOMAIN stores[b[2]] : stores[b[2]][k] = b})
BlocksDisjoint ==
  under = "blocks" => \A b, c \in {x \in Blocks : Known(x) > 0} :
    /\ Known(b) = 1 /\ b[1] + b[2] <= pages * PageSize
    /\ b # c => b[1] + b[2] <= c[1] \/ c[1] + c[2] <= b[1]

(* Whatever the order of the calls, bitmaps are the set, lists the sequence *)
(* and block stores the partition of memory that their operations promise   *)
(* (Bitmap.h, EmbeddedContainers.h, MemoryManager.h).                       *)
StructuresExact == BitmapExact /\ ListExact /\ BlocksDisjoint
=============================================================================
