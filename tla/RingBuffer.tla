----------------------------- MODULE RingBuffer -----------------------------
(* RingBuffer of generic/Buffers.h: an array, the index of the oldest       *)
(* element and the number of elements.                                      *)
EXTENDS Naturals, Sequences

CONSTANTS Size,   \* max_size()
          Blank   \* content of a cell that was never written

ASSUME SizeAssumption == Size \in Nat \ {0}

EmptyRing == [next |-> 0, count |-> 0, array |-> [i \in 0..Size - 1 |-> Blank]]

RingFront(r) == r.array[r.next]

\* Mutant: the write position does not wrap with the read position.
Push_Plain(r, x) ==
  [r EXCEPT !.array[r.count % Size] = x, !.count = @ + 1]

Push(r, x) ==
  [r EXCEPT !.array[(r.next + r.count) % Size] = x, !.count = @ + 1]

Pop(r) ==
  [r EXCEPT !.next = (@ + 1) % Size, !.count = @ - 1]

\* The elements, oldest first.
Contents(r) == [i \in 1..r.count |-> r.array[(r.next + i - 1) % Size]]
=============================================================================
