---------------------------- MODULE ManagedArray ----------------------------
(***************************************************************************)
(* ManagedArray (generic/ManagedArray.h) as a value: the fields in use     *)
(* (data), of which those that are not valid hold Hole, and the free stack *)
(* threaded through the holes.  Positions count from 1.  Growing doubles   *)
(* the capacity and copies the fields, which leaves this value as it is;   *)
(* no free-stack pointer is copied, since the stack is empty then.         *)
(***************************************************************************)
EXTENDS Naturals, Sequences

CONSTANT Hole   \* checkbits[idx] = false

EmptyArray == [data |-> <<>>, free |-> <<>>]

Valid(a, i) == i \in DOMAIN a.data /\ a.data[i] # Hole
ArraySize(a) == Len(a.data) - Len(a.free)

\* The index reserveIndex() returns.
ReserveIndex(a) == IF a.free = <<>> THEN Len(a.data) + 1 ELSE a.free[1]

\* put(): reserveIndex() and internalSet().
Put(a, e) ==
  IF a.free = <<>> THEN [a EXCEPT !.data = Append(@, e)]
  ELSE [data |-> [a.data EXCEPT ![a.free[1]] = e], free |-> Tail(a.free)]

\* Mutant: the field is freed and stays valid, as in get(idx, elem).
ArrayRemove_StaysValid(a, i) == [a EXCEPT !.free = <<i>> \o @]

\* remove(): invalidate() and internalRemove().
ArrayRemove(a, i) == [data |-> [a.data EXCEPT ![i] = Hole], free |-> <<i>> \o a.free]
=============================================================================
