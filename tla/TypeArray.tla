----------------------------- MODULE TypeArray -----------------------------
(***************************************************************************)
(* CTypeArray of the message queue: an array without holes, whose elements *)
(* remember their index, and a rotating index from which Get deals the     *)
(* next element.  An element is in the array at most once, so its place    *)
(* stands for the index it remembers, and absence for the index -1.  The   *)
(* growth of the allocation is left out.                                   *)
(***************************************************************************)
EXTENDS Integers, Sequences

EmptyArray == [items |-> <<>>, nIndex |-> 0]

Elements(a) == {a.items[i] : i \in DOMAIN a.items}

Place(a, p) == CHOOSE i \in DOMAIN a.items : a.items[i] = p

Insert(a, p) ==
  IF p \in Elements(a) THEN a ELSE [a EXCEPT !.items = Append(@, p)]

(* The last element moves into the hole; an index past the end starts over.*)
Delete(a, p) ==
  LET size == Len(a.items) - 1 IN
  IF p \notin Elements(a) THEN a
  ELSE [items  |-> [i \in 1 .. size |-> IF i = Place(a, p) THEN a.items[size + 1]
                                        ELSE a.items[i]],
        nIndex |-> IF a.nIndex >= size THEN 0 ELSE a.nIndex]

(* Mutant: the rotation skips the first element.                           *)
Rotated_SkipsFirst(a) ==
  [a EXCEPT !.nIndex = IF @ + 1 < Len(a.items) THEN @ + 1
                       ELSE IF Len(a.items) > 1 THEN 1 ELSE 0]

(* Get, on an array that is not empty: the rotation, and what it deals.    *)
Rotated(a) ==
  [a EXCEPT !.nIndex = IF @ + 1 < Len(a.items) THEN @ + 1 ELSE 0]

Dealt(a) == a.items[Rotated(a).nIndex + 1]
=============================================================================
