-------------------------- MODULE TypeArrayProofs --------------------------
(***************************************************************************)
(* What the operations of a CTypeArray do to its elements and its rotating *)
(* index: the lemmas that proofs about the forwarder, the scheduler and    *)
(* the client agent cite.                                                  *)
(***************************************************************************)
EXTENDS TypeArray, TLAPS

(* An array of elements of S: each is in it once, and the index is at one. *)
ArrayOf(S) == [items : Seq(S), nIndex : Nat]

Once(a) == \A i, j \in DOMAIN a.items : a.items[i] = a.items[j] => i = j

IndexInside(a) == a.nIndex < Len(a.items) \/ a.nIndex = 0

Sound(S, a) == a \in ArrayOf(S) /\ Once(a) /\ IndexInside(a)

LEMMA EmptySound ==
  ASSUME NEW S
  PROVE  Sound(S, EmptyArray) /\ Elements(EmptyArray) = {}
BY DEF Sound, ArrayOf, Once, IndexInside, EmptyArray, Elements

LEMMA NoElements ==
  ASSUME NEW S, NEW a \in ArrayOf(S)
  PROVE  a.items = <<>> <=> Elements(a) = {}
<1>1. a.items \in Seq(S)  BY DEF ArrayOf
<1>2. CASE a.items = <<>>
  BY <1>2 DEF Elements
<1>3. CASE a.items # <<>>
  <2>1. 1 \in DOMAIN a.items  BY <1>1, <1>3
  <2>2. a.items[1] \in Elements(a)  BY <2>1 DEF Elements
  <2>3. QED BY <1>3, <2>2
<1>4. QED BY <1>2, <1>3

LEMMA PlaceOfElement ==
  ASSUME NEW S, NEW a \in ArrayOf(S), NEW p \in Elements(a)
  PROVE  /\ Place(a, p) \in DOMAIN a.items /\ a.items[Place(a, p)] = p
         /\ Place(a, p) \in 1 .. Len(a.items) /\ Len(a.items) > 0
<1>1. \E i \in DOMAIN a.items : a.items[i] = p  BY DEF Elements
<1>2. Place(a, p) \in DOMAIN a.items /\ a.items[Place(a, p)] = p  BY <1>1 DEF Place
<1>3. DOMAIN a.items = 1 .. Len(a.items) /\ Len(a.items) \in Nat  BY DEF ArrayOf
<1>4. QED BY <1>2, <1>3

(* Insert adds the element at the end, unless it is there.                 *)
LEMMA InsertSound ==
  ASSUME NEW S, NEW a, Sound(S, a), NEW p \in S
  PROVE  /\ Sound(S, Insert(a, p))
         /\ Elements(Insert(a, p)) = Elements(a) \cup {p}
         /\ Insert(a, p).nIndex = a.nIndex
<1>1. CASE p \in Elements(a)
  BY <1>1 DEF Insert
<1>2. CASE p \notin Elements(a)
  <2> DEFINE b == Insert(a, p)
  <2>1. a.items \in Seq(S) /\ a.nIndex \in Nat  BY DEF Sound, ArrayOf
  <2>2. b = [items |-> Append(a.items, p), nIndex |-> a.nIndex]
    BY <1>2 DEF Insert, Sound, ArrayOf
  <2>3. b.items = Append(a.items, p) /\ b.nIndex = a.nIndex  BY <2>2
  <2>4. b \in ArrayOf(S)  BY <2>1, <2>2 DEF ArrayOf
  <2>5. DOMAIN b.items = 1 .. Len(a.items) + 1 /\ Len(b.items) = Len(a.items) + 1
        /\ Len(a.items) \in Nat /\ DOMAIN a.items = 1 .. Len(a.items)
    BY <2>1, <2>3
  <2>6. \A i \in DOMAIN b.items : b.items[i] = IF i = Len(a.items) + 1 THEN p ELSE a.items[i]
    BY <2>1, <2>3
  <2>7. \A i \in DOMAIN a.items : a.items[i] # p  BY <1>2 DEF Elements
  <2>8. Once(b)  BY <2>5, <2>6, <2>7 DEF Once, Sound
  <2>9. IndexInside(b)  BY <2>1, <2>3, <2>5 DEF IndexInside, Sound
  <2>10. Elements(b) = Elements(a) \cup {p}
    <3> DEFINE n == Len(a.items)
    <3>1. \A x : x \in Elements(b) => x \in Elements(a) \cup {p}
      BY <2>5, <2>6 DEF Elements
    <3>2. b.items[n + 1] = p /\ n + 1 \in DOMAIN b.items  BY <2>5, <2>6
    <3>3. p \in Elements(b)  BY <3>2 DEF Elements
    <3>4. \A i \in DOMAIN a.items : i \in DOMAIN b.items /\ b.items[i] = a.items[i]
      BY <2>5, <2>6
    <3>5. \A x : x \in Elements(a) => x \in Elements(b)  BY <3>4 DEF Elements
    <3>6. QED BY <3>1, <3>3, <3>5
  <2>11. QED BY <2>3, <2>4, <2>8, <2>9, <2>10 DEF Sound
<1>3. QED BY <1>1, <1>2

(* Delete takes the element out and leaves no hole.                        *)
LEMMA DeleteSound ==
  ASSUME NEW S, NEW a, Sound(S, a), NEW p
  PROVE  /\ Sound(S, Delete(a, p))
         /\ Elements(Delete(a, p)) = Elements(a) \ {p}
<1>1. CASE p \notin Elements(a)
  BY <1>1 DEF Delete
<1>2. CASE p \in Elements(a)
  <2> DEFINE b == Delete(a, p)
             size == Len(a.items) - 1
             k == Place(a, p)
  <2>1. a.items \in Seq(S) /\ a.nIndex \in Nat /\ a \in ArrayOf(S)  BY DEF Sound, ArrayOf
  <2>2. k \in 1 .. Len(a.items) /\ a.items[k] = p /\ Len(a.items) > 0 /\ Len(a.items) \in Nat
    BY <1>2, <2>1, PlaceOfElement
  <2>3. size \in Nat /\ DOMAIN a.items = 1 .. size + 1  BY <2>1, <2>2
  <2> DEFINE f == [i \in 1 .. size |-> IF i = k THEN a.items[size + 1] ELSE a.items[i]]
             n == IF a.nIndex >= size THEN 0 ELSE a.nIndex
  <2>4. b = [items |-> f, nIndex |-> n]  BY <1>2 DEF Delete
  <2>5. b.items = f /\ b.nIndex = n  BY <2>4
  <2>6. \A i \in 1 .. size + 1 : a.items[i] \in S  BY <2>1, <2>3
  <2>7. f \in Seq(S) /\ Len(f) = size /\ DOMAIN f = 1 .. size
    <3>1. \A i \in 1 .. size : f[i] \in S  BY <2>3, <2>6
    <3>2. f \in [1 .. size -> S]  BY <3>1
    <3>3. QED BY <2>3, <3>2
  <2>8. b \in ArrayOf(S)  BY <2>1, <2>4, <2>7 DEF ArrayOf
  <2>9. \A i, j \in 1 .. size + 1 : a.items[i] = a.items[j] => i = j
    BY <2>3 DEF Sound, Once
  <2>10. Once(b)
    <3> SUFFICES ASSUME NEW i \in 1 .. size, NEW j \in 1 .. size, f[i] = f[j]
                 PROVE  i = j
      BY <2>5, <2>7 DEF Once
    <3>1. i # size + 1 /\ j # size + 1 /\ i \in 1 .. size + 1 /\ j \in 1 .. size + 1
          /\ size + 1 \in 1 .. size + 1
      BY <2>3
    <3>2. QED BY <2>9, <3>1
  <2>11. IndexInside(b)  BY <2>1, <2>3, <2>5, <2>7 DEF IndexInside
  <2>12. Elements(b) = {f[i] : i \in 1 .. size}  BY <2>5, <2>7 DEF Elements
  <2>13. ASSUME NEW x \in Elements(b) PROVE x \in Elements(a) \ {p}
    <3>1. PICK i \in 1 .. size : x = f[i]  BY <2>12, <2>13
    <3>2. i \in 1 .. size + 1 /\ size + 1 \in 1 .. size + 1 /\ i # size + 1  BY <2>3
    <3>3. x # p  BY <2>2, <2>3, <2>9, <3>1, <3>2
    <3>4. x \in Elements(a)  BY <2>3, <3>1, <3>2 DEF Elements
    <3>5. QED BY <3>3, <3>4
  <2>14. ASSUME NEW x \in Elements(a) \ {p} PROVE x \in Elements(b)
    <3>1. PICK i \in 1 .. size + 1 : x = a.items[i]  BY <2>3 DEF Elements
    <3>2. i # k  BY <2>2, <3>1
    <3>3. CASE i = size + 1
      <4>1. k \in 1 .. size /\ f[k] = x  BY <2>2, <2>3, <3>1, <3>2, <3>3
      <4>2. QED BY <2>12, <4>1
    <3>4. CASE i # size + 1
      <4>1. i \in 1 .. size /\ f[i] = x  BY <2>3, <3>1, <3>2, <3>4
      <4>2. QED BY <2>12, <4>1
    <3>5. QED BY <3>3, <3>4
  <2>15. Elements(b) = Elements(a) \ {p}  BY <2>13, <2>14
  <2>16. QED BY <2>8, <2>10, <2>11, <2>15 DEF Sound
<1>3. QED BY <1>1, <1>2

(* Get moves the index to the next place, and deals the element there.     *)
LEMMA RotatedSound ==
  ASSUME NEW S, NEW a, Sound(S, a)
  PROVE  /\ Sound(S, Rotated(a))
         /\ Rotated(a).items = a.items /\ Elements(Rotated(a)) = Elements(a)
         /\ Rotated(a).nIndex = IF a.nIndex + 1 < Len(a.items) THEN a.nIndex + 1 ELSE 0
<1> DEFINE n == IF a.nIndex + 1 < Len(a.items) THEN a.nIndex + 1 ELSE 0
<1>1. a.items \in Seq(S) /\ a.nIndex \in Nat /\ Len(a.items) \in Nat  BY DEF Sound, ArrayOf
<1>2. Rotated(a) = [items |-> a.items, nIndex |-> n]  BY DEF Rotated, Sound, ArrayOf
<1>3. Rotated(a).items = a.items /\ Rotated(a).nIndex = n  BY <1>2
<1>4. Rotated(a) \in ArrayOf(S)  BY <1>1, <1>2 DEF ArrayOf
<1>5. QED BY <1>1, <1>3, <1>4 DEF Sound, Once, IndexInside, Elements

LEMMA DealtIsElement ==
  ASSUME NEW S, NEW a, Sound(S, a), a.items # <<>>
  PROVE  Dealt(a) \in Elements(a) /\ Dealt(a) \in S
<1> DEFINE n == Rotated(a).nIndex + 1
<1>1. a.items \in Seq(S) /\ a.nIndex \in Nat /\ Len(a.items) \in Nat /\ Len(a.items) > 0
  BY DEF Sound, ArrayOf
<1>2. Rotated(a).nIndex = IF a.nIndex + 1 < Len(a.items) THEN a.nIndex + 1 ELSE 0
  BY RotatedSound
<1>3. n \in 1 .. Len(a.items)  BY <1>1, <1>2
<1>4. DOMAIN a.items = 1 .. Len(a.items)  BY <1>1
<1>5. QED BY <1>1, <1>3, <1>4 DEF Dealt, Elements
=============================================================================
