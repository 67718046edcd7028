--------------------------- MODULE VbhQueryProofs ---------------------------
(***************************************************************************)
(* The pool of connections of the client service and the queries that use  *)
(* it, proved for any number of callers, connections and peers: the arrays *)
(* mirror the connections, the picks go round, a caller hears once and of  *)
(* its own query, and one that waits waits on a live connection.           *)
(***************************************************************************)
EXTENDS VbhQuery, FiniteSetTheorems, TLAPS

-----------------------------------------------------------------------------
(* The pool of connections.                                                *)

(* An array of peers as it should be, and what it holds.                   *)
WellFormed(ps) ==
  /\ ps \in Seq(PeerInfo)
  /\ \A i, k \in DOMAIN ps : ps[i].id = ps[k].id => i = k
  /\ \A i \in DOMAIN ps :
       /\ ps[i].handlers # <<>>
       /\ IsInjective(ps[i].handlers)
       /\ \A j \in DOMAIN ps[i].handlers : PeerOf[ps[i].handlers[j]] = ps[i].id

Holds(ps, x) == \E i \in DOMAIN ps : x \in ToSet(ps[i].handlers)

PoolInv == TypeOK /\ MirrorsConnections

LEMMA MirrorsMeans ==
  PoolInv <=> /\ TypeOK /\ WellFormed(peers)
              /\ \A x : x \in live <=> Holds(peers, x)
<1>1. UNION {ToSet(peers[i].handlers) : i \in DOMAIN peers} = live
        <=> \A x : x \in live <=> Holds(peers, x)
  BY DEF Holds
<1>2. QED BY <1>1 DEF PoolInv, MirrorsConnections, WellFormed, TypeOK

LEMMA MirrorsMeansNext ==
  PoolInv' <=> /\ TypeOK' /\ WellFormed(peers')
               /\ \A x : x \in live' <=> Holds(peers', x)
<1>1. (UNION {ToSet(peers[i].handlers) : i \in DOMAIN peers} = live)'
        <=> \A x : x \in live' <=> Holds(peers', x)
  BY DEF Holds
<1>2. QED BY <1>1 DEF PoolInv, MirrorsConnections, WellFormed, TypeOK

(* A sequence without its k-th element.                                    *)
LEMMA RemovedAt ==
  ASSUME NEW S, NEW s \in Seq(S), NEW k \in 1 .. Len(s)
  PROVE  /\ RemoveAt(s, k) \in Seq(S)
         /\ Len(RemoveAt(s, k)) = Len(s) - 1
         /\ \A i \in 1 .. Len(s) - 1 :
              RemoveAt(s, k)[i] = IF i < k THEN s[i] ELSE s[i + 1]
<1> DEFINE a == SubSeq(s, 1, k - 1)
           b == SubSeq(s, k + 1, Len(s))
<1>1. Len(s) \in Nat /\ k \in Nat  OBVIOUS
<1>2. a \in Seq(S) /\ Len(a) = k - 1 /\ \A i \in 1 .. k - 1 : a[i] = s[i]
  BY <1>1
<1>3. b \in Seq(S) /\ Len(b) = Len(s) - k /\ \A i \in 1 .. Len(s) - k : b[i] = s[k + i]
  BY <1>1
<1>4. RemoveAt(s, k) = a \o b  BY DEF RemoveAt
<1> HIDE DEF a, b
<1>5. a \o b \in Seq(S) /\ Len(a \o b) = Len(s) - 1
  <2>1. a \o b \in Seq(S) /\ Len(a \o b) = Len(a) + Len(b)
    <3>1. a \in Seq(S) /\ b \in Seq(S)  BY <1>2, <1>3
    <3>2. a \o b \in Seq(S)  BY <3>1
    <3>3. Len(a \o b) = Len(a) + Len(b)  BY <3>1
    <3>4. QED BY <3>2, <3>3
  <2>2. (k - 1) + (Len(s) - k) = Len(s) - 1  BY <1>1
  <2>3. QED BY <1>2, <1>3, <2>1, <2>2
<1>6. ASSUME NEW i \in 1 .. Len(s) - 1
      PROVE  (a \o b)[i] = IF i < k THEN s[i] ELSE s[i + 1]
  <2>1. CASE i < k
    <3>1. i \in 1 .. k - 1 /\ i \in 1 .. Len(a)  BY <1>1, <1>2, <2>1
    <3>2. (a \o b)[i] = a[i]  BY <1>2, <1>3, <3>1
    <3>3. QED BY <1>2, <2>1, <3>1, <3>2
  <2>2. CASE ~(i < k)
    <3>1. i - (k - 1) \in 1 .. Len(s) - k /\ i > Len(a) /\ k + (i - (k - 1)) = i + 1
      BY <1>1, <1>2, <2>2
    <3>2. (a \o b)[i] = b[i - Len(a)]  BY <1>1, <1>2, <1>3, <3>1
    <3>3. QED BY <1>2, <1>3, <2>2, <3>1, <3>2
  <2>3. QED BY <2>1, <2>2
<1>7. QED BY <1>4, <1>5, <1>6

LEMMA RemovedElements ==
  ASSUME NEW S, NEW s \in Seq(S), NEW k \in 1 .. Len(s), IsInjective(s)
  PROVE  /\ IsInjective(RemoveAt(s, k))
         /\ ToSet(RemoveAt(s, k)) = ToSet(s) \ {s[k]}
<1> DEFINE r == RemoveAt(s, k)
           at(i) == IF i < k THEN i ELSE i + 1
<1>1. Len(s) \in Nat /\ DOMAIN s = 1 .. Len(s)  OBVIOUS
<1>2. DOMAIN r = 1 .. Len(s) - 1 /\ \A i \in 1 .. Len(s) - 1 : r[i] = s[at(i)]
  <2>1. r \in Seq(S) /\ Len(r) = Len(s) - 1
        /\ \A i \in 1 .. Len(s) - 1 : r[i] = IF i < k THEN s[i] ELSE s[i + 1]
    BY RemovedAt
  <2>2. QED BY <1>1, <2>1
<1>3. \A i, j \in DOMAIN s : s[i] = s[j] => i = j  BY DEF IsInjective
<1> HIDE DEF r
<1>4. \A i \in 1 .. Len(s) - 1 : at(i) \in 1 .. Len(s) /\ at(i) # k  BY <1>1
<1>5. IsInjective(r)
  <2> SUFFICES ASSUME NEW i \in 1 .. Len(s) - 1, NEW j \in 1 .. Len(s) - 1, r[i] = r[j]
               PROVE  i = j
    BY <1>2 DEF IsInjective
  <2>1. at(i) = at(j)  BY <1>1, <1>2, <1>3, <1>4
  <2>2. QED BY <1>1, <2>1
<1>6. ASSUME NEW x \in ToSet(r) PROVE x \in ToSet(s) \ {s[k]}
  <2>1. PICK i \in 1 .. Len(s) - 1 : x = r[i]  BY <1>2, <1>6 DEF ToSet
  <2>2. x = s[at(i)] /\ at(i) \in DOMAIN s /\ at(i) # k  BY <1>1, <1>2, <1>4, <2>1
  <2> HIDE DEF at
  <2>3. QED BY <1>1, <1>3, <2>2 DEF ToSet
<1>7. ASSUME NEW x \in ToSet(s) \ {s[k]} PROVE x \in ToSet(r)
  <2>1. PICK i \in 1 .. Len(s) : x = s[i] /\ i # k  BY <1>1, <1>7 DEF ToSet
  <2>2. CASE i < k
    <3>1. i \in 1 .. Len(s) - 1 /\ at(i) = i  BY <1>1, <2>2
    <3>2. r[i] = x  BY <1>2, <2>1, <3>1
    <3>3. QED BY <1>2, <3>1, <3>2 DEF ToSet
  <2>3. CASE i > k
    <3>1. i - 1 \in 1 .. Len(s) - 1 /\ at(i - 1) = i  BY <1>1, <2>3
    <3>2. r[i - 1] = x  BY <1>2, <2>1, <3>1
    <3>3. QED BY <1>2, <3>1, <3>2 DEF ToSet
  <2>4. QED BY <1>1, <2>1, <2>2, <2>3
<1>8. QED BY <1>5, <1>6, <1>7 DEF r

LEMMA TupleIsSeq == ASSUME NEW S, NEW n \in Nat, NEW q \in [1 .. n -> S] PROVE q \in Seq(S)
OBVIOUS

LEMMA InfoWith ==
  ASSUME NEW r \in PeerInfo, NEW hs, NEW n
  PROVE  [r EXCEPT !.handlers = hs, !.nIndex = n]
           = [id |-> r.id, handlers |-> hs, nIndex |-> n]
<1> DEFINE u == [id |-> r.id, handlers |-> hs, nIndex |-> r.nIndex]
<1>1. [r EXCEPT !.handlers = hs] = u  BY DEF PeerInfo
<1>2. [u EXCEPT !.nIndex = n] = [id |-> r.id, handlers |-> hs, nIndex |-> n]  OBVIOUS
<1>3. QED BY <1>1, <1>2

(* One peer of the array changes its connections or its index.             *)
Replaced(ps, i, hs, n) == [ps EXCEPT ![i].handlers = hs, ![i].nIndex = n]

LEMMA ReplacedWell ==
  ASSUME NEW ps, WellFormed(ps), NEW i \in DOMAIN ps,
         NEW hs \in Seq(Handlers), hs # <<>>, IsInjective(hs),
         \A j \in DOMAIN hs : PeerOf[hs[j]] = ps[i].id,
         NEW n \in Nat
  PROVE  /\ WellFormed(Replaced(ps, i, hs, n))
         /\ DOMAIN Replaced(ps, i, hs, n) = DOMAIN ps
         /\ Replaced(ps, i, hs, n)[i] = [id |-> ps[i].id, handlers |-> hs, nIndex |-> n]
         /\ \A k \in DOMAIN ps \ {i} : Replaced(ps, i, hs, n)[k] = ps[k]
<1> DEFINE q == Replaced(ps, i, hs, n)
<1>1. ps \in Seq(PeerInfo) /\ ps[i] \in PeerInfo  BY DEF WellFormed
<1> DEFINE new == [id |-> ps[i].id, handlers |-> hs, nIndex |-> n]
<1>2. new \in PeerInfo  BY <1>1 DEF PeerInfo
<1>3. new.id = ps[i].id /\ new.handlers = hs /\ new.nIndex = n  OBVIOUS
<1>4. q = [ps EXCEPT ![i] = new]
  <2>1. [ps[i] EXCEPT !.handlers = hs, !.nIndex = n] = new  BY <1>1, InfoWith
  <2>2. q = [ps EXCEPT ![i] = [ps[i] EXCEPT !.handlers = hs, !.nIndex = n]]  BY DEF Replaced
  <2>3. QED BY <2>1, <2>2
<1> HIDE DEF new, q
<1>5. DOMAIN q = DOMAIN ps /\ q[i] = new /\ \A k \in DOMAIN ps \ {i} : q[k] = ps[k]
  BY <1>1, <1>4
<1>6. q \in Seq(PeerInfo)
  <2>1. ps \in [1 .. Len(ps) -> PeerInfo] /\ Len(ps) \in Nat  BY <1>1
  <2>2. q \in [1 .. Len(ps) -> PeerInfo]  BY <1>2, <1>4, <2>1
  <2>3. QED BY <2>1, <2>2, TupleIsSeq
<1>7. \A k \in DOMAIN q : q[k].id = ps[k].id  BY <1>3, <1>5
<1>8. WellFormed(q)  BY <1>3, <1>5, <1>6, <1>7 DEF WellFormed
<1>9. QED BY <1>5, <1>8 DEF new, q

(* A peer joins at the end of the array.                                   *)
LEMMA JoinedWell ==
  ASSUME NEW ps, WellFormed(ps), NEW new \in PeerInfo, NEW h,
         \A i \in DOMAIN ps : ps[i].id # new.id,
         new.handlers = <<h>>, PeerOf[h] = new.id
  PROVE  /\ WellFormed(Append(ps, new))
         /\ \A x : Holds(Append(ps, new), x) <=> Holds(ps, x) \/ x = h
<1> DEFINE q == Append(ps, new)
<1>1. ps \in Seq(PeerInfo) /\ Len(ps) \in Nat /\ DOMAIN ps = 1 .. Len(ps)  BY DEF WellFormed
<1>2. /\ q \in Seq(PeerInfo) /\ DOMAIN q = 1 .. Len(ps) + 1 /\ q[Len(ps) + 1] = new
      /\ \A i \in DOMAIN ps : q[i] = ps[i]
  BY <1>1
<1> HIDE DEF q
<1>3. /\ DOMAIN new.handlers = {1} /\ new.handlers[1] = h /\ new.handlers # <<>>
      /\ IsInjective(new.handlers)
  BY DEF IsInjective
<1>4. ToSet(new.handlers) = {h}  BY <1>3 DEF ToSet
<1>5. \A i \in DOMAIN q : i \in DOMAIN ps \/ i = Len(ps) + 1  BY <1>1, <1>2
<1>6. WellFormed(q)
  <2>1. \A i, k \in DOMAIN q : q[i].id = q[k].id => i = k
    BY <1>2, <1>5 DEF WellFormed
  <2>2. ASSUME NEW i \in DOMAIN q
        PROVE  /\ q[i].handlers # <<>> /\ IsInjective(q[i].handlers)
               /\ \A j \in DOMAIN q[i].handlers : PeerOf[q[i].handlers[j]] = q[i].id
    <3>1. CASE i \in DOMAIN ps  BY <1>2, <3>1 DEF WellFormed
    <3>2. CASE i = Len(ps) + 1  BY <1>2, <1>3, <3>2
    <3>3. QED BY <1>5, <3>1, <3>2
  <2>3. QED BY <1>2, <2>1, <2>2 DEF WellFormed
<1>7. ASSUME NEW x PROVE Holds(q, x) <=> Holds(ps, x) \/ x = h
  <2>1. Len(ps) + 1 \in DOMAIN q /\ DOMAIN ps \subseteq DOMAIN q  BY <1>1, <1>2
  <2>2. QED BY <1>2, <1>4, <1>5, <2>1 DEF Holds
<1>8. QED BY <1>6, <1>7 DEF q

(* A peer leaves the array.                                                *)
LEMMA LeftWell ==
  ASSUME NEW ps, WellFormed(ps), NEW i \in DOMAIN ps
  PROVE  /\ WellFormed(RemoveAt(ps, i)) /\ Len(RemoveAt(ps, i)) = Len(ps) - 1
         /\ \A x : Holds(RemoveAt(ps, i), x)
                   <=> \E k \in DOMAIN ps \ {i} : x \in ToSet(ps[k].handlers)
<1> DEFINE q == RemoveAt(ps, i)
           at(k) == IF k < i THEN k ELSE k + 1
           back(k) == IF k < i THEN k ELSE k - 1
<1>1. /\ ps \in Seq(PeerInfo) /\ Len(ps) \in Nat /\ DOMAIN ps = 1 .. Len(ps)
      /\ i \in 1 .. Len(ps)
  BY DEF WellFormed
<1>2. /\ q \in Seq(PeerInfo) /\ Len(q) = Len(ps) - 1
      /\ \A k \in 1 .. Len(ps) - 1 : q[k] = IF k < i THEN ps[k] ELSE ps[k + 1]
  BY <1>1, RemovedAt
<1>3. DOMAIN q = 1 .. Len(ps) - 1 /\ \A k \in DOMAIN q : q[k] = ps[at(k)]  BY <1>1, <1>2
<1> HIDE DEF q
<1>4. \A k \in DOMAIN q : at(k) \in DOMAIN ps \ {i}  BY <1>1, <1>3
<1>5. \A k \in DOMAIN ps \ {i} : back(k) \in DOMAIN q /\ at(back(k)) = k  BY <1>1, <1>3
<1>6. \A k, l \in DOMAIN q : at(k) = at(l) => k = l  BY <1>1, <1>3
<1> HIDE DEF at, back
<1>7. WellFormed(q)
  <2>1. \A k, l \in DOMAIN q : q[k].id = q[l].id => k = l
    BY <1>3, <1>4, <1>6 DEF WellFormed
  <2>2. QED BY <1>2, <1>3, <1>4, <2>1 DEF WellFormed
<1>8. ASSUME NEW x
      PROVE  Holds(q, x) <=> \E k \in DOMAIN ps \ {i} : x \in ToSet(ps[k].handlers)
  BY <1>3, <1>4, <1>5 DEF Holds
<1>9. QED BY <1>2, <1>7, <1>8 DEF q

-----------------------------------------------------------------------------
(* Each operation of the pool keeps its arrays.                            *)
LEMMA FirstConnectedKeeps ==
  ASSUME PoolInv, NEW h \in Handlers, OnFirstConnected(h)
  PROVE  PoolInv'
<1>1. TypeOK /\ WellFormed(peers) /\ \A x : x \in live <=> Holds(peers, x)
  BY MirrorsMeans
<1>2. PeerOf[h] \in Peers /\ Garbage \subseteq Nat  BY PeerOfAssumption, GarbageAssumption
<1>3. /\ live' = live \cup {h} /\ picks' = <<>>
      /\ \A i \in DOMAIN peers : peers[i].id # PeerOf[h]
  BY DEF OnFirstConnected, PlaceOf
<1>4. nIndex' \in Nat  BY <1>1 DEF OnFirstConnected, TypeOK
<1>5. PICK g \in Garbage :
        peers' = Append(peers, [id |-> PeerOf[h], handlers |-> <<h>>, nIndex |-> g])
  BY DEF OnFirstConnected
<1> DEFINE new == [id |-> PeerOf[h], handlers |-> <<h>>, nIndex |-> g]
<1>6. new \in PeerInfo  BY <1>2 DEF PeerInfo
<1>7. new.id = PeerOf[h] /\ new.handlers = <<h>>  OBVIOUS
<1>8. peers' = Append(peers, new)  BY <1>5
<1> HIDE DEF new
<1>9. WellFormed(peers') /\ \A x : Holds(peers', x) <=> Holds(peers, x) \/ x = h
  BY <1>1, <1>3, <1>6, <1>7, <1>8, JoinedWell
<1>10. TypeOK'  BY <1>1, <1>3, <1>4, <1>9 DEF TypeOK, WellFormed
<1>11. QED BY <1>1, <1>3, <1>9, <1>10, MirrorsMeansNext

LEMMA NextConnectedKeeps ==
  ASSUME PoolInv, NEW h \in Handlers, OnNextConnected(h)
  PROVE  PoolInv'
<1>1. TypeOK /\ WellFormed(peers) /\ \A x : x \in live <=> Holds(peers, x)
  BY MirrorsMeans
<1>2. h \notin live /\ live' = live \cup {h} /\ picks' = <<>> /\ nIndex' = nIndex
  BY DEF OnNextConnected
<1>3. PICK i \in PlaceOf(PeerOf[h]) : \E n \in 0 .. Len(peers[i].handlers) :
        peers' = [peers EXCEPT ![i].handlers = Append(@, h), ![i].nIndex = n]
  BY DEF OnNextConnected
<1>4. i \in DOMAIN peers /\ peers[i].id = PeerOf[h]  BY <1>3 DEF PlaceOf
<1> DEFINE old == peers[i].handlers
           hs  == Append(old, h)
<1>5. old \in Seq(Handlers) /\ IsInjective(old)
      /\ \A j \in DOMAIN old : PeerOf[old[j]] = peers[i].id /\ old[j] # h
  <2>1. peers[i] \in PeerInfo  BY <1>1, <1>4 DEF WellFormed
  <2>2. ASSUME NEW j \in DOMAIN old PROVE old[j] # h
    BY <1>1, <1>2, <1>4, <2>2 DEF Holds, ToSet
  <2>3. QED BY <1>1, <1>4, <2>1, <2>2 DEF WellFormed, PeerInfo
<1>6. PICK n \in Nat : peers' = Replaced(peers, i, hs, n)
  <2>1. PICK n \in 0 .. Len(old) :
          peers' = [peers EXCEPT ![i].handlers = Append(@, h), ![i].nIndex = n]
    BY <1>3
  <2>2. peers[i] \in PeerInfo  BY <1>1, <1>4 DEF WellFormed
  <2>3. peers' = Replaced(peers, i, hs, n)  BY <1>1, <1>4, <2>1, <2>2 DEF Replaced, PeerInfo, TypeOK
  <2>4. n \in Nat  BY <1>5
  <2>5. QED BY <2>3, <2>4
<1>7. /\ hs \in Seq(Handlers) /\ hs # <<>>
      /\ DOMAIN hs = 1 .. Len(old) + 1 /\ hs[Len(old) + 1] = h
      /\ Len(old) \in Nat /\ DOMAIN old = 1 .. Len(old)
      /\ \A j \in DOMAIN old : hs[j] = old[j]
  BY <1>5
<1> HIDE DEF old, hs
<1>8. \A j \in DOMAIN hs : j \in DOMAIN old \/ j = Len(old) + 1  BY <1>7
<1>9. IsInjective(hs)  BY <1>5, <1>7, <1>8 DEF IsInjective
<1>10. \A j \in DOMAIN hs : PeerOf[hs[j]] = peers[i].id  BY <1>4, <1>5, <1>7, <1>8
<1>11. /\ WellFormed(peers') /\ DOMAIN peers' = DOMAIN peers
       /\ peers'[i] = [id |-> peers[i].id, handlers |-> hs, nIndex |-> n]
       /\ \A k \in DOMAIN peers \ {i} : peers'[k] = peers[k]
  BY <1>1, <1>4, <1>6, <1>7, <1>9, <1>10, ReplacedWell
<1> peers'[i].handlers = hs  BY <1>11
<1>12. ToSet(hs) = ToSet(old) \cup {h}
  <2>1. Len(old) + 1 \in DOMAIN hs /\ DOMAIN old \subseteq DOMAIN hs  BY <1>7
  <2>2. QED BY <1>7, <1>8, <2>1 DEF ToSet
<1>13. \A x : Holds(peers', x) <=> Holds(peers, x) \/ x = h
  BY <1>4, <1>11, <1>12 DEF Holds, old
<1>14. TypeOK'  BY <1>1, <1>2, <1>11 DEF TypeOK, WellFormed
<1>15. QED BY <1>1, <1>2, <1>11, <1>13, <1>14, MirrorsMeansNext

LEMMA WrappedInside ==
  ASSUME NEW n \in Nat, NEW size \in Nat
  PROVE  Wrapped(n, size) \in Nat /\ (size > 0 => Wrapped(n, size) < size)
BY DEF Wrapped

LEMMA HandlerLostKeeps ==
  ASSUME PoolInv, NEW h \in Handlers, OnHandlerLost(h)
  PROVE  PoolInv'
<1>1. TypeOK /\ WellFormed(peers) /\ \A x : x \in live <=> Holds(peers, x)
  BY MirrorsMeans
<1>2. live' = live \ {h} /\ picks' = <<>> /\ nIndex' = nIndex  BY DEF OnHandlerLost
<1>3. PICK i \in PlaceOf(PeerOf[h]) : \E j \in DOMAIN peers[i].handlers :
        /\ Len(peers[i].handlers) > 1 /\ peers[i].handlers[j] = h
        /\ peers' = WithoutHandler(i, j)
  BY DEF OnHandlerLost
<1>4. i \in DOMAIN peers /\ peers[i].id = PeerOf[h]  BY <1>3 DEF PlaceOf
<1> DEFINE old == peers[i].handlers
<1>5. PICK j \in DOMAIN old : Len(old) > 1 /\ old[j] = h /\ peers' = WithoutHandler(i, j)
  BY <1>3
<1> DEFINE hs == RemoveAt(old, j)
<1>6. /\ peers[i] \in PeerInfo /\ old \in Seq(Handlers) /\ IsInjective(old) /\ j \in 1 .. Len(old)
      /\ \A k \in DOMAIN old : PeerOf[old[k]] = peers[i].id
  <2>1. peers[i] \in PeerInfo  BY <1>1, <1>4 DEF WellFormed
  <2>2. old \in Seq(Handlers)  BY <2>1 DEF PeerInfo
  <2>3. j \in 1 .. Len(old)  BY <2>2
  <2>4. QED BY <1>1, <1>4, <2>1, <2>2, <2>3 DEF WellFormed
<1>7. /\ hs \in Seq(Handlers) /\ Len(hs) = Len(old) - 1 /\ IsInjective(hs)
      /\ ToSet(hs) = ToSet(old) \ {h}
  BY <1>5, <1>6, RemovedAt, RemovedElements
<1>8. PICK n \in Nat : peers' = Replaced(peers, i, hs, n)
  <2>1. peers' = [peers EXCEPT ![i].handlers = hs, ![i].nIndex = Wrapped(@, Len(hs))]
    BY <1>5 DEF WithoutHandler
  <2>2. peers' = [peers EXCEPT ![i].handlers = hs,
                               ![i].nIndex = Wrapped(peers[i].nIndex, Len(hs))]
    BY <2>1, <1>6 DEF PeerInfo
  <2>3. Wrapped(peers[i].nIndex, Len(hs)) \in Nat
    <3>1. peers[i].nIndex \in Nat  BY <1>6 DEF PeerInfo
    <3>2. Len(hs) \in Nat  BY <1>7
    <3>3. QED BY <3>1, <3>2, WrappedInside
  <2>4. QED BY <2>2, <2>3 DEF Replaced
<1> HIDE DEF hs
<1>9. hs # <<>>  BY <1>5, <1>6, <1>7
<1>10. \A k \in DOMAIN hs : PeerOf[hs[k]] = peers[i].id
  <2>1. \A x \in ToSet(old) : PeerOf[x] = peers[i].id  BY <1>6 DEF ToSet
  <2>2. QED BY <1>7, <2>1 DEF ToSet
<1>11. /\ WellFormed(peers') /\ DOMAIN peers' = DOMAIN peers
       /\ peers'[i] = [id |-> peers[i].id, handlers |-> hs, nIndex |-> n]
       /\ \A k \in DOMAIN peers \ {i} : peers'[k] = peers[k]
  BY <1>1, <1>4, <1>7, <1>8, <1>9, <1>10, ReplacedWell
<1> peers'[i].handlers = hs  BY <1>11
<1>12. \A k \in DOMAIN peers \ {i} : h \notin ToSet(peers[k].handlers)
  BY <1>1, <1>4 DEF WellFormed, ToSet
<1>13. \A x : Holds(peers', x) <=> Holds(peers, x) /\ x # h
  BY <1>4, <1>7, <1>11, <1>12 DEF Holds
<1>14. TypeOK'  BY <1>1, <1>2, <1>11 DEF TypeOK, WellFormed
<1>15. QED BY <1>1, <1>2, <1>11, <1>13, <1>14, MirrorsMeansNext

LEMMA PeerLostKeeps ==
  ASSUME PoolInv, NEW h \in Handlers, OnPeerLost(h)
  PROVE  PoolInv'
<1>1. TypeOK /\ WellFormed(peers) /\ \A x : x \in live <=> Holds(peers, x)
  BY MirrorsMeans
<1>2. h \in live /\ live' = live \ {h} /\ picks' = <<>>  BY DEF OnPeerLost
<1>3. PICK i \in PlaceOf(PeerOf[h]) :
        /\ Len(peers[i].handlers) = 1 /\ peers' = RemoveAt(peers, i)
        /\ nIndex' = Wrapped(nIndex, Len(RemoveAt(peers, i)))
  BY DEF OnPeerLost
<1>4. i \in DOMAIN peers /\ peers[i].id = PeerOf[h]  BY <1>3 DEF PlaceOf
<1>5. /\ WellFormed(peers') /\ Len(peers') = Len(peers) - 1
      /\ \A x : Holds(peers', x) <=> \E k \in DOMAIN peers \ {i} : x \in ToSet(peers[k].handlers)
  BY <1>1, <1>3, <1>4, LeftWell
<1>6. ASSUME NEW k \in DOMAIN peers \ {i} PROVE h \notin ToSet(peers[k].handlers)
  BY <1>1, <1>4 DEF WellFormed, ToSet
<1>7. ToSet(peers[i].handlers) = {h}
  <2>1. h \in ToSet(peers[i].handlers)  BY <1>1, <1>2, <1>6 DEF Holds
  <2>2. peers[i] \in PeerInfo  BY <1>1, <1>4 DEF WellFormed
  <2>3. DOMAIN peers[i].handlers = {1}  BY <1>3, <2>2 DEF PeerInfo
  <2>4. QED BY <2>1, <2>3 DEF ToSet
<1>8. \A x : Holds(peers', x) <=> Holds(peers, x) /\ x # h
  BY <1>4, <1>5, <1>6, <1>7 DEF Holds
<1>9. nIndex' \in Nat
  <2>1. Len(peers') \in Nat /\ nIndex \in Nat  BY <1>1, <1>5 DEF WellFormed, TypeOK
  <2>2. QED BY <1>3, <2>1, WrappedInside
<1>10. TypeOK'  BY <1>1, <1>2, <1>5, <1>9 DEF TypeOK, WellFormed
<1>11. QED BY <1>1, <1>2, <1>5, <1>8, <1>10, MirrorsMeansNext

-----------------------------------------------------------------------------
(* The rotations.  The place d picks back, in an array of size places      *)
(* whose last pick was the m-th.                                           *)
Back(m, d, size) == IF d < m THEN m - d ELSE m - d + size

LEMMA Around ==
  ASSUME NEW size \in Nat, size > 0, NEW m \in Nat
  PROVE  /\ Wrapped(m, size) + 1 \in 1 .. size
         /\ Back(Wrapped(m, size) + 1, 0, size) = Wrapped(m, size) + 1
         /\ \A d \in 1 .. size - 1 :
              /\ Back(Wrapped(m, size) + 1, d, size) \in 1 .. size
              /\ Back(Wrapped(m, size) + 1, d, size) # Wrapped(m, size) + 1
         /\ m \in 1 .. size =>
              \A d \in Nat : d + 1 < size =>
                Back(Wrapped(m, size) + 1, d + 1, size) = Back(m, d, size)
BY DEF Wrapped, Back

(* The picks of the same peer after the k-th.                              *)
After(s, k) == {j \in k + 1 .. Len(s) : PeerOf[s[j]] = PeerOf[s[k]]}

LEMMA AfterFinite ==
  ASSUME NEW s \in Seq(Handlers), NEW k \in DOMAIN s
  PROVE  IsFiniteSet(After(s, k)) /\ Cardinality(After(s, k)) \in Nat
<1>1. k + 1 \in Int /\ Len(s) \in Int  OBVIOUS
<1>2. IsFiniteSet(k + 1 .. Len(s))  BY <1>1, FS_Interval
<1>3. After(s, k) \subseteq k + 1 .. Len(s)  BY DEF After
<1>4. QED BY <1>2, <1>3, FS_Subset, FS_CardinalityType

LEMMA AfterAppend ==
  ASSUME NEW s \in Seq(Handlers), NEW h \in Handlers
  PROVE  /\ Cardinality(After(Append(s, h), Len(s) + 1)) = 0
         /\ \A k \in DOMAIN s :
              Cardinality(After(Append(s, h), k))
                = IF PeerOf[h] = PeerOf[s[k]] THEN Cardinality(After(s, k)) + 1
                  ELSE Cardinality(After(s, k))
<1> DEFINE q == Append(s, h)
<1>1. Len(s) \in Nat /\ DOMAIN s = 1 .. Len(s)  OBVIOUS
<1>2. Len(q) = Len(s) + 1 /\ q[Len(s) + 1] = h /\ \A k \in 1 .. Len(s) : q[k] = s[k]  OBVIOUS
<1> HIDE DEF q
<1>3. After(q, Len(s) + 1) = {}  BY <1>1, <1>2 DEF After
<1>4. ASSUME NEW k \in DOMAIN s
      PROVE  Cardinality(After(q, k))
                = IF PeerOf[h] = PeerOf[s[k]] THEN Cardinality(After(s, k)) + 1
                  ELSE Cardinality(After(s, k))
  <2>1. IsFiniteSet(After(s, k)) /\ Len(s) + 1 \notin After(s, k)
    BY <1>1, AfterFinite DEF After
  <2>2. \A x \in k + 1 .. Len(s) + 1 : x \in k + 1 .. Len(s) \/ x = Len(s) + 1
    BY <1>1
  <2>3. k \in 1 .. Len(s) /\ \A x \in k + 1 .. Len(s) : x \in 1 .. Len(s)  BY <1>1
  <2>4. CASE PeerOf[h] = PeerOf[s[k]]
    <3>1. After(q, k) = After(s, k) \cup {Len(s) + 1}
      <4>1. Len(s) + 1 \in After(q, k)  BY <1>1, <1>2, <2>3, <2>4 DEF After
      <4>2. \A x \in k + 1 .. Len(s) : x \in k + 1 .. Len(s) + 1  BY <1>1
      <4>3. QED BY <1>2, <2>2, <2>3, <4>1, <4>2 DEF After
    <3>2. QED BY <2>1, <2>4, <3>1, FS_AddElement
  <2>5. CASE PeerOf[h] # PeerOf[s[k]]
    <3>1. Len(s) + 1 \notin After(q, k)  BY <1>2, <2>3, <2>5 DEF After
    <3>2. \A x \in k + 1 .. Len(s) : x \in k + 1 .. Len(s) + 1  BY <1>1
    <3>3. After(q, k) = After(s, k)  BY <1>2, <2>2, <2>3, <3>1, <3>2 DEF After
    <3>4. QED BY <2>5, <3>3
  <2>6. QED BY <2>4, <2>5
<1>5. QED BY <1>3, <1>4, FS_EmptySet DEF q

(* What a pick d turns back was: which peer, and which of its connections. *)
PeersRound ==
  \A k \in DOMAIN picks :
    /\ nIndex \in 1 .. Len(peers)
    /\ Len(picks) - k < Len(peers) =>
         PeerOf[picks[k]] = peers[Back(nIndex, Len(picks) - k, Len(peers))].id

HandlersRound ==
  \A n \in DOMAIN peers, k \in DOMAIN picks :
    PeerOf[picks[k]] = peers[n].id =>
      /\ peers[n].nIndex \in 1 .. Len(peers[n].handlers)
      /\ Cardinality(After(picks, k)) < Len(peers[n].handlers) =>
           picks[k] = peers[n].handlers[Back(peers[n].nIndex, Cardinality(After(picks, k)),
                                             Len(peers[n].handlers))]

RoundInv == PoolInv /\ PeersRound /\ HandlersRound /\ PicksGoRound

(* No picks yet: nothing to say.                                           *)
LEMMA NoPicks ==
  ASSUME PoolInv', picks' = <<>>
  PROVE  RoundInv'
<1>1. DOMAIN picks' = {}  OBVIOUS
<1>2. QED BY <1>1 DEF RoundInv, PeersRound, HandlersRound, PicksGoRound, PicksDistinctPeers,
                      HandlersTakeTurns

(* The step of a pick.                                                     *)
Picked(i, j) ==
  /\ i = Wrapped(nIndex, Len(peers)) + 1
  /\ j = Wrapped(peers[i].nIndex, Len(peers[i].handlers)) + 1
  /\ peers' = [peers EXCEPT ![i].nIndex = j]
  /\ nIndex' = i
  /\ picks' = Append(picks, peers[i].handlers[j])
  /\ live' = live

LEMMA PickedFacts ==
  ASSUME RoundInv, NEW i, NEW j, peers # <<>>, Picked(i, j)
  PROVE  /\ i \in DOMAIN peers /\ j \in DOMAIN peers[i].handlers
         /\ peers[i].handlers[j] \in Handlers /\ PeerOf[peers[i].handlers[j]] = peers[i].id
         /\ peers' = Replaced(peers, i, peers[i].handlers, j)
         /\ PoolInv' /\ DOMAIN peers' = DOMAIN peers /\ Len(peers') = Len(peers)
         /\ peers'[i] = [id |-> peers[i].id, handlers |-> peers[i].handlers, nIndex |-> j]
         /\ \A k \in DOMAIN peers \ {i} : peers'[k] = peers[k]
<1> DEFINE hs == peers[i].handlers
<1>1. TypeOK /\ WellFormed(peers) /\ \A x : x \in live <=> Holds(peers, x)
  BY MirrorsMeans DEF RoundInv
<1>2. peers \in Seq(PeerInfo) /\ Len(peers) \in Nat /\ Len(peers) > 0 /\ DOMAIN peers = 1 .. Len(peers)
  BY <1>1 DEF WellFormed
<1>3. i \in 1 .. Len(peers)  BY <1>1, <1>2, Around DEF Picked, TypeOK
<1>4. peers[i] \in PeerInfo  BY <1>2, <1>3
<1>5. hs \in Seq(Handlers) /\ peers[i].nIndex \in Nat  BY <1>4 DEF PeerInfo
<1>6. hs # <<>> /\ IsInjective(hs) /\ \A k \in DOMAIN hs : PeerOf[hs[k]] = peers[i].id
  BY <1>1, <1>2, <1>3 DEF WellFormed
<1>7. Len(hs) \in Nat /\ Len(hs) > 0 /\ DOMAIN hs = 1 .. Len(hs)  BY <1>5, <1>6
<1>8. j \in 1 .. Len(hs)  BY <1>5, <1>7, Around DEF Picked
<1>9. hs[j] \in Handlers /\ PeerOf[hs[j]] = peers[i].id  BY <1>5, <1>6, <1>7, <1>8
<1>10. peers' = Replaced(peers, i, hs, j)
  <2>1. [peers[i] EXCEPT !.handlers = hs] = peers[i]  BY <1>4 DEF PeerInfo
  <2>2. Replaced(peers, i, hs, j) = [peers EXCEPT ![i] = [peers[i] EXCEPT !.handlers = hs, !.nIndex = j]]
    BY DEF Replaced
  <2>3. peers' = [peers EXCEPT ![i] = [peers[i] EXCEPT !.nIndex = j]]  BY DEF Picked
  <2>4. QED BY <2>1, <2>2, <2>3
<1>11. j \in Nat /\ i \in DOMAIN peers /\ j \in DOMAIN hs  BY <1>2, <1>3, <1>7, <1>8
<1>12. /\ WellFormed(peers') /\ DOMAIN peers' = DOMAIN peers
       /\ peers'[i] = [id |-> peers[i].id, handlers |-> hs, nIndex |-> j]
       /\ \A k \in DOMAIN peers \ {i} : peers'[k] = peers[k]
  BY <1>1, <1>5, <1>6, <1>10, <1>11, ReplacedWell
<1>13. Len(peers') = Len(peers)  BY <1>2, <1>12 DEF WellFormed
<1>14. \A k \in DOMAIN peers : peers'[k].handlers = peers[k].handlers  BY <1>12
<1>15. \A x : Holds(peers', x) <=> Holds(peers, x)  BY <1>12, <1>14 DEF Holds
<1>16. TypeOK'
  <2>1. picks' \in Seq(Handlers)  BY <1>1, <1>9 DEF Picked, TypeOK
  <2>2. nIndex' \in Nat  BY <1>2, <1>3 DEF Picked
  <2>3. QED BY <1>1, <1>12, <2>1, <2>2 DEF Picked, TypeOK, WellFormed
<1>17. PoolInv'  BY <1>1, <1>12, <1>15, <1>16, MirrorsMeansNext DEF Picked
<1>18. QED BY <1>9, <1>10, <1>11, <1>12, <1>13, <1>17

LEMMA PickedKeeps ==
  ASSUME RoundInv, NEW i, NEW j, peers # <<>>, Picked(i, j)
  PROVE  RoundInv'
<1> DEFINE N == Len(picks)
           P == Len(peers)
           h == peers[i].handlers[j]
<1>1. /\ i \in DOMAIN peers /\ j \in DOMAIN peers[i].handlers
      /\ h \in Handlers /\ PeerOf[h] = peers[i].id
      /\ PoolInv' /\ DOMAIN peers' = DOMAIN peers /\ Len(peers') = Len(peers)
      /\ peers'[i] = [id |-> peers[i].id, handlers |-> peers[i].handlers, nIndex |-> j]
      /\ \A k \in DOMAIN peers \ {i} : peers'[k] = peers[k]
  BY PickedFacts
<1>2. /\ peers'[i].id = peers[i].id /\ peers'[i].handlers = peers[i].handlers
      /\ peers'[i].nIndex = j
  BY <1>1
<1>3. /\ \A k \in DOMAIN peers : peers'[k].id = peers[k].id
      /\ \A k \in DOMAIN peers : peers'[k].handlers = peers[k].handlers
  BY <1>1, <1>2
<1>4. /\ WellFormed(peers) /\ picks \in Seq(Handlers) /\ nIndex \in Nat /\ N \in Nat
      /\ P \in Nat /\ DOMAIN peers = 1 .. P /\ P > 0 /\ DOMAIN picks = 1 .. N
  BY <1>1, MirrorsMeans DEF RoundInv, TypeOK, WellFormed
<1>5. /\ picks' = Append(picks, h) /\ Len(picks') = N + 1 /\ DOMAIN picks' = 1 .. N + 1
      /\ picks'[N + 1] = h /\ \A k \in 1 .. N : picks'[k] = picks[k]
      /\ nIndex' = i
  BY <1>4 DEF Picked
<1>6. \A k \in DOMAIN picks' : k \in DOMAIN picks \/ k = N + 1  BY <1>4, <1>5
<1>7. i = Wrapped(nIndex, P) + 1 /\ j = Wrapped(peers[i].nIndex, Len(peers[i].handlers)) + 1
  BY DEF Picked
<1>8. /\ Back(i, 0, P) = i
      /\ \A d \in 1 .. P - 1 : Back(i, d, P) \in 1 .. P /\ Back(i, d, P) # i
      /\ nIndex \in 1 .. P => \A d \in Nat : d + 1 < P => Back(i, d + 1, P) = Back(nIndex, d, P)
  <2> DEFINE w == Wrapped(nIndex, P)
  <2>1. i = w + 1 /\ w + 1 \in 1 .. P  BY <1>4, <1>7, Around
  <2> HIDE DEF P
  <2>2. QED BY <1>4, <1>7, Around
<1>9. PeersRound'
  <2> SUFFICES ASSUME NEW k \in DOMAIN picks'
               PROVE  /\ i \in 1 .. P
                      /\ N + 1 - k < P => PeerOf[picks'[k]] = peers[Back(i, N + 1 - k, P)].id
    <3>1. \A d \in 0 .. P - 1 : Back(i, d, P) \in DOMAIN peers
      BY <1>1, <1>4, <1>8
    <3>2. \A k \in DOMAIN picks' : N + 1 - k \in Nat  BY <1>4, <1>5
    <3>3. ASSUME NEW k \in DOMAIN picks', N + 1 - k < P
          PROVE  peers'[Back(i, N + 1 - k, P)].id = peers[Back(i, N + 1 - k, P)].id
      BY <1>3, <1>4, <3>1, <3>2, <3>3
    <3>4. QED BY <1>1, <1>5, <3>3 DEF PeersRound
  <2>1. CASE k = N + 1  BY <1>1, <1>4, <1>5, <1>8, <2>1
  <2>2. CASE k \in DOMAIN picks
    <3>1. /\ nIndex \in 1 .. P
          /\ N - k < P => PeerOf[picks[k]] = peers[Back(nIndex, N - k, P)].id
      BY <2>2 DEF RoundInv, PeersRound
    <3>2. N - k \in Nat /\ N + 1 - k = (N - k) + 1 /\ picks'[k] = picks[k]  BY <1>4, <1>5, <2>2
    <3>3. QED BY <1>1, <1>4, <1>8, <3>1, <3>2
  <2>3. QED BY <1>6, <2>1, <2>2
<1>10. PicksDistinctPeers'
  <2> SUFFICES ASSUME NEW k \in DOMAIN picks', NEW l \in DOMAIN picks', k < l, l - k < P
               PROVE  PeerOf[picks'[k]] # PeerOf[picks'[l]]
    BY <1>1 DEF PicksDistinctPeers
  <2>1. k \in DOMAIN picks  BY <1>4, <1>5
  <2>2. CASE l \in DOMAIN picks
    BY <1>4, <1>5, <2>1, <2>2 DEF RoundInv, PicksGoRound, PicksDistinctPeers
  <2>3. CASE l = N + 1
    <3>1. N + 1 - k \in 1 .. P - 1  BY <1>4, <2>1, <2>3
    <3>2. PeerOf[picks'[k]] = peers'[Back(i, N + 1 - k, P)].id
      <4>1. Len(picks') - k = N + 1 - k /\ Len(peers') = P /\ N + 1 - k < P
        BY <1>1, <1>4, <1>5, <2>1, <3>1
      <4>2. QED BY <1>5, <1>9, <4>1 DEF PeersRound
    <3>3. Back(i, N + 1 - k, P) \in DOMAIN peers /\ Back(i, N + 1 - k, P) # i  BY <1>4, <1>8, <3>1
    <3>4. QED BY <1>1, <1>3, <1>4, <1>5, <2>3, <3>2, <3>3 DEF WellFormed
  <2>4. QED BY <1>6, <2>2, <2>3
<1>11. HandlersRound'
  <2> SUFFICES ASSUME NEW n \in DOMAIN peers, NEW k \in DOMAIN picks',
                      PeerOf[picks'[k]] = peers[n].id
               PROVE  LET size == Len(peers[n].handlers)
                          e    == Cardinality(After(picks', k))
                          m    == peers'[n].nIndex
                      IN  /\ m \in 1 .. size
                          /\ e < size => picks'[k] = peers[n].handlers[Back(m, e, size)]
    BY <1>1, <1>3 DEF HandlersRound
  <2> DEFINE hs   == peers[n].handlers
             size == Len(hs)
  <2>1. hs \in Seq(Handlers) /\ size \in Nat /\ DOMAIN hs = 1 .. size /\ size > 0
        /\ peers[n].nIndex \in Nat
    <3>1. peers[n] \in PeerInfo  BY <1>4 DEF WellFormed
    <3>2. hs \in Seq(Handlers) /\ peers[n].nIndex \in Nat  BY <3>1 DEF PeerInfo
    <3>3. hs # <<>>  BY <1>4 DEF WellFormed
    <3>4. QED BY <3>2, <3>3
  <2>2. CASE n # i
    <3>1. PeerOf[h] # peers[n].id  BY <1>1, <1>4, <2>2 DEF WellFormed
    <3>2. k \in DOMAIN picks /\ picks'[k] = picks[k]  BY <1>4, <1>5, <1>6, <3>1
    <3>3. Cardinality(After(picks', k)) = Cardinality(After(picks, k))
      BY <1>1, <1>4, <1>5, <3>1, <3>2, AfterAppend
    <3>4. peers'[n] = peers[n]  BY <1>1, <2>2
    <3>5. QED BY <3>2, <3>3, <3>4 DEF RoundInv, HandlersRound
  <2>3. CASE n = i
    <3> DEFINE m == peers[i].nIndex
    <3>1. /\ j \in 1 .. size /\ Back(j, 0, size) = j
          /\ m \in 1 .. size =>
               \A d \in Nat : d + 1 < size => Back(j, d + 1, size) = Back(m, d, size)
      <4>1. j = Wrapped(m, size) + 1 /\ m \in Nat  BY <1>7, <2>1, <2>3
      <4> HIDE DEF m, size
      <4>2. QED BY <2>1, <4>1, Around
    <3>2. peers'[n].nIndex = j  BY <1>2, <2>3
    <3>3. CASE k = N + 1
      <4>1. Cardinality(After(picks', k)) = 0  BY <1>1, <1>4, <1>5, <3>3, AfterAppend
      <4>2. QED BY <1>5, <2>3, <3>1, <3>2, <3>3, <4>1
    <3>4. CASE k \in DOMAIN picks
      <4> DEFINE e == Cardinality(After(picks, k))
      <4>1. picks'[k] = picks[k]  BY <1>4, <1>5, <3>4
      <4>2. Cardinality(After(picks', k)) = e + 1
        BY <1>1, <1>4, <1>5, <2>3, <3>4, <4>1, AfterAppend
      <4>3. e \in Nat  BY <1>4, <3>4, AfterFinite
      <4>4. /\ peers[i].nIndex \in 1 .. size
            /\ e < size => picks[k] = hs[Back(peers[i].nIndex, e, size)]
        BY <2>3, <3>4, <4>1 DEF RoundInv, HandlersRound
      <4> HIDE DEF e, size, hs
      <4>5. e + 1 < size => picks'[k] = hs[Back(j, e + 1, size)]
        BY <2>1, <3>1, <4>1, <4>3, <4>4
      <4>6. QED BY <3>1, <3>2, <4>2, <4>5 DEF size, hs
    <3>5. QED BY <1>6, <3>3, <3>4
  <2>4. QED BY <2>2, <2>3
<1>12. HandlersTakeTurns'
  <2> SUFFICES ASSUME NEW n \in DOMAIN peers, NEW k \in DOMAIN picks', NEW l \in DOMAIN picks',
                      k < l, picks'[k] = picks'[l], PeerOf[picks'[k]] = peers[n].id
               PROVE  Cardinality({x \in k + 1 .. l : PeerOf[picks'[x]] = PeerOf[picks'[k]]})
                        >= Len(peers[n].handlers)
    BY <1>1, <1>3 DEF HandlersTakeTurns, PicksBetween
  <2>1. k \in DOMAIN picks /\ picks'[k] = picks[k]  BY <1>4, <1>5
  <2>2. CASE l \in DOMAIN picks
    <3>1. Cardinality(PicksBetween(k, l)) >= Len(peers[n].handlers)
      BY <1>4, <1>5, <2>1, <2>2 DEF RoundInv, PicksGoRound, HandlersTakeTurns
    <3>2. \A x \in k + 1 .. l : picks'[x] = picks[x]  BY <1>4, <1>5, <2>1, <2>2
    <3>3. QED BY <2>1, <3>1, <3>2 DEF PicksBetween
  <2>3. CASE l = N + 1
    <3> DEFINE hs == peers[i].handlers
               size == Len(hs)
               e == Cardinality(After(picks', k))
    <3>1. {x \in k + 1 .. l : PeerOf[picks'[x]] = PeerOf[picks'[k]]} = After(picks', k)
      BY <1>5, <2>3 DEF After
    <3>2. n = i  BY <1>1, <1>4, <1>5, <2>3 DEF WellFormed
    <3>3. hs \in Seq(Handlers) /\ size \in Nat /\ DOMAIN hs = 1 .. size /\ IsInjective(hs)
          /\ size > 0 /\ peers[i].nIndex \in Nat
      <4>1. peers[i] \in PeerInfo /\ IsInjective(hs) /\ hs # <<>>  BY <1>1, <1>4 DEF WellFormed
      <4>2. hs \in Seq(Handlers) /\ peers[i].nIndex \in Nat  BY <4>1 DEF PeerInfo
      <4>3. QED BY <4>1, <4>2
    <3>4. e < size => h = hs[Back(j, e, size)]
      BY <1>1, <1>2, <1>5, <1>11, <2>3, <3>2 DEF HandlersRound
    <3>5. e \in Nat /\ e > 0
      <4>1. e = Cardinality(After(picks, k)) + 1
        BY <1>1, <1>4, <1>5, <2>1, <2>3, AfterAppend
      <4>2. Cardinality(After(picks, k)) \in Nat  BY <1>4, <2>1, AfterFinite
      <4>3. QED BY <4>1, <4>2
    <3>6. \A d \in 1 .. size - 1 : Back(j, d, size) \in 1 .. size /\ Back(j, d, size) # j
      <4> DEFINE m == peers[i].nIndex
      <4>1. j = Wrapped(m, size) + 1 /\ m \in Nat  BY <1>7, <3>3
      <4> HIDE DEF m, size
      <4>2. QED BY <3>3, <4>1, Around
    <3> HIDE DEF e, size, hs
    <3>7. e >= size
      <4> SUFFICES ASSUME e < size PROVE FALSE  BY <3>3, <3>5
      <4>1. e \in 1 .. size - 1  BY <3>3, <3>5
      <4>2. hs[Back(j, e, size)] = hs[j]  BY <3>4 DEF hs
      <4>3. j \in DOMAIN hs  BY <1>1 DEF hs
      <4>4. QED BY <3>3, <3>6, <4>1, <4>2, <4>3 DEF IsInjective
    <3>8. QED BY <3>1, <3>2, <3>7 DEF e, size, hs
  <2>4. QED BY <1>6, <2>2, <2>3
<1>13. QED BY <1>1, <1>9, <1>10, <1>11, <1>12 DEF RoundInv, PicksGoRound

LEMMA PoolStep == RoundInv /\ [Next]_vars => RoundInv'
<1> SUFFICES ASSUME RoundInv, [Next]_vars PROVE RoundInv'  OBVIOUS
<1>1. PoolInv  BY DEF RoundInv
<1>2. ASSUME NEW h \in Handlers, OnFirstConnected(h) PROVE RoundInv'
  BY <1>1, <1>2, FirstConnectedKeeps, NoPicks DEF OnFirstConnected
<1>3. ASSUME NEW h \in Handlers, OnNextConnected(h) PROVE RoundInv'
  BY <1>1, <1>3, NextConnectedKeeps, NoPicks DEF OnNextConnected
<1>4. ASSUME NEW h \in Handlers, OnHandlerLost(h) PROVE RoundInv'
  BY <1>1, <1>4, HandlerLostKeeps, NoPicks DEF OnHandlerLost
<1>5. ASSUME NEW h \in Handlers, OnPeerLost(h) PROVE RoundInv'
  BY <1>1, <1>5, PeerLostKeeps, NoPicks DEF OnPeerLost
<1>6. CASE GetMcpHandler
  <2> DEFINE i == Wrapped(nIndex, Len(peers)) + 1
             j == Wrapped(peers[i].nIndex, Len(peers[i].handlers)) + 1
  <2>1. peers # <<>> /\ Picked(i, j)  BY <1>6 DEF GetMcpHandler, Picked
  <2> HIDE DEF i, j
  <2>2. QED BY <2>1, PickedKeeps
<1>7. CASE UNCHANGED vars
  <2>1. live' = live /\ peers' = peers /\ nIndex' = nIndex /\ picks' = picks
    BY <1>7 DEF vars
  <2>2. PoolInv'  BY <1>1, <2>1 DEF PoolInv, TypeOK, MirrorsConnections
  <2>3. PeersRound'  BY <2>1 DEF RoundInv, PeersRound
  <2>4. HandlersRound'  BY <2>1 DEF RoundInv, HandlersRound
  <2>5. PicksDistinctPeers'  BY <2>1 DEF RoundInv, PicksGoRound, PicksDistinctPeers
  <2>6. HandlersTakeTurns'  BY <2>1 DEF RoundInv, PicksGoRound, HandlersTakeTurns, PicksBetween
  <2>7. QED BY <2>2, <2>3, <2>4, <2>5, <2>6 DEF RoundInv, PicksGoRound
<1>8. QED BY <1>2, <1>3, <1>4, <1>5, <1>6, <1>7 DEF Next

-----------------------------------------------------------------------------
(* The queries.                                                            *)

(* Requests that wait for an answer, or may still be answered.             *)
Open == sessions \cup wire

(* The argument.  An id below m_nSessionID belongs to one query, of one    *)
(* caller; while its session waits the caller has heard nothing.           *)
QueryTypes ==
  /\ asked \subseteq Callers /\ nSessionID \in Nat
  /\ \A s \in Open : s.id \in Nat /\ s.caller \in Callers
  /\ answers \in [Callers -> Seq([code : {"decode_error", "network_error", "endorser", "timeout"},
                                  of : SUBSET Callers])]

IdsTell ==
  /\ \A s \in Open : s.id < nSessionID /\ s.caller \in asked
  /\ \A s, u \in Open : s.id = u.id \/ s.caller = u.caller => s = u

WaitingHeardNothing ==
  /\ \A s \in sessions : answers[s.caller] = <<>>
  /\ \A c \in Callers \ asked : answers[c] = <<>>

QueryInv == QueryTypes /\ IdsTell /\ WaitingHeardNothing /\ HearsOwnOnce

LEMMA InvInit == QueryInit => QueryInv
BY DEF QueryInit, QueryInv, QueryTypes, IdsTell, WaitingHeardNothing, HearsOwnOnce, Open

-----------------------------------------------------------------------------
(* A caller that has heard nothing is answered.                            *)
Answer == [code : {"decode_error", "network_error", "endorser", "timeout"}, of : SUBSET Callers]

LEMMA AnsweredOnce ==
  ASSUME QueryInv, NEW c \in Callers, answers[c] = <<>>,
         NEW code \in {"decode_error", "network_error", "endorser", "timeout"},
         NEW of \in SUBSET {c}, Answered(c, code, of)
  PROVE  /\ answers' \in [Callers -> Seq(Answer)]
         /\ \A b \in Callers \ {c} : answers'[b] = answers[b]
         /\ HearsOwnOnce'
<1>1. answers \in [Callers -> Seq(Answer)]  BY DEF QueryInv, QueryTypes, Answer
<1>2. [code |-> code, of |-> of] \in Answer  BY DEF Answer
<1>3. answers' = [answers EXCEPT ![c] = Append(@, [code |-> code, of |-> of])]
  BY DEF Answered
<1>4. answers'[c] = <<[code |-> code, of |-> of]>>  BY <1>1, <1>3
<1>5. \A b \in Callers \ {c} : answers'[b] = answers[b]  BY <1>1, <1>3
<1>6. answers' \in [Callers -> Seq(Answer)]  BY <1>1, <1>2, <1>3
<1>7. HearsOwnOnce'
  <2> SUFFICES ASSUME NEW b \in Callers
               PROVE  /\ Len(answers'[b]) <= 1
                      /\ \A i \in DOMAIN answers'[b] : answers'[b][i].of \subseteq {b}
    BY DEF HearsOwnOnce
  <2>1. CASE b = c
    <3> DEFINE a == [code |-> code, of |-> of]
    <3>1. a.of = of  OBVIOUS
    <3> HIDE DEF a
    <3>2. answers'[b] = <<a>>  BY <1>4, <2>1 DEF a
    <3>3. Len(answers'[b]) = 1 /\ DOMAIN answers'[b] = {1} /\ answers'[b][1] = a  BY <3>2
    <3>4. QED BY <2>1, <3>1, <3>3
  <2>2. CASE b # c  BY <1>5, <2>2 DEF QueryInv, HearsOwnOnce
  <2>3. QED BY <2>1, <2>2
<1>8. QED BY <1>5, <1>6, <1>7

(* A session that ends with an answer to its caller.                       *)
LEMMA EndsOnce ==
  ASSUME QueryInv, NEW s \in sessions,
         NEW code \in {"decode_error", "network_error", "endorser", "timeout"},
         NEW of \in SUBSET {s.caller}, Answered(s.caller, code, of),
         sessions' = sessions \ {s}, wire' \subseteq wire, UNCHANGED <<asked, nSessionID>>
  PROVE  QueryInv'
<1> USE DEF QueryInv
<1>1. s \in Open /\ s.caller \in asked /\ s.caller \in Callers /\ answers[s.caller] = <<>>
  BY DEF Open, IdsTell, QueryTypes, WaitingHeardNothing
<1>2. /\ answers' \in [Callers -> Seq(Answer)]
      /\ \A b \in Callers \ {s.caller} : answers'[b] = answers[b]
      /\ HearsOwnOnce'
  BY <1>1, AnsweredOnce
<1>3. Open' \subseteq Open  BY DEF Open
<1>4. QueryTypes'  BY <1>2, <1>3 DEF QueryTypes, Answer
<1>5. IdsTell'  BY <1>3 DEF IdsTell
<1>6. WaitingHeardNothing'
  <2>1. ASSUME NEW u \in sessions' PROVE answers'[u.caller] = <<>>
    <3>1. u \in sessions /\ u # s /\ u \in Open  BY <2>1 DEF Open
    <3>2. u.caller # s.caller  BY <1>1, <3>1 DEF IdsTell
    <3>3. u.caller \in Callers  BY <3>1 DEF QueryTypes
    <3>4. QED BY <1>2, <3>1, <3>2, <3>3 DEF WaitingHeardNothing
  <2>2. ASSUME NEW c \in Callers \ asked PROVE answers'[c] = <<>>
    BY <1>1, <1>2, <2>2 DEF WaitingHeardNothing
  <2>3. QED BY <2>1, <2>2 DEF WaitingHeardNothing
<1>7. QED BY <1>2, <1>4, <1>5, <1>6

(* A query that is answered at once, without a session.                    *)
LEMMA RefusedOnce ==
  ASSUME QueryInv, NEW c \in Callers \ asked,
         NEW code \in {"decode_error", "network_error"},
         Answered(c, code, {}), asked' = asked \cup {c}, UNCHANGED <<nSessionID, sessions, wire>>
  PROVE  QueryInv'
<1> USE DEF QueryInv
<1>1. answers[c] = <<>>  BY DEF WaitingHeardNothing
<1>2. /\ answers' \in [Callers -> Seq(Answer)]
      /\ \A b \in Callers \ {c} : answers'[b] = answers[b]
      /\ HearsOwnOnce'
  BY <1>1, AnsweredOnce
<1>3. Open' = Open /\ \A s \in Open : s.caller # c  BY DEF Open, IdsTell
<1>4. QueryTypes'  BY <1>2, <1>3 DEF QueryTypes, Answer
<1>5. IdsTell'  BY <1>3 DEF IdsTell
<1>6. WaitingHeardNothing'
  BY <1>2, <1>3 DEF WaitingHeardNothing, QueryTypes, Open
<1>7. QED BY <1>2, <1>4, <1>5, <1>6

(* A query that is sent: its id and its caller are new.                    *)
LEMMA SentKeeps ==
  ASSUME QueryInv, NEW c \in Callers, NEW kind \in Kinds, OnQuery(c, kind)
  PROVE  QueryInv'
<1> USE DEF QueryInv
<1> DEFINE new == [kind |-> kind, id |-> nSessionID, caller |-> c, handler |-> Last(picks')]
<1>1. /\ sessions' = sessions \cup {new} /\ wire' = wire \cup {new}
      /\ c \notin asked /\ asked' = asked \cup {c} /\ nSessionID' = nSessionID + 1
      /\ answers' = answers
  BY DEF OnQuery
<1>2. new.id = nSessionID /\ new.caller = c  OBVIOUS
<1> HIDE DEF new
<1>3. Open' = Open \cup {new}  BY <1>1 DEF Open
<1>4. \A s \in Open : s.id # nSessionID /\ s.caller # c  BY <1>1 DEF IdsTell, QueryTypes
<1>5. QueryTypes'
  <2>1. \A s \in Open' : s.id \in Nat /\ s.caller \in Callers
    BY <1>2, <1>3 DEF QueryTypes
  <2>2. asked' \subseteq Callers /\ nSessionID' \in Nat  BY <1>1 DEF QueryTypes
  <2>3. QED BY <1>1, <2>1, <2>2 DEF QueryTypes
<1>6. IdsTell'  BY <1>1, <1>2, <1>3, <1>4 DEF IdsTell, QueryTypes
<1>7. WaitingHeardNothing'  BY <1>1, <1>2 DEF WaitingHeardNothing
<1>8. HearsOwnOnce'  BY <1>1 DEF HearsOwnOnce
<1>9. QED BY <1>5, <1>6, <1>7, <1>8

(* An answer finds the session of its own query, or none.                  *)
LEMMA AnswerKeeps ==
  ASSUME QueryInv, NEW m \in wire, OnHtsMsg(m)
  PROVE  QueryInv'
<1> USE DEF QueryInv
<1> DEFINE found == {s \in sessions : s.kind = m.kind /\ s.id = m.id}
<1>1. wire' = wire \ {m} /\ UNCHANGED <<asked, nSessionID>>  BY DEF OnHtsMsg
<1>2. CASE found = {}
  <2>1. UNCHANGED <<sessions, answers>>  BY <1>2 DEF OnHtsMsg
  <2>2. Open' \subseteq Open  BY <1>1, <2>1 DEF Open
  <2>3. QED BY <1>1, <2>1, <2>2 DEF QueryTypes, IdsTell, WaitingHeardNothing, HearsOwnOnce
<1>3. CASE found # {}
  <2>1. PICK s \in found : sessions' = sessions \ {s} /\ Answered(s.caller, "endorser", {m.caller})
    BY <1>3 DEF OnHtsMsg
  <2>2. s = m  BY <2>1 DEF IdsTell, Open
  <2>3. {m.caller} \in SUBSET {s.caller}  BY <2>2
  <2>4. QED BY <1>1, <2>1, <2>3, EndsOnce
<1>4. QED BY <1>2, <1>3

-----------------------------------------------------------------------------
(* The sessions of a lost connection: at most one for each caller.         *)
LEMMA AtMostOne ==
  ASSUME NEW x, NEW S \in SUBSET {x}
  PROVE  SetToSeq(S) = (IF S = {} THEN <<>> ELSE <<x>>)
<1>1. CASE S = {}
  <2>1. Cardinality(S) = 0  BY <1>1, FS_EmptySet
  <2>2. \A f \in [1 .. 0 -> S] : f = <<>>  OBVIOUS
  <2>3. QED BY <1>1, <2>1, <2>2 DEF SetToSeq, IsInjective
<1>2. CASE S = {x}
  <2>1. Cardinality(S) = 1  BY <1>2, FS_Singleton
  <2>2. <<x>> \in [1 .. 1 -> S] /\ IsInjective(<<x>>)  BY <1>2 DEF IsInjective
  <2>3. \A f \in [1 .. 1 -> S] : f = <<x>>  BY <1>2
  <2>4. QED BY <1>2, <2>1, <2>2, <2>3 DEF SetToSeq
<1>3. QED BY <1>1, <1>2

(* Who had a query on the connection hears of the loss, nobody else.       *)
OnIt(h) == {s.caller : s \in {s \in sessions : s.handler = h}}

LEMMA LossTells ==
  ASSUME QueryInv, NEW h \in Handlers, OnNetError(h), NEW c \in Callers
  PROVE  /\ c \in OnIt(h) => answers[c] = <<>> /\ c \in asked
                          /\ answers'[c] = <<[code |-> "network_error", of |-> {}]>>
         /\ c \notin OnIt(h) => answers'[c] = answers[c]
<1> USE DEF QueryInv
<1> DEFINE hit == {s \in sessions : s.handler = h}
           lost == [code |-> "network_error", of |-> {}]
           notices == {lost : s \in {s \in hit : s.caller = c}}
<1>1. answers'[c] = answers[c] \o SetToSeq(notices)  BY DEF OnNetError
<1>2. CASE c \notin OnIt(h)
  <2>1. notices = {}  BY <1>2 DEF OnIt
  <2>2. SetToSeq(notices) = <<>>  BY <2>1, AtMostOne
  <2>3. answers[c] \in Seq(Answer)  BY DEF QueryTypes, Answer
  <2>4. answers[c] \o <<>> = answers[c]  BY <2>3
  <2>5. QED BY <1>1, <1>2, <2>2, <2>4
<1>3. CASE c \in OnIt(h)
  <2>1. answers[c] = <<>> /\ c \in asked
    BY <1>3 DEF OnIt, WaitingHeardNothing, IdsTell, Open
  <2>2. notices = {lost}  BY <1>3 DEF OnIt
  <2>3. SetToSeq(notices) = <<lost>>  BY <2>2, AtMostOne
  <2>4. QED BY <1>1, <1>3, <2>1, <2>3
<1>4. QED BY <1>2, <1>3

LEMMA LossKeeps ==
  ASSUME QueryInv, NEW h \in Handlers, OnNetError(h)
  PROVE  QueryInv'
<1> USE DEF QueryInv
<1> DEFINE hit == {s \in sessions : s.handler = h}
           lost == [code |-> "network_error", of |-> {}]
<1>1. /\ sessions' = sessions \ hit /\ wire' \subseteq wire /\ UNCHANGED <<asked, nSessionID>>
      /\ DOMAIN answers' = Callers /\ answers' = [c \in Callers |-> answers'[c]]
  BY DEF OnNetError
<1>2. answers \in [Callers -> Seq(Answer)] /\ lost \in Answer /\ lost.of = {}
  BY DEF QueryTypes, Answer
<1>3. ASSUME NEW c \in Callers
      PROVE  /\ answers'[c] \in Seq(Answer)
             /\ Len(answers'[c]) <= 1 /\ \A i \in DOMAIN answers'[c] : answers'[c][i].of \subseteq {c}
  <2>1. CASE c \in OnIt(h)
    <3>1. answers'[c] = <<lost>>  BY <2>1, LossTells
    <3> HIDE DEF lost
    <3>2. QED BY <1>2, <3>1
  <2>2. CASE c \notin OnIt(h)  BY <1>2, <2>2, LossTells DEF HearsOwnOnce
  <2>3. QED BY <2>1, <2>2
<1>4. Open' \subseteq Open  BY <1>1 DEF Open
<1>5. QueryTypes'
  <2>1. answers' \in [Callers -> Seq(Answer)]  BY <1>1, <1>3
  <2>2. QED BY <1>1, <1>4, <2>1 DEF QueryTypes, Answer
<1>6. IdsTell'  BY <1>1, <1>4 DEF IdsTell
<1>7. WaitingHeardNothing'
  <2>1. ASSUME NEW u \in sessions' PROVE answers'[u.caller] = <<>>
    <3>1. u \in sessions /\ u \in Open /\ u \notin hit  BY <1>1, <2>1 DEF Open
    <3>2. u.caller \notin OnIt(h)  BY <3>1 DEF IdsTell, Open, OnIt
    <3>3. u.caller \in Callers  BY <3>1 DEF QueryTypes
    <3>4. QED BY <3>1, <3>2, <3>3, LossTells DEF WaitingHeardNothing
  <2>2. ASSUME NEW c \in Callers \ asked PROVE answers'[c] = <<>>
    BY <2>2, LossTells DEF WaitingHeardNothing
  <2>3. QED BY <1>1, <2>1, <2>2 DEF WaitingHeardNothing
<1>8. HearsOwnOnce'  BY <1>3 DEF HearsOwnOnce
<1>9. QED BY <1>5, <1>6, <1>7, <1>8

-----------------------------------------------------------------------------
LEMMA InvStep == QueryInv /\ [QueryNext]_<<vars, queryVars>> => QueryInv'
<1> SUFFICES ASSUME QueryInv, [QueryNext]_<<vars, queryVars>> PROVE QueryInv'  OBVIOUS
<1>1. CASE UNCHANGED queryVars
  BY <1>1 DEF queryVars, QueryInv, QueryTypes, IdsTell, WaitingHeardNothing, HearsOwnOnce, Open
<1>2. ASSUME NEW h \in Handlers, OnNetError(h) PROVE QueryInv'  BY <1>2, LossKeeps
<1>3. ASSUME NEW c \in Callers, OnUndecodable(c) \/ OnQueryNotSent(c) PROVE QueryInv'
  BY <1>3, RefusedOnce DEF OnUndecodable, OnQueryNotSent
<1>4. ASSUME NEW c \in Callers, NEW kind \in Kinds, OnQuery(c, kind) PROVE QueryInv'
  BY <1>4, SentKeeps
<1>5. ASSUME NEW m \in wire, OnHtsMsg(m) PROVE QueryInv'  BY <1>5, AnswerKeeps
<1>6. ASSUME NEW s \in sessions, OnTimeOut(s) PROVE QueryInv'
  <2>1. /\ sessions' = sessions \ {s} /\ Answered(s.caller, "timeout", {})
        /\ UNCHANGED <<asked, nSessionID, wire>>
    BY <1>6 DEF OnTimeOut
  <2>2. QED BY <2>1, EndsOnce
<1>7. QED BY <1>1, <1>2, <1>3, <1>4, <1>5, <1>6 DEF QueryNext, queryVars

(* A caller of a query hears at most once, and an endorser's answer only   *)
(* to its own query, whatever is sent, lost, late or timed out             *)
(* (vbh_client_service.cpp:664-698, 909-1034, 1177-1192).                  *)
THEOREM QueryHeardOnce == QuerySpec => []HearsOwnOnce
<1>1. QueryInv => HearsOwnOnce  BY DEF QueryInv
<1>2. QED BY <1>1, InvInit, InvStep, PTL DEF QuerySpec

-----------------------------------------------------------------------------
(* The promise of UserCall.                                                *)

(* What the callers heard, as UserCall sees it.                            *)
Out == [c \in Callers |-> Heard(c)]
Promise == Call!Next \/ UNCHANGED Call!vars
Said(code) == IF code = "endorser" THEN "OK" ELSE code

LEMMA HeardNothing ==
  ASSUME NEW c \in Callers, answers[c] = <<>>
  PROVE  Heard(c) = <<>>
BY DEF Heard

LEMMA HeardOne ==
  ASSUME NEW c \in Callers, NEW code, NEW of,
         answers'[c] = <<[code |-> code, of |-> of]>>
  PROVE  Heard(c)' = <<Said(code)>>
<1> DEFINE a == [code |-> code, of |-> of]
<1>1. a.code = code  OBVIOUS
<1> HIDE DEF a
<1>2. answers'[c] = <<a>>  BY DEF a
<1>3. DOMAIN answers'[c] = {1} /\ answers'[c][1].code = code  BY <1>1, <1>2
<1>4. Heard(c)' = [i \in {1} |-> Said(code)]  BY <1>3 DEF Heard, Said
<1>5. QED BY <1>4

LEMMA AnsweredAlone ==
  ASSUME QueryInv, NEW c \in Callers, answers[c] = <<>>, NEW code, NEW of, Answered(c, code, of)
  PROVE  /\ answers'[c] = <<[code |-> code, of |-> of]>>
         /\ \A b \in Callers \ {c} : answers'[b] = answers[b]
<1> DEFINE a == [code |-> code, of |-> of]
<1>1. DOMAIN answers = Callers  BY DEF QueryInv, QueryTypes
<1>2. answers' = [answers EXCEPT ![c] = Append(@, a)]  BY DEF Answered
<1> HIDE DEF a
<1>3. answers'[c] = Append(<<>>, a)  BY <1>1, <1>2
<1>4. Append(<<>>, a) = <<a>>  OBVIOUS
<1>5. \A b \in Callers \ {c} : answers'[b] = answers[b]  BY <1>1, <1>2
<1>6. QED BY <1>3, <1>4, <1>5 DEF a

(* Callers that have heard nothing are answered, with the same code.       *)
LEMMA AnswerMaps ==
  ASSUME NEW R \in SUBSET Callers, R # {}, UNCHANGED asked,
         NEW code \in {"endorser", "network_error", "timeout"},
         \A c \in R : c \in asked /\ answers[c] = <<>> /\ Heard(c)' = <<Said(code)>>,
         \A c \in Callers \ R : answers'[c] = answers[c]
  PROVE  Promise
<1>1. \A c \in Callers \ R : Heard(c)' = Heard(c)  BY DEF Heard
<1>2. Out' = [c \in Callers |-> IF c \in R THEN <<Said(code)>> ELSE Out[c]]
  BY <1>1 DEF Out
<1>3. \A c \in R : Out[c] = <<>>  BY HeardNothing DEF Out
<1>4. R \subseteq Call!Unanswered  BY <1>3 DEF Call!Unanswered, Out
<1>5. Said(code) \in {"OK", "decode_error", "network_error", "timeout"}  BY DEF Said
<1>6. Call!AnswerAll(R)  BY <1>2, <1>4, <1>5 DEF Call!AnswerAll, Out
<1>7. PICK c \in R : TRUE  OBVIOUS
<1>8. Call!Answer(c)  BY <1>4, <1>6, <1>7 DEF Call!Answer
<1>9. QED BY <1>7, <1>8 DEF Promise, Call!Next

LEMMA OneMaps ==
  ASSUME QueryInv, NEW s \in sessions, NEW code \in {"endorser", "timeout"},
         NEW of \in SUBSET {s.caller}, Answered(s.caller, code, of), UNCHANGED asked
  PROVE  Promise
<1> DEFINE c == s.caller
<1>1. s \in Open /\ c \in asked /\ c \in Callers /\ answers[c] = <<>>
  BY DEF QueryInv, Open, IdsTell, QueryTypes, WaitingHeardNothing
<1> HIDE DEF c
<1>2. Answered(c, code, of)  BY DEF c
<1>3. /\ answers'[c] = <<[code |-> code, of |-> of]>>
      /\ \A b \in Callers \ {c} : answers'[b] = answers[b]
  BY <1>1, <1>2, AnsweredAlone
<1>4. Heard(c)' = <<Said(code)>>  BY <1>1, <1>3, HeardOne
<1>5. {c} \in SUBSET Callers /\ {c} # {}  BY <1>1
<1>6. QED BY <1>1, <1>3, <1>4, <1>5, AnswerMaps

(* A query that is taken, or turned down at once.                          *)
LEMMA AskMaps ==
  ASSUME QueryInv, NEW c \in Callers \ asked, asked' = asked \cup {c},
         \/ UNCHANGED answers
         \/ \E code \in {"decode_error", "network_error"} : Answered(c, code, {})
  PROVE  Promise
<1>1. CASE UNCHANGED answers
  <2>1. Out' = Out  BY <1>1 DEF Out, Heard
  <2>2. Call!Ask(c)  BY <2>1 DEF Call!Ask, Out
  <2>3. QED BY <2>2 DEF Promise, Call!Next
<1>2. ASSUME NEW code \in {"decode_error", "network_error"}, Answered(c, code, {})
      PROVE  Promise
  <2>1. answers[c] = <<>>  BY DEF QueryInv, WaitingHeardNothing
  <2>2. /\ answers'[c] = <<[code |-> code, of |-> {}]>>
        /\ \A b \in Callers \ {c} : answers'[b] = answers[b]
    BY <1>2, <2>1, AnsweredAlone
  <2>3. Heard(c)' = <<code>>  BY <2>2, HeardOne DEF Said
  <2>4. \A b \in Callers \ {c} : Heard(b)' = Heard(b)  BY <2>2 DEF Heard
  <2>5. Out' = [Out EXCEPT ![c] = <<code>>]  BY <2>3, <2>4 DEF Out
  <2>6. code \in {"OK", "decode_error", "network_error", "timeout"} \ {"OK"}  OBVIOUS
  <2>7. Call!Ask(c)  BY <2>5, <2>6 DEF Call!Ask, Out
  <2>8. QED BY <2>7 DEF Promise, Call!Next
<1>3. QED BY <1>1, <1>2

LEMMA PromiseStep ==
  ASSUME QueryInv, [QueryNext]_<<vars, queryVars>>
  PROVE  Promise
<1>1. CASE UNCHANGED <<asked, answers>>
  <2>1. Out' = Out  BY <1>1 DEF Out, Heard
  <2>2. QED BY <1>1, <2>1 DEF Promise, Call!vars, Out
<1>2. ASSUME NEW h \in Handlers, OnNetError(h) PROVE Promise
  <2>1. OnIt(h) \in SUBSET Callers  BY DEF QueryInv, QueryTypes, Open, OnIt
  <2>2. UNCHANGED asked  BY <1>2 DEF OnNetError
  <2>3. CASE OnIt(h) = {}
    <3>1. \A c \in Callers : answers'[c] = answers[c]  BY <1>2, <2>3, LossTells
    <3>2. answers' = answers
      BY <1>2, <3>1 DEF OnNetError, QueryInv, QueryTypes
    <3>3. QED BY <1>1, <2>2, <3>2
  <2>4. CASE OnIt(h) # {}
    <3>1. \A c \in OnIt(h) : c \in asked /\ answers[c] = <<>>
                            /\ Heard(c)' = <<Said("network_error")>>
      <4> SUFFICES ASSUME NEW c \in OnIt(h)
                   PROVE  c \in asked /\ answers[c] = <<>> /\ Heard(c)' = <<Said("network_error")>>
        OBVIOUS
      <4>1. c \in Callers  BY <2>1
      <4>2. /\ c \in asked /\ answers[c] = <<>>
            /\ answers'[c] = <<[code |-> "network_error", of |-> {}]>>
        BY <1>2, <4>1, LossTells
      <4>3. QED BY <4>1, <4>2, HeardOne
    <3>2. \A c \in Callers \ OnIt(h) : answers'[c] = answers[c]  BY <1>2, LossTells
    <3>3. QED BY <2>1, <2>2, <2>4, <3>1, <3>2, AnswerMaps
  <2>5. QED BY <2>3, <2>4
<1>3. ASSUME NEW c \in Callers, OnUndecodable(c) \/ OnQueryNotSent(c) PROVE Promise
  BY <1>3, AskMaps DEF OnUndecodable, OnQueryNotSent
<1>4. ASSUME NEW c \in Callers, NEW kind \in Kinds, OnQuery(c, kind) PROVE Promise
  BY <1>4, AskMaps DEF OnQuery
<1>5. ASSUME NEW m \in wire, OnHtsMsg(m) PROVE Promise
  <2> DEFINE found == {s \in sessions : s.kind = m.kind /\ s.id = m.id}
  <2>1. UNCHANGED asked  BY <1>5 DEF OnHtsMsg
  <2>2. CASE found = {}  BY <1>1, <1>5, <2>1, <2>2 DEF OnHtsMsg
  <2>3. CASE found # {}
    <3>1. PICK s \in found : Answered(s.caller, "endorser", {m.caller})
      BY <1>5, <2>3 DEF OnHtsMsg
    <3>2. s = m  BY <3>1 DEF QueryInv, IdsTell, Open
    <3>3. {m.caller} \in SUBSET {s.caller}  BY <3>2
    <3>4. QED BY <2>1, <3>1, <3>3, OneMaps
  <2>4. QED BY <2>2, <2>3
<1>6. ASSUME NEW s \in sessions, OnTimeOut(s) PROVE Promise
  <2>1. Answered(s.caller, "timeout", {}) /\ UNCHANGED asked  BY <1>6 DEF OnTimeOut
  <2>2. QED BY <2>1, OneMaps
<1>7. QED BY <1>1, <1>2, <1>3, <1>4, <1>5, <1>6 DEF QueryNext, queryVars

(* The answers that callers of queries get are those that UserCall         *)
(* promises, whatever is sent, lost, late or timed out: one answer each,   *)
(* and a lost connection ends all its queries at once                      *)
(* (vbh_client_service.cpp:293-307, 325-338, 664-698, 1177-1192).          *)
THEOREM QueryPromiseKept == QuerySpec => Call!Spec
<1>1. QueryInit => Call!Init
  <2> SUFFICES ASSUME QueryInit PROVE Call!Init  OBVIOUS
  <2>1. Out = [c \in Callers |-> <<>>]  BY HeardNothing DEF QueryInit, Out
  <2>2. QED BY <2>1 DEF QueryInit, Call!Init, Out
<1>2. QueryInv /\ [QueryNext]_<<vars, queryVars>> => [Call!Next]_Call!vars
  BY PromiseStep DEF Promise
<1>3. QED BY InvInit, InvStep, <1>1, <1>2, PTL DEF QuerySpec, Call!Spec

-----------------------------------------------------------------------------
(* The pool and the queries together.                                      *)
ServiceInv == QueryInv /\ RoundInv /\ QueryTypeOK /\ WaitsOnLive

LEMMA ServiceInit == QueryInit => ServiceInv
<1> SUFFICES ASSUME QueryInit PROVE ServiceInv  OBVIOUS
<1>1. /\ live = {} /\ peers = <<>> /\ nIndex = 0 /\ picks = <<>> /\ asked = {}
      /\ nSessionID = 0 /\ sessions = {} /\ wire = {} /\ answers = [c \in Callers |-> <<>>]
  BY DEF QueryInit, Init
<1>2. DOMAIN peers = {} /\ DOMAIN picks = {}  BY <1>1
<1>3. TypeOK  BY <1>1 DEF TypeOK
<1>4. UNION {ToSet(peers[i].handlers) : i \in DOMAIN peers} = {}  BY <1>2
<1>5. RoundInv
  BY <1>1, <1>2, <1>3, <1>4 DEF RoundInv, PoolInv, MirrorsConnections, PeersRound, HandlersRound,
     PicksGoRound, PicksDistinctPeers, HandlersTakeTurns
<1>6. QueryInv  BY InvInit
<1>7. QueryTypeOK  BY <1>1, <1>3, <1>6 DEF QueryTypeOK, QueryInv, QueryTypes
<1>8. WaitsOnLive  BY <1>1 DEF WaitsOnLive
<1>9. QED BY <1>5, <1>6, <1>7, <1>8 DEF ServiceInv

(* Every step of the service is a step of its pool, or leaves it alone.    *)
LEMMA UsesPool == [QueryNext]_<<vars, queryVars>> => [Next]_vars
<1> SUFFICES ASSUME [QueryNext]_<<vars, queryVars>> PROVE [Next]_vars  OBVIOUS
<1>1. ASSUME NEW c \in Callers, OnUndecodable(c) \/ OnQueryNotSent(c) PROVE [Next]_vars
  BY <1>1 DEF OnUndecodable, OnQueryNotSent, Next
<1>2. ASSUME NEW c \in Callers, NEW kind \in Kinds, OnQuery(c, kind) PROVE [Next]_vars
  BY <1>2 DEF OnQuery, Next
<1>3. ASSUME NEW m \in wire, OnHtsMsg(m) PROVE [Next]_vars  BY <1>3 DEF OnHtsMsg
<1>4. ASSUME NEW s \in sessions, OnTimeOut(s) PROVE [Next]_vars  BY <1>4 DEF OnTimeOut
<1>5. QED BY <1>1, <1>2, <1>3, <1>4 DEF QueryNext, Next

(* A query goes out on an established connection.                          *)
LEMMA SentOnLive ==
  ASSUME RoundInv, GetMcpHandler
  PROVE  Last(picks') \in live /\ Last(picks') \in Handlers /\ live' = live
<1> DEFINE i == Wrapped(nIndex, Len(peers)) + 1
           j == Wrapped(peers[i].nIndex, Len(peers[i].handlers)) + 1
           h == peers[i].handlers[j]
<1>1. peers # <<>> /\ Picked(i, j)  BY DEF GetMcpHandler, Picked
<1>2. picks' = Append(picks, h) /\ live' = live  BY DEF GetMcpHandler
<1> HIDE DEF i, j
<1>3. i \in DOMAIN peers /\ j \in DOMAIN peers[i].handlers /\ h \in Handlers
  BY <1>1, PickedFacts
<1>4. h \in live  BY <1>3, MirrorsMeans DEF RoundInv, Holds, ToSet
<1>5. picks \in Seq(Handlers)  BY DEF RoundInv, PoolInv, TypeOK
<1> HIDE DEF h
<1>6. Last(picks') = h  BY <1>2, <1>3, <1>5 DEF Last
<1>7. QED BY <1>2, <1>3, <1>4, <1>6

LEMMA SessionTypes ==
  ASSUME ServiceInv, QueryInv', PoolInv', [QueryNext]_<<vars, queryVars>>
  PROVE  QueryTypeOK'
<1>1. sessions \subseteq Session /\ wire \subseteq Session  BY DEF ServiceInv, QueryTypeOK
<1>2. ASSUME sessions' \subseteq sessions, wire' \subseteq wire PROVE QueryTypeOK'
  BY <1>1, <1>2 DEF QueryTypeOK, QueryInv, QueryTypes, PoolInv
<1>3. CASE UNCHANGED queryVars  BY <1>2, <1>3 DEF queryVars
<1>4. ASSUME NEW h \in Handlers, OnNetError(h) PROVE QueryTypeOK'
  BY <1>2, <1>4 DEF OnNetError
<1>5. ASSUME NEW c \in Callers, OnUndecodable(c) \/ OnQueryNotSent(c) PROVE QueryTypeOK'
  BY <1>2, <1>5 DEF OnUndecodable, OnQueryNotSent
<1>6. ASSUME NEW c \in Callers, NEW kind \in Kinds, OnQuery(c, kind) PROVE QueryTypeOK'
  <2> DEFINE new == [kind |-> kind, id |-> nSessionID, caller |-> c, handler |-> Last(picks')]
  <2>1. Last(picks') \in Handlers  BY <1>6, SentOnLive DEF OnQuery, ServiceInv
  <2>2. nSessionID \in Nat  BY DEF ServiceInv, QueryTypeOK
  <2>3. new \in Session  BY <2>1, <2>2 DEF Session
  <2>4. sessions' = sessions \cup {new} /\ wire' = wire \cup {new}  BY <1>6 DEF OnQuery
  <2> HIDE DEF new
  <2>5. sessions' \subseteq Session /\ wire' \subseteq Session  BY <1>1, <2>3, <2>4
  <2>6. QED BY <2>5 DEF QueryTypeOK, QueryInv, QueryTypes, PoolInv
<1>7. ASSUME NEW m \in wire, OnHtsMsg(m) PROVE QueryTypeOK'
  <2>1. wire' \subseteq wire /\ sessions' \subseteq sessions  BY <1>7 DEF OnHtsMsg
  <2>2. QED BY <1>2, <2>1
<1>8. ASSUME NEW s \in sessions, OnTimeOut(s) PROVE QueryTypeOK'
  BY <1>2, <1>8 DEF OnTimeOut
<1>9. QED BY <1>3, <1>4, <1>5, <1>6, <1>7, <1>8 DEF QueryNext, queryVars

(* A caller that is answered waits no longer; the others wait as before.   *)
LEMMA OthersWait ==
  ASSUME QueryInv, WaitsOnLive, NEW c \in Callers, NEW code, NEW of, Answered(c, code, of),
         asked' \subseteq asked \cup {c}, live \subseteq live',
         \A s \in sessions : s.caller # c => s \in sessions'
  PROVE  WaitsOnLive'
<1>1. answers \in [Callers -> Seq(Answer)]  BY DEF QueryInv, QueryTypes, Answer
<1>2. answers'[c] = Append(answers[c], [code |-> code, of |-> of])
      /\ \A b \in Callers \ {c} : answers'[b] = answers[b]
  BY <1>1 DEF Answered
<1>3. answers'[c] # <<>>  BY <1>1, <1>2
<1>4. asked \subseteq Callers  BY DEF QueryInv, QueryTypes
<1>5. QED BY <1>2, <1>3, <1>4 DEF WaitsOnLive

LEMMA WaitsKept ==
  ASSUME ServiceInv, [QueryNext]_<<vars, queryVars>>
  PROVE  WaitsOnLive'
<1>1. QueryInv /\ WaitsOnLive /\ RoundInv /\ asked \subseteq Callers
  BY DEF ServiceInv, QueryInv, QueryTypes
<1>2. CASE UNCHANGED queryVars /\ live \subseteq live'
  <2>1. asked' = asked /\ sessions' = sessions /\ answers' = answers  BY <1>2 DEF queryVars
  <2>2. QED BY <1>1, <1>2, <2>1 DEF WaitsOnLive
<1>3. ASSUME NEW h \in Handlers, OnHandlerLost(h) \/ OnPeerLost(h), OnNetError(h) PROVE WaitsOnLive'
  <2> DEFINE hit == {s \in sessions : s.handler = h}
             lost == [code |-> "network_error", of |-> {}]
             notices(c) == {lost : s \in {s \in hit : s.caller = c}}
  <2>1. live' = live \ {h}  BY <1>3 DEF OnHandlerLost, OnPeerLost
  <2>2. /\ sessions' = sessions \ hit /\ asked' = asked
        /\ answers' = [c \in Callers |-> answers[c] \o SetToSeq(notices(c))]
    BY <1>3 DEF OnNetError
  <2> SUFFICES ASSUME NEW c \in asked, answers'[c] = <<>>
               PROVE  \E s \in sessions' : s.caller = c /\ s.handler \in live'
    BY <2>2 DEF WaitsOnLive
  <2>3. c \in Callers /\ answers[c] \in Seq(Answer)
    BY <1>1 DEF QueryInv, QueryTypes, Answer
  <2>4. answers'[c] = answers[c] \o SetToSeq(notices(c))  BY <2>2, <2>3
  <2>5. notices(c) = {}
    <3> SUFFICES ASSUME notices(c) # {} PROVE FALSE  OBVIOUS
    <3>1. notices(c) = {lost}  OBVIOUS
    <3>2. SetToSeq(notices(c)) = <<lost>>  BY <3>1, AtMostOne
    <3> HIDE DEF lost, notices
    <3>3. Len(answers[c] \o <<lost>>) = Len(answers[c]) + 1 /\ Len(answers[c]) \in Nat  BY <2>3
    <3>4. answers[c] \o <<lost>> = <<>>  BY <2>4, <3>2
    <3>5. QED BY <3>3, <3>4
  <2>6. SetToSeq(notices(c)) = <<>>  BY <2>5, AtMostOne
  <2>7. answers[c] = <<>>
    <3>1. answers[c] \o <<>> = answers[c]  BY <2>3
    <3>2. QED BY <2>4, <2>6, <3>1
  <2>8. PICK s \in sessions : s.caller = c /\ s.handler \in live  BY <1>1, <2>7 DEF WaitsOnLive
  <2>9. s \notin hit  BY <2>5, <2>8
  <2>10. QED BY <2>1, <2>2, <2>8, <2>9
<1>4. ASSUME NEW c \in Callers, OnUndecodable(c) \/ OnQueryNotSent(c) PROVE WaitsOnLive'
  <2>1. live' = live  BY <1>4 DEF OnUndecodable, OnQueryNotSent, GetMcpHandler, vars
  <2>2. QED BY <1>1, <1>4, <2>1, OthersWait DEF OnUndecodable, OnQueryNotSent
<1>5. ASSUME NEW c \in Callers, NEW kind \in Kinds, OnQuery(c, kind) PROVE WaitsOnLive'
  <2> DEFINE new == [kind |-> kind, id |-> nSessionID, caller |-> c, handler |-> Last(picks')]
  <2>1. Last(picks') \in live /\ live' = live  BY <1>1, <1>5, SentOnLive DEF OnQuery
  <2>2. sessions' = sessions \cup {new} /\ asked' = asked \cup {c} /\ answers' = answers
    BY <1>5 DEF OnQuery
  <2>3. new.caller = c /\ new.handler = Last(picks')  OBVIOUS
  <2> HIDE DEF new
  <2>4. QED BY <1>1, <2>1, <2>2, <2>3 DEF WaitsOnLive
<1>6. ASSUME NEW m \in wire, OnHtsMsg(m) PROVE WaitsOnLive'
  <2> DEFINE found == {s \in sessions : s.kind = m.kind /\ s.id = m.id}
  <2>1. live' = live /\ asked' = asked  BY <1>6 DEF OnHtsMsg, vars
  <2>2. CASE found = {}
    <3>1. UNCHANGED <<sessions, answers>>  BY <1>6, <2>2 DEF OnHtsMsg
    <3>2. QED BY <1>1, <2>1, <3>1 DEF WaitsOnLive
  <2>3. CASE found # {}
    <3>1. PICK s \in found : sessions' = sessions \ {s} /\ Answered(s.caller, "endorser", {m.caller})
      BY <1>6, <2>3 DEF OnHtsMsg
    <3>2. s.caller \in Callers  BY <1>1 DEF QueryInv, QueryTypes, Open
    <3>3. QED BY <1>1, <2>1, <3>1, <3>2, OthersWait
  <2>4. QED BY <2>2, <2>3
<1>7. ASSUME NEW s \in sessions, OnTimeOut(s) PROVE WaitsOnLive'
  <2>1. /\ sessions' = sessions \ {s} /\ Answered(s.caller, "timeout", {})
        /\ asked' = asked /\ live' = live
    BY <1>7 DEF OnTimeOut, vars
  <2>2. s.caller \in Callers  BY <1>1 DEF QueryInv, QueryTypes, Open
  <2>3. QED BY <1>1, <2>1, <2>2, OthersWait
<1>8. ASSUME NEW h \in Handlers, OnFirstConnected(h) \/ OnNextConnected(h) PROVE live \subseteq live'
  BY <1>8 DEF OnFirstConnected, OnNextConnected
<1>9. GetMcpHandler => live' = live  BY DEF GetMcpHandler
<1>10. QED BY <1>2, <1>3, <1>4, <1>5, <1>6, <1>7, <1>8, <1>9 DEF QueryNext, vars

LEMMA ServiceStep == ServiceInv /\ [QueryNext]_<<vars, queryVars>> => ServiceInv'
<1> SUFFICES ASSUME ServiceInv, [QueryNext]_<<vars, queryVars>> PROVE ServiceInv'  OBVIOUS
<1>1. QueryInv'  BY InvStep DEF ServiceInv
<1>2. RoundInv'  BY UsesPool, PoolStep DEF ServiceInv
<1>3. QueryTypeOK'  BY <1>1, <1>2, SessionTypes DEF RoundInv
<1>4. WaitsOnLive'  BY WaitsKept
<1>5. QED BY <1>1, <1>2, <1>3, <1>4 DEF ServiceInv

LEMMA ServiceInvariant == QuerySpec => []ServiceInv
BY ServiceInit, ServiceStep, PTL DEF QuerySpec

(* The arrays of the pool hold the established connections, each once and  *)
(* under its own peer, in whatever order connections come and are lost     *)
(* while queries use them (vbh_client_service.cpp:1036-1175).              *)
THEOREM PoolMirrorsConnections == QuerySpec => []PoolMirrors
<1>1. ServiceInv => PoolMirrors  BY DEF ServiceInv, RoundInv, PoolInv, PoolMirrors
<1>2. QED BY <1>1, ServiceInvariant, PTL

(* As long as the pool stays the same, picks go round the peers and round  *)
(* the connections of each, from whatever indices they start, those that   *)
(* nobody initialised included (vbh_client_service.cpp:1218-1239).         *)
THEOREM PoolGoesRound == QuerySpec => []PicksGoRound
<1>1. ServiceInv => PicksGoRound  BY DEF ServiceInv, RoundInv
<1>2. QED BY <1>1, ServiceInvariant, PTL

(* A caller that has heard nothing waits on an established connection; one *)
(* that is lost leaves nobody waiting (vbh_client_service.cpp:301-338,     *)
(* 1177-1192).                                                             *)
THEOREM QueryWaitsOnLive == QuerySpec => []WaitsOnLive
<1>1. ServiceInv => WaitsOnLive  BY DEF ServiceInv
<1>2. QED BY <1>1, ServiceInvariant, PTL
=============================================================================
