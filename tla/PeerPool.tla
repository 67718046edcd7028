------------------------------ MODULE PeerPool ------------------------------
(***************************************************************************)
(* The connections of CVbhClientService (m_vbhPeerConnSumInfo): an array   *)
(* of connected peers, each with an array of connections to endorsers of   *)
(* that peer, and a rotating index into each array.  GetMcpHandler deals   *)
(* the next connection of the next peer; a request for an endorsement      *)
(* calls it once for each endorser it needs, in one step of the reactor.   *)
(***************************************************************************)
EXTENDS Integers, Sequences, FiniteSets, SequencesExt

CONSTANTS
  Handlers,   (* the endorser connections of the configuration             *)
  Peers,      (* the peers                                                 *)
  PeerOf,     (* the peer of each connection                               *)
  Garbage,    (* what an index that nobody initialised may hold            *)
  MaxPicks    (* bound: picks remembered since the pool last changed       *)

ASSUME PeerOfAssumption == PeerOf \in [Handlers -> Peers]
ASSUME GarbageAssumption == Garbage \subseteq Nat /\ Garbage # {}
ASSUME MaxPicksAssumption == MaxPicks \in Nat

VARIABLES
  live,   (* connections that are established                              *)
  peers,  (* m_parrPeerConnInfo                                            *)
  nIndex, (* m_vbhPeerConnSumInfo.m_nIndex                                 *)
  picks   (* history: connections dealt since the pool last changed        *)

vars == <<live, peers, nIndex, picks>>

(* CVbhPeerConnectionInfo.  Its m_nIndex has no initial value.             *)
PeerInfo == [id : Peers, handlers : Seq(Handlers), nIndex : Nat]

(* The place of a peer in the array, as a set of at most one index.        *)
PlaceOf(p) == {i \in DOMAIN peers : peers[i].id = p}

(* An index that ran past the end of its array starts over.                *)
Wrapped(n, size) == IF n >= size THEN 0 ELSE n

-----------------------------------------------------------------------------
(* A connection to a peer that has none: the peer joins the array.  The    *)
(* first peer of all leaves the rotation where it is.                      *)
OnFirstConnected(h) ==
  /\ h \notin live /\ PlaceOf(PeerOf[h]) = {}
  /\ \E g \in Garbage :
       peers' = Append(peers, [id |-> PeerOf[h], handlers |-> <<h>>, nIndex |-> g])
  /\ IF peers = <<>> THEN UNCHANGED nIndex
     ELSE nIndex' \in 0 .. Len(peers)
  /\ live' = live \cup {h}
  /\ picks' = <<>>

(* One more connection to a peer: its rotation starts at a random place.   *)
OnNextConnected(h) ==
  /\ h \notin live
  /\ \E i \in PlaceOf(PeerOf[h]) : \E n \in 0 .. Len(peers[i].handlers) :
       peers' = [peers EXCEPT ![i].handlers = Append(@, h),
                              ![i].nIndex = n]
  /\ live' = live \cup {h}
  /\ picks' = <<>>
  /\ UNCHANGED nIndex

(* The array of peers when the i-th loses its j-th connection.             *)
WithoutHandler(i, j) ==
  LET hs == RemoveAt(peers[i].handlers, j) IN
  [peers EXCEPT ![i].handlers = hs, ![i].nIndex = Wrapped(@, Len(hs))]

(* Mutant: a peer keeps its place without a connection.                    *)
OnHandlerLost_PeerStays(h) ==
  /\ h \in live
  /\ \E i \in PlaceOf(PeerOf[h]) : \E j \in DOMAIN peers[i].handlers :
       /\ peers[i].handlers[j] = h
       /\ peers' = WithoutHandler(i, j)
  /\ live' = live \ {h}
  /\ picks' = <<>>
  /\ UNCHANGED nIndex

(* A lost connection leaves its peer's array,                              *)
OnHandlerLost(h) ==
  /\ h \in live
  /\ \E i \in PlaceOf(PeerOf[h]) : \E j \in DOMAIN peers[i].handlers :
       /\ Len(peers[i].handlers) > 1 /\ peers[i].handlers[j] = h
       /\ peers' = WithoutHandler(i, j)
  /\ live' = live \ {h}
  /\ picks' = <<>>
  /\ UNCHANGED nIndex

(* and the peer leaves with its last connection.                           *)
OnPeerLost(h) ==
  /\ h \in live
  /\ \E i \in PlaceOf(PeerOf[h]) :
       LET ps == RemoveAt(peers, i) IN
       /\ Len(peers[i].handlers) = 1
       /\ peers' = ps
       /\ nIndex' = Wrapped(nIndex, Len(ps))
  /\ live' = live \ {h}
  /\ picks' = <<>>

(* Mutant: the index of the array moves, that of the peer stays.           *)
GetMcpHandler_SameHandler ==
  /\ peers # <<>> /\ Len(picks) < MaxPicks
  /\ LET i == Wrapped(nIndex, Len(peers)) + 1
         j == Wrapped(peers[i].nIndex, Len(peers[i].handlers)) + 1
     IN
     /\ nIndex' = i
     /\ picks' = Append(picks, peers[i].handlers[j])
  /\ UNCHANGED <<live, peers>>

(* The next connection of the next peer.                                   *)
GetMcpHandler ==
  /\ peers # <<>> /\ Len(picks) < MaxPicks
  /\ LET i == Wrapped(nIndex, Len(peers)) + 1
         j == Wrapped(peers[i].nIndex, Len(peers[i].handlers)) + 1
     IN
     /\ peers' = [peers EXCEPT ![i].nIndex = j]
     /\ nIndex' = i
     /\ picks' = Append(picks, peers[i].handlers[j])
  /\ UNCHANGED live

Init == live = {} /\ peers = <<>> /\ nIndex = 0 /\ picks = <<>>

Next ==
  \/ \E h \in Handlers : \/ OnFirstConnected(h) \/ OnNextConnected(h)
                         \/ OnHandlerLost(h) \/ OnPeerLost(h)
  \/ GetMcpHandler

Spec == Init /\ [][Next]_vars

-----------------------------------------------------------------------------
(* Properties.                                                             *)

TypeOK ==
  /\ live \subseteq Handlers
  /\ peers \in Seq(PeerInfo)
  /\ nIndex \in Nat
  /\ picks \in Seq(Handlers)

(* The arrays hold the established connections, each once and under its    *)
(* own peer; no peer is listed twice or without a connection, whatever the *)
(* order of connections and losses (lines 1036-1175).                      *)
MirrorsConnections ==
  /\ \A i, k \in DOMAIN peers : peers[i].id = peers[k].id => i = k
  /\ \A i \in DOMAIN peers :
       /\ peers[i].handlers # <<>>
       /\ IsInjective(peers[i].handlers)
       /\ \A j \in DOMAIN peers[i].handlers : PeerOf[peers[i].handlers[j]] = peers[i].id
  /\ live = UNION {ToSet(peers[i].handlers) : i \in DOMAIN peers}

(* As long as the pool does not change, as many picks as there are peers   *)
(* go to as many peers (lines 1218-1239): a request that needs no more     *)
(* endorsers than there are peers asks each of them once, as the agreement *)
(* of endorsements supposes.                                               *)
PicksDistinctPeers ==
  \A i, k \in DOMAIN picks :
    i < k /\ k - i < Len(peers) => PeerOf[picks[i]] # PeerOf[picks[k]]

(* The connections of one peer take turns as well: none is dealt twice     *)
(* before all of them were dealt (lines 1230-1235).                        *)
PicksBetween(i, k) == {j \in i + 1 .. k : PeerOf[picks[j]] = PeerOf[picks[i]]}

HandlersTakeTurns ==
  \A n \in DOMAIN peers, i, k \in DOMAIN picks :
    i < k /\ picks[i] = picks[k] /\ PeerOf[picks[i]] = peers[n].id =>
      Cardinality(PicksBetween(i, k)) >= Len(peers[n].handlers)

(* Both rotations at once: over the peers, and over the connections of     *)
(* each peer, from whatever place they start.                              *)
PicksGoRound == PicksDistinctPeers /\ HandlersTakeTurns
=============================================================================
