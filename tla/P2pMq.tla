------------------------------- MODULE P2pMq -------------------------------
(***************************************************************************)
(* The peer-to-peer message queue: each node runs CMqCallbackService,      *)
(* which tells the nodes it is connected to which topics it wants, keeps   *)
(* what they want, and publishes a topic to one of its subscribers or to   *)
(* all.  Either end of a connection learns of its start, before it reads   *)
(* from it, and of its end in its own time, perhaps after it learned that  *)
(* the next one started.                                                   *)
(*                                                                         *)
(* Assumed of the library: there is at most one connection of two nodes at *)
(* a time, messages go over the newest that the sender knows of, what was  *)
(* not read when a connection ends is lost, and the end of a connection is *)
(* told to those who were told of its start.                               *)
(***************************************************************************)
EXTENDS Integers, Sequences, FiniteSets, SequencesExt

CONSTANTS
  Nodes,      (* the nodes, as addresses                                   *)
  Order,      (* the nodes in the order of CDscMsgAddr                     *)
  P2pTopics,
  MaxSubs,    (* bound: subscriptions of an application                    *)
  MaxBreaks,  (* bound: connections that break                             *)
  MaxPolls    (* bound: receivers remembered of a topic                    *)

ASSUME OrderAssumption ==
  /\ Order \in Seq(Nodes) /\ Nodes = {Order[i] : i \in DOMAIN Order}
  /\ \A i, j \in DOMAIN Order : Order[i] = Order[j] => i = j
ASSUME BoundsAssumption == {MaxSubs, MaxBreaks, MaxPolls} \subseteq Nat

VARIABLES
  wanted,    (* m_lstMsgID of a node                                       *)
  remotes,   (* m_setRemoteAddr of a node                                  *)
  registry,  (* m_mapTopicRegistry: the subscribers of a topic             *)
  cursor,    (* m_it of the subscribers, as the number of those before it  *)
  wire,      (* wire[m][n]: CSubMsgID messages from m to n                 *)
  linked,    (* pairs of connected nodes                                   *)
  met,       (* the nodes of whose present connection a node has learned   *)
  late,      (* late[n][m]: connections of which n knows, and not yet that *)
             (* they ended                                                 *)
  overtaken, (* history: nodes that n met again before it learned of the   *)
             (* end of an earlier connection                               *)
  polls,     (* history: receivers of polls since the subscribers changed  *)
  subs, breaks  (* how often an application subscribed, connections broke  *)

links == <<linked, met, late, overtaken, breaks>>
p2pVars == <<wanted, remotes, registry, cursor, wire, links, polls, subs>>

(* The place of a node in the order of the addresses.                      *)
RankOf(m) == CHOOSE i \in DOMAIN Order : Order[i] = m

(* Those of a set of addresses that an iterator over it reaches before m.  *)
Before(set, m) == {k \in set : RankOf(k) < RankOf(m)}

(* The address that an iterator is at after so many others.                *)
AddrAt(set, at) == CHOOSE m \in set : Cardinality(Before(set, m)) = at

(* CSubMsgAddr::insert and erase: the cursor returns to the first.         *)
Register(n, reg) ==
  /\ registry' = [registry EXCEPT ![n] = reg]
  /\ cursor' = [cursor EXCEPT ![n] = [t \in P2pTopics |->
                  IF reg[t] = registry[n][t] THEN @[t] ELSE 0]]
  /\ polls' = [polls EXCEPT ![n] = [t \in P2pTopics |->
                  IF reg[t] = registry[n][t] THEN @[t] ELSE <<>>]]

-----------------------------------------------------------------------------
(* SubP2pMqMsgID: the application names the topics it wants.               *)
OnSubMsgID2CallbackService(n, ts) ==
  /\ subs < MaxSubs /\ subs' = subs + 1
  /\ wanted' = [wanted EXCEPT ![n] = ts]
  /\ wire' = [wire EXCEPT ![n] = [m \in Nodes |->
                IF m \in remotes[n] \cap met[n] THEN Append(@[m], ts) ELSE @[m]]]
  /\ UNCHANGED <<remotes, registry, cursor, links, polls>>

(* The node learns of the connection.                                      *)
Meets(n, m) ==
  /\ {m, n} \in linked /\ m \notin met[n]
  /\ met' = [met EXCEPT ![n] = @ \cup {m}]
  /\ overtaken' = [overtaken EXCEPT ![n] = IF late[n][m] > 0 THEN @ \cup {m} ELSE @ \ {m}]
  /\ UNCHANGED <<linked, late, breaks>>

(* Mutant: the topics are sent when they are named, not on connecting.     *)
OnConnected_SendsNothing(n, m) ==
  /\ Meets(n, m)
  /\ remotes' = [remotes EXCEPT ![n] = @ \cup {m}]
  /\ UNCHANGED <<wanted, registry, cursor, polls, subs, wire>>

(* A node that was not known is, and is sent what this one wants; one that *)
(* still is known is sent nothing.                                         *)
OnConnected(n, m) ==
  /\ Meets(n, m)
  /\ remotes' = [remotes EXCEPT ![n] = @ \cup {m}]
  /\ wire' = IF m \in remotes[n] THEN wire ELSE [wire EXCEPT ![n][m] = Append(@, wanted[n])]
  /\ UNCHANGED <<wanted, registry, cursor, polls, subs>>

(* The node learns of the end of a connection; the other end, if known, is *)
(* forgotten, and its topics leave the registry, be it connected anew or   *)
(* not.                                                                    *)
OnDisConnected(n, m) ==
  /\ late[n][m] > 0
  /\ late' = [late EXCEPT ![n][m] = @ - 1]
  /\ remotes' = [remotes EXCEPT ![n] = @ \ {m}]
  /\ IF m \in remotes[n] THEN Register(n, [t \in P2pTopics |-> registry[n][t] \ {m}])
                          ELSE UNCHANGED <<registry, cursor, polls>>
  /\ UNCHANGED <<wanted, wire, linked, met, overtaken, subs, breaks>>

(* The other end's topics are added; none is taken away.                   *)
OnSubMsgID(n, m) ==
  /\ wire[m][n] # <<>> /\ m \in met[n]
  /\ wire' = [wire EXCEPT ![m][n] = Tail(@)]
  /\ Register(n, [t \in P2pTopics |-> IF t \in Head(wire[m][n]) THEN registry[n][t] \cup {m}
                                   ELSE registry[n][t]])
  /\ UNCHANGED <<wanted, remotes, links, subs>>

(* Mutant: the cursor runs past the last subscriber.                       *)
GetAddr_Sticks(n, t) ==
  LET size == Cardinality(registry[n][t])
      at   == IF cursor[n][t] + 1 >= size THEN size - 1 ELSE cursor[n][t]
  IN [addr |-> AddrAt(registry[n][t], at), next |-> at + 1]

(* GetAddr: the subscriber at the cursor, which moves on; at the end it    *)
(* starts over.                                                            *)
GetAddr(n, t) ==
  LET at == IF cursor[n][t] = Cardinality(registry[n][t]) THEN 0 ELSE cursor[n][t]
  IN [addr |-> AddrAt(registry[n][t], at), next |-> at + 1]

Poll(n, t) ==
  LET got == GetAddr(n, t) IN
  /\ Len(polls[n][t]) < MaxPolls
  /\ cursor' = [cursor EXCEPT ![n][t] = got.next]
  /\ polls' = [polls EXCEPT ![n][t] = Append(@, got.addr)]

CPubMsg2CallbackService == [nPubMsgType : {"poll", "broadcast"}, nTopicID : P2pTopics]

(* What the service may read of a publication: its type is not encoded,    *)
(* and the member that holds it is never written.                          *)
PubP2pMqMsgImpl(pub) ==
  {msg \in CPubMsg2CallbackService : msg.nTopicID = pub.nTopicID}

(* A topic is published to one subscriber or to all, if there are any.     *)
OnPubMsg2CallbackService(n, msg) ==
  /\ registry[n][msg.nTopicID] # {}
  /\ IF msg.nPubMsgType = "poll" THEN Poll(n, msg.nTopicID) ELSE UNCHANGED <<cursor, polls>>
  /\ UNCHANGED <<wanted, remotes, registry, wire, links, subs>>

-----------------------------------------------------------------------------
(* Nodes listen and connect to each other as configured, and again when a  *)
(* connection broke, whether or not either end has noticed.                *)
Link(n, m) ==
  /\ n # m /\ {m, n} \notin linked
  /\ linked' = linked \cup {{m, n}}
  /\ UNCHANGED <<wanted, remotes, registry, cursor, wire, met, late, overtaken, polls, subs, breaks>>

Unlink(n, m) ==
  /\ n # m /\ {m, n} \in linked /\ breaks < MaxBreaks /\ breaks' = breaks + 1
  /\ linked' = linked \ {{m, n}}
  /\ wire' = [wire EXCEPT ![m][n] = <<>>, ![n][m] = <<>>]
  /\ met' = [met EXCEPT ![n] = @ \ {m}, ![m] = @ \ {n}]
  /\ late' = [late EXCEPT ![n][m] = IF m \in met[n] THEN @ + 1 ELSE @,
                          ![m][n] = IF n \in met[m] THEN @ + 1 ELSE @]
  /\ UNCHANGED <<wanted, remotes, registry, cursor, overtaken, polls, subs>>

P2pInit ==
  /\ wanted = [n \in Nodes |-> {}]
  /\ remotes = [n \in Nodes |-> {}]
  /\ registry = [n \in Nodes |-> [t \in P2pTopics |-> {}]]
  /\ cursor = [n \in Nodes |-> [t \in P2pTopics |-> 0]]
  /\ wire = [n \in Nodes |-> [m \in Nodes |-> <<>>]]
  /\ linked = {}
  /\ met = [n \in Nodes |-> {}]
  /\ late = [n \in Nodes |-> [m \in Nodes |-> 0]]
  /\ overtaken = [n \in Nodes |-> {}]
  /\ polls = [n \in Nodes |-> [t \in P2pTopics |-> <<>>]]
  /\ subs = 0 /\ breaks = 0

P2pNext ==
  \E n \in Nodes :
    \/ \E ts \in SUBSET P2pTopics : OnSubMsgID2CallbackService(n, ts)
    \/ \E pub \in CPubMsg2CallbackService : \E msg \in PubP2pMqMsgImpl(pub) :
         OnPubMsg2CallbackService(n, msg)
    \/ \E m \in Nodes : \/ OnConnected(n, m) \/ OnDisConnected(n, m)
                        \/ OnSubMsgID(n, m)
                        \/ Link(n, m) \/ Unlink(n, m)

P2pSpec == P2pInit /\ [][P2pNext]_p2pVars

-----------------------------------------------------------------------------
(* Types; the cursor is at a subscriber or at the end of the set.          *)
P2pTypeOK ==
  /\ wanted \in [Nodes -> SUBSET P2pTopics]
  /\ remotes \in [Nodes -> SUBSET Nodes]
  /\ registry \in [Nodes -> [P2pTopics -> SUBSET Nodes]]
  /\ cursor \in [Nodes -> [P2pTopics -> Nat]]
  /\ wire \in [Nodes -> [Nodes -> Seq(SUBSET P2pTopics)]]
  /\ linked \subseteq SUBSET Nodes
  /\ met \in [Nodes -> SUBSET Nodes]
  /\ late \in [Nodes -> [Nodes -> Nat]]
  /\ overtaken \in [Nodes -> SUBSET Nodes]
  /\ \A n \in Nodes, t \in P2pTopics : cursor[n][t] <= Cardinality(registry[n][t])

(* The nodes that n is connected to and did not meet again too early.      *)
Regular(n) == met[n] \ overtaken[n]

(* Whenever both ends know of their connection, knew of the end of the one *)
(* before when they met, and nothing is under way, each is registered at   *)
(* the other for every topic its application wants.                        *)
WantedIsRegistered ==
  \A n, m \in Nodes :
    m \in Regular(n) /\ n \in Regular(m) /\ wire[m][n] = <<>>
      => \A t \in wanted[m] : m \in registry[n][t]

(* A node that is not connected, and is known not to be, receives nothing. *)
RegistryIsConnected ==
  \A n \in Nodes, t \in P2pTopics : \A m \in registry[n][t] \ overtaken[n] :
    m \in remotes[n] /\ (m \in met[n] \/ late[n][m] > 0)

(* Polls of a topic go to its subscribers, and as long as these stay the   *)
(* same they go round (mq_callback_service.cpp:8-70).  *)
PollsGoRound ==
  \A n \in Nodes, t \in P2pTopics : \A i, j \in DOMAIN polls[n][t] :
    /\ polls[n][t][i] \in registry[n][t]
    /\ i < j /\ j - i < Cardinality(registry[n][t]) => polls[n][t][i] # polls[n][t][j]

(* The registry of a node agrees with the nodes it is connected to and     *)
(* with what they want, whatever the order in which applications subscribe *)
(* and either end notices a connection or its end, with one exception that *)
(* the code leaves: a node that is met again before the end of an earlier  *)
(* connection was noticed.  It is sent no topics, as its address is still  *)
(* known (mq_callback_service.cpp:142-144), that end takes it off the      *)
(* registry while it is connected (:165-187), and if it then subscribes it *)
(* stays registered after it left.                                         *)
RegistryAgrees == P2pTypeOK /\ WantedIsRegistered /\ RegistryIsConnected
=============================================================================
