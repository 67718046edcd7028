------------------------------ MODULE MqProofs ------------------------------
(***************************************************************************)
(* The message queue, proved for any number of nodes, clients, connections *)
(* and topics and without the bounds.  First p2p_mq: a node is registered  *)
(* for what its application wants wherever both ends know of their         *)
(* connection, and nowhere else, and polls go round.  Then the forwarder:  *)
(* its three maps agree, a topic is served in turn, and a client stays     *)
(* registered while its connection is there.                               *)
(***************************************************************************)
EXTENDS P2pMq, MqForwarder, TypeArrayProofs, FiniteSetTheorems

(* The argument.  A node that was met when no earlier end was outstanding  *)
(* is known and stays so (RemotesAgree).  What a node wants is registered  *)
(* at the other end or on its way there, from the moment that it met the   *)
(* other end in this way; as long as the other end has not, it is on its   *)
(* way.                                                                    *)
OnItsWay(m, n, t) == \E i \in DOMAIN wire[m][n] : t \in wire[m][n][i]

RemotesAgree ==
  \A n, m \in Nodes :
    /\ m \in met[n] => {m, n} \in linked
    /\ m \in remotes[n] => m \in met[n] \/ late[n][m] > 0
    /\ m \in Regular(n) => late[n][m] = 0 /\ m \in remotes[n]

RegistryIsRemote ==
  \A n \in Nodes, t \in P2pTopics : registry[n][t] \ overtaken[n] \subseteq remotes[n]

WantedIsUnderWay ==
  \A n, m \in Nodes : n \in Regular(m) =>
    /\ m \in Regular(n) => \A t \in wanted[m] : m \in registry[n][t] \/ OnItsWay(m, n, t)
    /\ m \notin met[n] => \A t \in wanted[m] : OnItsWay(m, n, t)

P2pInv == P2pTypeOK /\ RemotesAgree /\ RegistryIsRemote /\ WantedIsUnderWay

(* There are finitely many nodes, so subscribers can be counted.           *)
LEMMA NodesFinite == IsFiniteSet(Nodes)
<1>1. Order \in Surjection(1 .. Len(Order), Nodes)
  BY OrderAssumption DEF Surjection
<1>2. IsFiniteSet(1 .. Len(Order))
  BY OrderAssumption, FS_Interval
<1>3. QED BY <1>1, <1>2, FS_Surjection

LEMMA Counted ==
  ASSUME NEW S \in SUBSET Nodes
  PROVE  Cardinality(S) \in Nat /\ (S # {} => Cardinality(S) > 0)
<1>1. IsFiniteSet(S)  BY NodesFinite, FS_Subset
<1>2. Cardinality(S) \in Nat  BY <1>1, FS_CardinalityType
<1>3. S # {} => Cardinality(S) # 0  BY <1>1, FS_EmptySet
<1>4. QED BY <1>2, <1>3

-----------------------------------------------------------------------------
(* Types.                                                                  *)

LEMMA TypeInit == P2pInit => P2pTypeOK
<1> SUFFICES ASSUME P2pInit PROVE P2pTypeOK  OBVIOUS
<1>1. \A n \in Nodes, t \in P2pTopics : cursor[n][t] <= Cardinality(registry[n][t])
  BY FS_EmptySet DEF P2pInit
<1>2. QED BY <1>1 DEF P2pInit, P2pTypeOK

(* A new registry puts the cursors of the topics it changes to the front.  *)
LEMMA RegisterTypes ==
  ASSUME P2pTypeOK, NEW n \in Nodes, NEW reg \in [P2pTopics -> SUBSET Nodes], Register(n, reg)
  PROVE  /\ registry' \in [Nodes -> [P2pTopics -> SUBSET Nodes]]
         /\ cursor' \in [Nodes -> [P2pTopics -> Nat]]
         /\ \A m \in Nodes, t \in P2pTopics : cursor'[m][t] <= Cardinality(registry'[m][t])
<1>1. registry' \in [Nodes -> [P2pTopics -> SUBSET Nodes]]  BY DEF Register, P2pTypeOK
<1>2. cursor' \in [Nodes -> [P2pTopics -> Nat]]  BY DEF Register, P2pTypeOK
<1>3. ASSUME NEW m \in Nodes, NEW t \in P2pTopics
      PROVE  cursor'[m][t] <= Cardinality(registry'[m][t])
  <2>1. CASE m # n
    BY <2>1 DEF Register, P2pTypeOK
  <2>2. CASE m = n /\ reg[t] = registry[n][t]
    BY <2>2 DEF Register, P2pTypeOK
  <2>3. CASE m = n /\ reg[t] # registry[n][t]
    <3>1. cursor'[m][t] = 0 /\ registry'[m][t] = reg[t]  BY <2>3 DEF Register, P2pTypeOK
    <3>2. Cardinality(reg[t]) \in Nat  BY Counted
    <3>3. QED BY <3>1, <3>2
  <2>4. QED BY <2>1, <2>2, <2>3
<1>4. QED BY <1>1, <1>2, <1>3

LEMMA TypeStep ==
  ASSUME P2pTypeOK, [P2pNext]_p2pVars
  PROVE  P2pTypeOK'
<1>1. ASSUME NEW n \in Nodes, NEW ts \in SUBSET P2pTopics, OnSubMsgID2CallbackService(n, ts)
      PROVE  P2pTypeOK'
  <2>1. wanted' \in [Nodes -> SUBSET P2pTopics]
    BY <1>1 DEF OnSubMsgID2CallbackService, P2pTypeOK
  <2>2. wire' \in [Nodes -> [Nodes -> Seq(SUBSET P2pTopics)]]
    <3>1. \A m \in Nodes : Append(wire[n][m], ts) \in Seq(SUBSET P2pTopics)
      BY DEF P2pTypeOK
    <3>2. QED BY <1>1, <3>1 DEF OnSubMsgID2CallbackService, P2pTypeOK
  <2>3. QED BY <1>1, <2>1, <2>2 DEF OnSubMsgID2CallbackService, links, P2pTypeOK
<1>2. ASSUME NEW n \in Nodes, NEW m \in Nodes, OnConnected(n, m)
      PROVE  P2pTypeOK'
  <2>1. Append(wire[n][m], wanted[n]) \in Seq(SUBSET P2pTopics)
    BY DEF P2pTypeOK
  <2>2. wire' \in [Nodes -> [Nodes -> Seq(SUBSET P2pTopics)]]
    BY <1>2, <2>1 DEF OnConnected, P2pTypeOK
  <2>3. met' \in [Nodes -> SUBSET Nodes] /\ overtaken' \in [Nodes -> SUBSET Nodes]
    BY <1>2 DEF OnConnected, Meets, P2pTypeOK
  <2>4. /\ remotes' = [remotes EXCEPT ![n] = @ \cup {m}]
        /\ linked' = linked /\ late' = late /\ wanted' = wanted
        /\ registry' = registry /\ cursor' = cursor
    BY <1>2 DEF OnConnected, Meets
  <2>5. remotes' \in [Nodes -> SUBSET Nodes]  BY <2>4 DEF P2pTypeOK
  <2>6. QED BY <2>2, <2>3, <2>4, <2>5 DEF P2pTypeOK
<1>3. ASSUME NEW n \in Nodes, NEW m \in Nodes, OnDisConnected(n, m)
      PROVE  P2pTypeOK'
  <2>1. [t \in P2pTopics |-> registry[n][t] \ {m}] \in [P2pTopics -> SUBSET Nodes]
    BY DEF P2pTypeOK
  <2>2. /\ registry' \in [Nodes -> [P2pTopics -> SUBSET Nodes]]
        /\ cursor' \in [Nodes -> [P2pTopics -> Nat]]
        /\ \A k \in Nodes, t \in P2pTopics : cursor'[k][t] <= Cardinality(registry'[k][t])
    <3>1. CASE m \in remotes[n]  BY <1>3, <2>1, <3>1, RegisterTypes DEF OnDisConnected
    <3>2. CASE m \notin remotes[n]  BY <1>3, <3>2 DEF OnDisConnected, P2pTypeOK
    <3>3. QED BY <3>1, <3>2
  <2>3. late' \in [Nodes -> [Nodes -> Nat]]
    BY <1>3 DEF OnDisConnected, P2pTypeOK
  <2>4. QED BY <1>3, <2>2, <2>3 DEF OnDisConnected, P2pTypeOK
<1>4. ASSUME NEW n \in Nodes, NEW m \in Nodes, OnSubMsgID(n, m)
      PROVE  P2pTypeOK'
  <2>1. [t \in P2pTopics |-> IF t \in Head(wire[m][n]) THEN registry[n][t] \cup {m}
                             ELSE registry[n][t]] \in [P2pTopics -> SUBSET Nodes]
    BY DEF P2pTypeOK
  <2>2. Tail(wire[m][n]) \in Seq(SUBSET P2pTopics)
    BY <1>4 DEF OnSubMsgID, P2pTypeOK
  <2>3. QED BY <1>4, <2>1, <2>2, RegisterTypes DEF OnSubMsgID, links, P2pTypeOK
<1>5. ASSUME NEW n \in Nodes, NEW msg \in CPubMsg2CallbackService, OnPubMsg2CallbackService(n, msg)
      PROVE  P2pTypeOK'
  <2> DEFINE t == msg.nTopicID
  <2>1. t \in P2pTopics  BY DEF CPubMsg2CallbackService
  <2>2. CASE msg.nPubMsgType = "poll"
    <3>1. Cardinality(registry[n][t]) \in Nat /\ Cardinality(registry[n][t]) > 0
      BY <1>5, <2>1, Counted DEF OnPubMsg2CallbackService, P2pTypeOK
    <3>2. GetAddr(n, t).next \in Nat /\ GetAddr(n, t).next <= Cardinality(registry[n][t])
      <4>1. cursor[n][t] \in Nat /\ cursor[n][t] <= Cardinality(registry[n][t])
        BY <2>1 DEF P2pTypeOK
      <4>2. QED BY <3>1, <4>1 DEF GetAddr
    <3>3. cursor' = [cursor EXCEPT ![n][t] = GetAddr(n, t).next]
      BY <1>5, <2>2 DEF OnPubMsg2CallbackService, Poll
    <3>4. cursor' \in [Nodes -> [P2pTopics -> Nat]]
      BY <2>1, <3>2, <3>3 DEF P2pTypeOK
    <3>5. \A k \in Nodes, s \in P2pTopics : cursor'[k][s] <= Cardinality(registry[k][s])
      BY <2>1, <3>2, <3>3 DEF P2pTypeOK
    <3>6. QED BY <1>5, <3>4, <3>5 DEF OnPubMsg2CallbackService, links, P2pTypeOK
  <2>3. CASE msg.nPubMsgType # "poll"
    BY <1>5, <2>3 DEF OnPubMsg2CallbackService, links, P2pTypeOK
  <2>4. QED BY <2>2, <2>3
<1>6. ASSUME NEW n \in Nodes, NEW m \in Nodes, Link(n, m)
      PROVE  P2pTypeOK'
  BY <1>6 DEF Link, P2pTypeOK
<1>7. ASSUME NEW n \in Nodes, NEW m \in Nodes, Unlink(n, m)
      PROVE  P2pTypeOK'
  <2>1. <<>> \in Seq(SUBSET P2pTopics)  OBVIOUS
  <2>2. [wire EXCEPT ![m][n] = <<>>] \in [Nodes -> [Nodes -> Seq(SUBSET P2pTopics)]]
    BY <2>1 DEF P2pTypeOK
  <2>3. wire' \in [Nodes -> [Nodes -> Seq(SUBSET P2pTopics)]]
    BY <1>7, <2>1, <2>2 DEF Unlink
  <2>4. met' \in [Nodes -> SUBSET Nodes]
    BY <1>7 DEF Unlink, P2pTypeOK
  <2>5. late' \in [Nodes -> [Nodes -> Nat]]
    <3>1. /\ late \in [Nodes -> [Nodes -> Nat]] /\ n # m
          /\ late' = [late EXCEPT ![n][m] = IF m \in met[n] THEN @ + 1 ELSE @,
                                  ![m][n] = IF n \in met[m] THEN @ + 1 ELSE @]
      BY <1>7 DEF Unlink, P2pTypeOK
    <3> DEFINE a == IF m \in met[n] THEN late[n][m] + 1 ELSE late[n][m]
               b == IF n \in met[m] THEN late[m][n] + 1 ELSE late[m][n]
    <3>2. a \in Nat /\ b \in Nat  BY <3>1
    <3>3. late' = [late EXCEPT ![n] = [@ EXCEPT ![m] = a], ![m] = [@ EXCEPT ![n] = b]]
      BY <3>1
    <3> HIDE DEF a, b
    <3>4. [late[n] EXCEPT ![m] = a] \in [Nodes -> Nat] /\ [late[m] EXCEPT ![n] = b] \in [Nodes -> Nat]
      BY <3>1, <3>2
    <3>5. QED BY <3>1, <3>3, <3>4
  <2>6. QED BY <1>7, <2>3, <2>4, <2>5 DEF Unlink, P2pTypeOK
<1>8. CASE UNCHANGED p2pVars
  BY <1>8 DEF p2pVars, links, P2pTypeOK
<1>9. QED
  BY <1>1, <1>2, <1>3, <1>4, <1>5, <1>6, <1>7, <1>8 DEF P2pNext, PubP2pMqMsgImpl

-----------------------------------------------------------------------------
(* The nodes that are known, against connections and ends outstanding.     *)

(* What a step that meets or breaks does to the view that k has of m.      *)
LEMMA MeetsChanges ==
  ASSUME P2pTypeOK, NEW n \in Nodes, NEW j \in Nodes, Meets(n, j), NEW k \in Nodes, NEW m \in Nodes
  PROVE  /\ linked' = linked /\ late' = late
         /\ {j, n} \in linked /\ j \notin met[n] /\ j \in met'[n]
         /\ j \in overtaken'[n] <=> late[n][j] > 0
         /\ k # n \/ m # j => /\ m \in met'[k] <=> m \in met[k]
                              /\ m \in overtaken'[k] <=> m \in overtaken[k]
<1>1. /\ linked' = linked /\ late' = late /\ {j, n} \in linked /\ j \notin met[n]
      /\ met' = [met EXCEPT ![n] = @ \cup {j}]
      /\ overtaken' = [overtaken EXCEPT ![n] = IF late[n][j] > 0 THEN @ \cup {j} ELSE @ \ {j}]
  BY DEF Meets
<1>2. met \in [Nodes -> SUBSET Nodes] /\ overtaken \in [Nodes -> SUBSET Nodes]
  BY DEF P2pTypeOK
<1>3. /\ j \in met'[n]
      /\ k # n \/ m # j => (m \in met'[k] <=> m \in met[k])
  BY <1>1, <1>2
<1>4. /\ j \in overtaken'[n] <=> late[n][j] > 0
      /\ k # n \/ m # j => (m \in overtaken'[k] <=> m \in overtaken[k])
  <2> DEFINE old == late[n][j] > 0
  <2>1. overtaken'[n] = IF old THEN overtaken[n] \cup {j} ELSE overtaken[n] \ {j}
    BY <1>1, <1>2
  <2>2. k # n => overtaken'[k] = overtaken[k]  BY <1>1, <1>2
  <2> HIDE DEF old
  <2>3. /\ j \in overtaken'[n] <=> old
        /\ k # n \/ m # j => (m \in overtaken'[k] <=> m \in overtaken[k])
    BY <2>1, <2>2
  <2>4. QED BY <2>3 DEF old
<1>5. QED BY <1>1, <1>3, <1>4

LEMMA UnlinkHere ==
  ASSUME P2pTypeOK, NEW n \in Nodes, NEW j \in Nodes, Unlink(n, j), NEW k \in Nodes, NEW m \in Nodes,
         (m = j /\ k = n) \/ (m = n /\ k = j)
  PROVE  /\ m \notin met'[k]
         /\ m \in met[k] \/ late[k][m] > 0 => late'[k][m] > 0
<1>1. /\ n # j
      /\ met' = [met EXCEPT ![n] = @ \ {j}, ![j] = @ \ {n}]
      /\ late' = [late EXCEPT ![n][j] = IF j \in met[n] THEN @ + 1 ELSE @,
                              ![j][n] = IF n \in met[j] THEN @ + 1 ELSE @]
  BY DEF Unlink
<1>2. met \in [Nodes -> SUBSET Nodes] /\ late \in [Nodes -> [Nodes -> Nat]]
  BY DEF P2pTypeOK
<1>3. late[k][m] \in Nat /\ m \notin met'[k]  BY <1>1, <1>2
<1>4. late'[k][m] = IF m \in met[k] THEN late[k][m] + 1 ELSE late[k][m]
  BY <1>1, <1>2
<1>5. QED BY <1>3, <1>4

LEMMA UnlinkElsewhere ==
  ASSUME P2pTypeOK, NEW n \in Nodes, NEW j \in Nodes, Unlink(n, j), NEW k \in Nodes, NEW m \in Nodes,
         ~((m = j /\ k = n) \/ (m = n /\ k = j))
  PROVE  /\ m \in met'[k] <=> m \in met[k]
         /\ late'[k][m] = late[k][m]
         /\ {m, k} \in linked => {m, k} \in linked'
<1>1. /\ linked' = linked \ {{j, n}}
      /\ met' = [met EXCEPT ![n] = @ \ {j}, ![j] = @ \ {n}]
      /\ late' = [late EXCEPT ![n][j] = IF j \in met[n] THEN @ + 1 ELSE @,
                              ![j][n] = IF n \in met[j] THEN @ + 1 ELSE @]
  BY DEF Unlink
<1>2. met \in [Nodes -> SUBSET Nodes] /\ late \in [Nodes -> [Nodes -> Nat]]
  BY DEF P2pTypeOK
<1>3. m \in met'[k] <=> m \in met[k]  BY <1>1, <1>2
<1>4. late'[k][m] = late[k][m]  BY <1>1, <1>2
<1>5. {m, k} # {j, n}  OBVIOUS
<1>6. {m, k} \in linked => {m, k} \in linked'  BY <1>1, <1>5
<1>7. QED BY <1>3, <1>4, <1>6

LEMMA RemotesStep ==
  ASSUME P2pTypeOK, RemotesAgree, [P2pNext]_p2pVars
  PROVE  RemotesAgree'
<1>1. ASSUME NEW n \in Nodes, NEW j \in Nodes, OnConnected(n, j)
      PROVE  RemotesAgree'
  <2>1. Meets(n, j) /\ remotes' = [remotes EXCEPT ![n] = @ \cup {j}]
    BY <1>1 DEF OnConnected
  <2>2. remotes'[n] = remotes[n] \cup {j} /\ \A k \in Nodes \ {n} : remotes'[k] = remotes[k]
    BY <2>1 DEF P2pTypeOK
  <2>3. \A k, m \in Nodes : late[k][m] \in Nat  BY DEF P2pTypeOK
  <2> SUFFICES ASSUME NEW k \in Nodes, NEW m \in Nodes
               PROVE  /\ m \in met'[k] => {m, k} \in linked'
                      /\ m \in remotes'[k] => m \in met'[k] \/ late'[k][m] > 0
                      /\ m \in met'[k] \ overtaken'[k] => late'[k][m] = 0 /\ m \in remotes'[k]
    BY DEF RemotesAgree, Regular
  <2>4. CASE k = n /\ m = j
    <3>1. /\ m \in met'[k] /\ {m, k} \in linked' /\ late'[k][m] \in Nat
          /\ m \in overtaken'[k] <=> late'[k][m] > 0
      BY <2>1, <2>3, <2>4, MeetsChanges
    <3>2. m \in remotes'[k]  BY <2>2, <2>4
    <3>3. QED BY <3>1, <3>2
  <2>5. CASE ~(k = n /\ m = j)
    <3>1. /\ m \in met'[k] <=> m \in met[k]
          /\ m \in overtaken'[k] <=> m \in overtaken[k]
      BY <2>1, <2>5, MeetsChanges
    <3>2. m \in remotes'[k] <=> m \in remotes[k]  BY <2>2, <2>5
    <3>3. linked' = linked /\ late' = late  BY <2>1 DEF Meets
    <3>4. QED BY <3>1, <3>2, <3>3 DEF RemotesAgree, Regular
  <2>6. QED BY <2>4, <2>5
<1>2. ASSUME NEW n \in Nodes, NEW j \in Nodes, OnDisConnected(n, j)
      PROVE  RemotesAgree'
  <2>1. /\ late[n][j] > 0 /\ late' = [late EXCEPT ![n][j] = @ - 1]
        /\ remotes' = [remotes EXCEPT ![n] = @ \ {j}]
        /\ linked' = linked /\ met' = met /\ overtaken' = overtaken
    BY <1>2 DEF OnDisConnected
  <2> SUFFICES ASSUME NEW k \in Nodes, NEW m \in Nodes
               PROVE  /\ m \in met[k] => {m, k} \in linked
                      /\ m \in remotes'[k] => m \in met[k] \/ late'[k][m] > 0
                      /\ m \in met[k] \ overtaken[k] => late'[k][m] = 0 /\ m \in remotes'[k]
    BY <2>1 DEF RemotesAgree, Regular
  <2>2. CASE k = n /\ m = j
    <3>1. m \notin remotes'[k] /\ late[k][m] # 0  BY <2>1, <2>2 DEF P2pTypeOK
    <3>2. QED BY <3>1 DEF RemotesAgree, Regular
  <2>3. CASE ~(k = n /\ m = j)
    <3>1. late'[k][m] = late[k][m] /\ (m \in remotes'[k] <=> m \in remotes[k])
      BY <2>1, <2>3 DEF P2pTypeOK
    <3>2. QED BY <3>1 DEF RemotesAgree, Regular
  <2>4. QED BY <2>2, <2>3
<1>3. ASSUME NEW n \in Nodes, NEW j \in Nodes, Link(n, j)
      PROVE  RemotesAgree'
  BY <1>3 DEF Link, RemotesAgree, Regular
<1>4. ASSUME NEW n \in Nodes, NEW j \in Nodes, Unlink(n, j)
      PROVE  RemotesAgree'
  <2>1. remotes' = remotes /\ overtaken' = overtaken  BY <1>4 DEF Unlink
  <2> SUFFICES ASSUME NEW k \in Nodes, NEW m \in Nodes
               PROVE  /\ m \in met'[k] => {m, k} \in linked'
                      /\ m \in remotes[k] => m \in met'[k] \/ late'[k][m] > 0
                      /\ m \in met'[k] \ overtaken[k] => late'[k][m] = 0 /\ m \in remotes[k]
    BY <2>1 DEF RemotesAgree, Regular
  <2>2. CASE (m = j /\ k = n) \/ (m = n /\ k = j)
    <3>1. m \notin met'[k] /\ (m \in met[k] \/ late[k][m] > 0 => late'[k][m] > 0)
      BY <1>4, <2>2, UnlinkHere
    <3>2. QED BY <3>1 DEF RemotesAgree
  <2>3. CASE ~((m = j /\ k = n) \/ (m = n /\ k = j))
    <3>1. /\ m \in met'[k] <=> m \in met[k]
          /\ late'[k][m] = late[k][m]
          /\ {m, k} \in linked => {m, k} \in linked'
      BY <1>4, <2>3, UnlinkElsewhere
    <3>2. QED BY <3>1 DEF RemotesAgree, Regular
  <2>4. QED BY <2>2, <2>3
<1>5. ASSUME UNCHANGED <<linked, met, late, overtaken, remotes>>
      PROVE  RemotesAgree'
  BY <1>5 DEF RemotesAgree, Regular
<1>6. QED
  BY <1>1, <1>2, <1>3, <1>4, <1>5
     DEF P2pNext, OnSubMsgID2CallbackService, OnSubMsgID, OnPubMsg2CallbackService, p2pVars, links

-----------------------------------------------------------------------------
(* What is registered is of one that is known, or met too early.           *)

LEMMA RegistryStep ==
  ASSUME P2pTypeOK, RemotesAgree, RegistryIsRemote, [P2pNext]_p2pVars
  PROVE  RegistryIsRemote'
<1>1. ASSUME NEW n \in Nodes, NEW m \in Nodes, OnConnected(n, m)
      PROVE  RegistryIsRemote'
  <2>1. Meets(n, m) /\ remotes' = [remotes EXCEPT ![n] = @ \cup {m}] /\ registry' = registry
    BY <1>1 DEF OnConnected
  <2>2. \A k \in Nodes : overtaken[k] \subseteq overtaken'[k] \cup remotes'[k]
    <3>1. m \in remotes'[n]  BY <2>1 DEF P2pTypeOK
    <3>2. \A k, j \in Nodes : k # n \/ j # m => (j \in overtaken'[k] <=> j \in overtaken[k])
      BY <2>1, MeetsChanges
    <3>3. QED BY <3>1, <3>2 DEF P2pTypeOK
  <2>3. \A k \in Nodes : remotes[k] \subseteq remotes'[k]  BY <2>1 DEF P2pTypeOK
  <2>4. QED BY <2>1, <2>2, <2>3 DEF RegistryIsRemote
<1>2. ASSUME NEW n \in Nodes, NEW m \in Nodes, OnDisConnected(n, m)
      PROVE  RegistryIsRemote'
  <2>1. remotes' = [remotes EXCEPT ![n] = @ \ {m}] /\ overtaken' = overtaken
    BY <1>2 DEF OnDisConnected
  <2>2. CASE m \in remotes[n]
    <3>1. registry' = [registry EXCEPT ![n] = [t \in P2pTopics |-> registry[n][t] \ {m}]]
      BY <1>2, <2>2 DEF OnDisConnected, Register
    <3>2. QED BY <2>1, <3>1 DEF P2pTypeOK, RegistryIsRemote
  <2>3. CASE m \notin remotes[n]
    <3>1. registry' = registry /\ remotes' = remotes
      BY <1>2, <2>1, <2>3 DEF OnDisConnected, P2pTypeOK
    <3>2. QED BY <2>1, <3>1 DEF RegistryIsRemote
  <2>4. QED BY <2>2, <2>3
<1>3. ASSUME NEW n \in Nodes, NEW m \in Nodes, OnSubMsgID(n, m)
      PROVE  RegistryIsRemote'
  <2>1. m \in remotes[n] \cup overtaken[n]
    BY <1>3 DEF OnSubMsgID, RemotesAgree, Regular
  <2>2. remotes' = remotes /\ overtaken' = overtaken  BY <1>3 DEF OnSubMsgID, links
  <2>3. \A k \in Nodes, t \in P2pTopics : registry'[k][t] \subseteq registry[k][t] \cup {m}
    BY <1>3 DEF OnSubMsgID, Register, P2pTypeOK
  <2>4. \A k \in Nodes \ {n}, t \in P2pTopics : registry'[k][t] = registry[k][t]
    BY <1>3 DEF OnSubMsgID, Register, P2pTypeOK
  <2>5. QED BY <2>1, <2>2, <2>3, <2>4 DEF RegistryIsRemote
<1>4. ASSUME UNCHANGED <<registry, remotes, overtaken>>
      PROVE  RegistryIsRemote'
  BY <1>4 DEF RegistryIsRemote
<1>5. QED
  BY <1>1, <1>2, <1>3, <1>4
     DEF P2pNext, OnSubMsgID2CallbackService, OnPubMsg2CallbackService, Link, Unlink, p2pVars, links

-----------------------------------------------------------------------------
(* What is wanted is registered or under way.                              *)

(* A message with all that is wanted was put on the wire.                  *)
LEMMA SentIsOnItsWay ==
  ASSUME P2pTypeOK, NEW m \in Nodes, NEW k \in Nodes, NEW ts \in SUBSET P2pTopics,
         wire'[m][k] = Append(wire[m][k], ts), NEW t \in ts
  PROVE  OnItsWay(m, k, t)'
<1>1. wire[m][k] \in Seq(SUBSET P2pTopics)  BY DEF P2pTypeOK
<1>2. Len(wire[m][k]) + 1 \in DOMAIN wire'[m][k] /\ t \in wire'[m][k][Len(wire[m][k]) + 1]
  BY <1>1
<1>3. QED BY <1>2 DEF OnItsWay

LEMMA UnderWayStep ==
  ASSUME P2pTypeOK, RemotesAgree, WantedIsUnderWay, [P2pNext]_p2pVars
  PROVE  WantedIsUnderWay'
<1>1. ASSUME NEW n \in Nodes, NEW ts \in SUBSET P2pTopics, OnSubMsgID2CallbackService(n, ts)
      PROVE  WantedIsUnderWay'
  <2>1. /\ met' = met /\ overtaken' = overtaken /\ registry' = registry
        /\ wanted' = [wanted EXCEPT ![n] = ts]
        /\ wire' = [wire EXCEPT ![n] = [m \in Nodes |->
                IF m \in remotes[n] \cap met[n] THEN Append(@[m], ts) ELSE @[m]]]
    BY <1>1 DEF OnSubMsgID2CallbackService, links
  <2> SUFFICES ASSUME NEW k \in Nodes, NEW m \in Nodes, k \in Regular(m)
               PROVE  /\ m \in Regular(k) =>
                           \A t \in wanted'[m] : m \in registry[k][t] \/ OnItsWay(m, k, t)'
                      /\ m \notin met[k] => \A t \in wanted'[m] : OnItsWay(m, k, t)'
    BY <2>1 DEF WantedIsUnderWay, Regular
  <2>2. CASE m = n
    <3>1. k \in remotes[m] /\ k \in met[m]  BY DEF RemotesAgree, Regular
    <3>2. wire'[m][k] = Append(wire[m][k], ts) /\ wanted'[m] = ts
      BY <2>1, <2>2, <3>1 DEF P2pTypeOK
    <3>3. QED BY <3>2, SentIsOnItsWay
  <2>3. CASE m # n
    <3>1. wire'[m] = wire[m] /\ wanted'[m] = wanted[m]
      BY <2>1, <2>3 DEF P2pTypeOK
    <3>2. QED BY <3>1 DEF OnItsWay, WantedIsUnderWay
  <2>4. QED BY <2>2, <2>3
<1>2. ASSUME NEW n \in Nodes, NEW j \in Nodes, OnConnected(n, j)
      PROVE  WantedIsUnderWay'
  <2>1. /\ Meets(n, j) /\ registry' = registry /\ wanted' = wanted
        /\ wire' = IF j \in remotes[n] THEN wire ELSE [wire EXCEPT ![n][j] = Append(@, wanted[n])]
    BY <1>2 DEF OnConnected
  <2> SUFFICES ASSUME NEW k \in Nodes, NEW m \in Nodes, k \in met'[m] \ overtaken'[m],
                      NEW t \in wanted[m]
               PROVE  /\ m \in met'[k] \ overtaken'[k] =>
                           m \in registry[k][t] \/ OnItsWay(m, k, t)'
                      /\ m \notin met'[k] => OnItsWay(m, k, t)'
    BY <2>1 DEF WantedIsUnderWay, Regular
  <2>2. CASE m = n /\ k = j
    <3>1. j \notin met[n] /\ ~(late[n][j] > 0)  BY <2>1, <2>2, MeetsChanges
    <3>2. j \notin remotes[n]  BY <3>1 DEF RemotesAgree
    <3>3. wire'[m][k] = Append(wire[m][k], wanted[m])  BY <2>1, <2>2, <3>2 DEF P2pTypeOK
    <3>4. wanted[m] \in SUBSET P2pTopics  BY DEF P2pTypeOK
    <3>5. QED BY <3>3, <3>4, SentIsOnItsWay
  <2>3. CASE ~(m = n /\ k = j)
    <3>1. wire'[m][k] = wire[m][k]  BY <2>1, <2>3 DEF P2pTypeOK
    <3>2. k \in met[m] \ overtaken[m]
      <4>1. /\ k \in met'[m] <=> k \in met[m]
            /\ k \in overtaken'[m] <=> k \in overtaken[m]
        BY <2>1, <2>3, MeetsChanges
      <4>2. QED BY <4>1
    <3>3. CASE k = n /\ m = j
      <4>1. m \notin met[k]  BY <2>1, <3>3, MeetsChanges
      <4>2. QED BY <3>1, <3>2, <4>1 DEF WantedIsUnderWay, OnItsWay, Regular
    <3>4. CASE ~(k = n /\ m = j)
      <4>1. /\ m \in met'[k] <=> m \in met[k]
            /\ m \in overtaken'[k] <=> m \in overtaken[k]
        BY <2>1, <3>4, MeetsChanges
      <4>2. QED BY <3>1, <3>2, <4>1 DEF WantedIsUnderWay, OnItsWay, Regular
    <3>5. QED BY <3>3, <3>4
  <2>4. QED BY <2>2, <2>3
<1>3. ASSUME NEW n \in Nodes, NEW j \in Nodes, OnDisConnected(n, j)
      PROVE  WantedIsUnderWay'
  <2>1. /\ met' = met /\ overtaken' = overtaken /\ wanted' = wanted /\ wire' = wire
        /\ late[n][j] > 0
    BY <1>3 DEF OnDisConnected
  <2> SUFFICES ASSUME NEW k \in Nodes, NEW m \in Nodes, m \in Regular(k), NEW t \in wanted[m],
                      m \in registry[k][t]
               PROVE  m \in registry'[k][t]
    BY <2>1 DEF WantedIsUnderWay, OnItsWay, Regular
  <2>2. late[k][m] = 0  BY DEF RemotesAgree
  <2>3. ~(k = n /\ m = j)  BY <2>1, <2>2
  <2>4. t \in P2pTopics  BY DEF P2pTypeOK
  <2>5. \/ registry' = registry
        \/ registry' = [registry EXCEPT ![n] = [u \in P2pTopics |-> registry[n][u] \ {j}]]
    BY <1>3 DEF OnDisConnected, Register
  <2>6. registry'[k][t] = registry[k][t] \/ (k = n /\ registry'[k][t] = registry[k][t] \ {j})
    <3>1. registry \in [Nodes -> [P2pTopics -> SUBSET Nodes]]  BY DEF P2pTypeOK
    <3>2. CASE registry' = registry  BY <3>2
    <3>3. CASE registry' = [registry EXCEPT ![n] = [u \in P2pTopics |-> registry[n][u] \ {j}]]
      <4>1. CASE k # n  BY <3>1, <3>3, <4>1
      <4>2. CASE k = n  BY <2>4, <3>1, <3>3, <4>2
      <4>3. QED BY <4>1, <4>2
    <3>4. QED BY <2>5, <3>2, <3>3
  <2>7. QED BY <2>3, <2>6
<1>4. ASSUME NEW n \in Nodes, NEW j \in Nodes, OnSubMsgID(n, j)
      PROVE  WantedIsUnderWay'
  <2>1. /\ met' = met /\ overtaken' = overtaken /\ wanted' = wanted /\ j \in met[n]
        /\ wire[j][n] # <<>> /\ wire' = [wire EXCEPT ![j][n] = Tail(@)]
    BY <1>4 DEF OnSubMsgID, links
  <2> SUFFICES ASSUME NEW k \in Nodes, NEW m \in Nodes, k \in Regular(m), NEW t \in wanted[m]
               PROVE  /\ m \in Regular(k) => m \in registry'[k][t] \/ OnItsWay(m, k, t)'
                      /\ m \notin met[k] => OnItsWay(m, k, t)'
    BY <2>1 DEF WantedIsUnderWay, Regular
  <2>2. t \in P2pTopics  BY DEF P2pTypeOK
  <2>3. registry[k][t] \subseteq registry'[k][t]
    BY <1>4, <2>2 DEF OnSubMsgID, Register, P2pTypeOK
  <2>4. CASE m = j /\ k = n
    <3> DEFINE w == wire[m][k]
    <3>1. w \in Seq(SUBSET P2pTopics) /\ w # <<>> /\ wire'[m][k] = Tail(w)
      BY <2>1, <2>4 DEF P2pTypeOK
    <3>2. t \in Head(w) => m \in registry'[k][t]
      BY <1>4, <2>2, <2>4 DEF OnSubMsgID, Register, P2pTypeOK
    <3>3. ASSUME NEW i \in DOMAIN w, t \in w[i], t \notin Head(w)
          PROVE  OnItsWay(m, k, t)'
      <4>1. i # 1  BY <3>1, <3>3
      <4>2. i - 1 \in DOMAIN Tail(w) /\ Tail(w)[i - 1] = w[i]  BY <3>1, <4>1
      <4>3. QED BY <3>1, <3>3, <4>2 DEF OnItsWay
    <3>4. m \in Regular(k) => m \in registry[k][t] \/ OnItsWay(m, k, t)  BY DEF WantedIsUnderWay
    <3>5. QED BY <2>1, <2>3, <2>4, <3>2, <3>3, <3>4 DEF OnItsWay
  <2>5. CASE ~(m = j /\ k = n)
    <3>1. wire'[m][k] = wire[m][k]  BY <2>1, <2>5 DEF P2pTypeOK
    <3>2. QED BY <2>3, <3>1 DEF WantedIsUnderWay, OnItsWay
  <2>6. QED BY <2>4, <2>5
<1>5. ASSUME NEW n \in Nodes, NEW j \in Nodes, Unlink(n, j)
      PROVE  WantedIsUnderWay'
  <2>1. overtaken' = overtaken /\ wanted' = wanted /\ registry' = registry  BY <1>5 DEF Unlink
  <2> SUFFICES ASSUME NEW k \in Nodes, NEW m \in Nodes, k \in met'[m] \ overtaken[m],
                      NEW t \in wanted[m]
               PROVE  /\ m \in met'[k] \ overtaken[k] => m \in registry[k][t] \/ OnItsWay(m, k, t)'
                      /\ m \notin met'[k] => OnItsWay(m, k, t)'
    BY <2>1 DEF WantedIsUnderWay, Regular
  <2>2. ~((m = j /\ k = n) \/ (m = n /\ k = j)) /\ ~((k = j /\ m = n) \/ (k = n /\ m = j))
    BY <1>5, UnlinkHere
  <2>3. m \in met'[k] <=> m \in met[k]  BY <1>5, <2>2, UnlinkElsewhere
  <2>4. wire'[m][k] = wire[m][k]  BY <1>5, <2>2 DEF Unlink, P2pTypeOK
  <2>5. k \in met[m]
    <3>1. k \in met'[m] <=> k \in met[m]  BY <1>5, <2>2, UnlinkElsewhere
    <3>2. QED BY <3>1
  <2>6. QED BY <2>3, <2>4, <2>5 DEF WantedIsUnderWay, OnItsWay, Regular
<1>6. ASSUME UNCHANGED <<wanted, registry, wire, met, overtaken>>
      PROVE  WantedIsUnderWay'
  BY <1>6 DEF WantedIsUnderWay, OnItsWay, Regular
<1>7. QED
  BY <1>1, <1>2, <1>3, <1>4, <1>5, <1>6
     DEF P2pNext, OnPubMsg2CallbackService, Link, p2pVars, links

-----------------------------------------------------------------------------
(* Registries agree with connections and with what is wanted, over breaks  *)
(* and reconnections that either end notices in any order: a node is       *)
(* registered, for all its application wants, wherever both ends know of   *)
(* their connection and nothing is under way, and one whose connection is  *)
(* gone is registered only until that is noticed.  Excepted are nodes that *)
(* were met again before the end of an earlier connection was noticed,     *)
(* which the code sends no topics (mq_callback_service.cpp:117-213).       *)
THEOREM P2pRegistryAgrees == P2pSpec => []RegistryAgrees
<1>1. P2pInit => P2pInv
  <2> SUFFICES ASSUME P2pInit PROVE P2pInv  OBVIOUS
  <2>1. P2pTypeOK  BY TypeInit
  <2>2. WantedIsUnderWay /\ RegistryIsRemote /\ RemotesAgree
    BY DEF P2pInit, WantedIsUnderWay, RegistryIsRemote, RemotesAgree, Regular
  <2>3. QED BY <2>1, <2>2 DEF P2pInv
<1>2. P2pInv /\ [P2pNext]_p2pVars => P2pInv'
  BY TypeStep, RemotesStep, RegistryStep, UnderWayStep DEF P2pInv
<1>3. P2pInv => RegistryAgrees
  <2> SUFFICES ASSUME P2pInv PROVE RegistryAgrees  OBVIOUS
  <2>1. WantedIsRegistered
    <3> SUFFICES ASSUME NEW n \in Nodes, NEW m \in Nodes, m \in Regular(n), n \in Regular(m),
                        wire[m][n] = <<>>, NEW t \in wanted[m]
                 PROVE  m \in registry[n][t]
      BY DEF WantedIsRegistered
    <3>1. ~OnItsWay(m, n, t)  BY DEF OnItsWay
    <3>2. QED BY <3>1 DEF P2pInv, WantedIsUnderWay
  <2>2. RegistryIsConnected
    BY DEF P2pInv, P2pTypeOK, RegistryIsRemote, RemotesAgree, RegistryIsConnected
  <2>3. QED BY <2>1, <2>2 DEF P2pInv, RegistryAgrees
<1>4. QED BY <1>1, <1>2, <1>3, PTL DEF P2pSpec

-----------------------------------------------------------------------------
(* Polls go round.                                                         *)

LEMMA RankOfNode ==
  ASSUME NEW m \in Nodes
  PROVE  RankOf(m) \in DOMAIN Order /\ Order[RankOf(m)] = m /\ RankOf(m) \in Nat
<1>1. \E i \in DOMAIN Order : Order[i] = m  BY OrderAssumption
<1>2. RankOf(m) \in DOMAIN Order /\ Order[RankOf(m)] = m  BY <1>1 DEF RankOf
<1>3. QED BY <1>2, OrderAssumption

(* How many addresses of a set an iterator reaches before one of them.     *)
LEMMA BeforeCounted ==
  ASSUME NEW S \in SUBSET Nodes, NEW m \in S
  PROVE  Cardinality(Before(S, m)) \in 0 .. Cardinality(S) - 1
<1>1. IsFiniteSet(S)  BY NodesFinite, FS_Subset
<1>2. Before(S, m) \in SUBSET S /\ m \notin Before(S, m)
  BY RankOfNode DEF Before
<1>3. Cardinality(Before(S, m)) <= Cardinality(S) /\ Cardinality(Before(S, m)) # Cardinality(S)
  BY <1>1, <1>2, FS_Subset
<1>4. IsFiniteSet(Before(S, m))  BY <1>1, <1>2, FS_Subset
<1>5. Cardinality(S) \in Nat /\ Cardinality(Before(S, m)) \in Nat
  BY <1>1, <1>4, FS_CardinalityType
<1>6. QED BY <1>3, <1>5

LEMMA BeforeGrows ==
  ASSUME NEW S \in SUBSET Nodes, NEW m \in S, NEW k \in S, RankOf(k) < RankOf(m)
  PROVE  Cardinality(Before(S, k)) # Cardinality(Before(S, m))
<1>1. IsFiniteSet(S)  BY NodesFinite, FS_Subset
<1>2. RankOf(k) \in Nat /\ RankOf(m) \in Nat /\ \A x \in S : RankOf(x) \in Nat  BY RankOfNode
<1>3. Before(S, k) \in SUBSET Before(S, m) /\ k \in Before(S, m) /\ k \notin Before(S, k)
  BY <1>2 DEF Before
<1>4. IsFiniteSet(Before(S, m))
  <2>1. Before(S, m) \in SUBSET S  BY DEF Before
  <2>2. QED BY <1>1, <2>1, FS_Subset
<1>5. QED BY <1>3, <1>4, FS_Subset

(* An iterator that is not at the end is at an address.                    *)
LEMMA AddrAtPlace ==
  ASSUME NEW S \in SUBSET Nodes, NEW at \in 0 .. Cardinality(S) - 1
  PROVE  AddrAt(S, at) \in S /\ Cardinality(Before(S, AddrAt(S, at))) = at
<1> DEFINE f == [m \in S |-> Cardinality(Before(S, m))]
           T == 0 .. Cardinality(S) - 1
<1>1. IsFiniteSet(S) /\ Cardinality(S) \in Nat
  BY NodesFinite, FS_Subset, FS_CardinalityType
<1>2. f \in [S -> T]  BY BeforeCounted
<1>3. ASSUME NEW m \in S, NEW k \in S, m # k
      PROVE  f[m] # f[k]
  <2>1. RankOf(m) # RankOf(k) /\ RankOf(m) \in Nat /\ RankOf(k) \in Nat
    BY <1>3, RankOfNode
  <2>2. CASE RankOf(k) < RankOf(m)
    BY <2>2, BeforeGrows
  <2>3. CASE RankOf(m) < RankOf(k)
    BY <2>3, BeforeGrows
  <2>4. QED BY <2>1, <2>2, <2>3
<1>4. f \in Injection(S, T)
  <2>1. \A m, k \in S : f[m] = f[k] => m = k  BY <1>3
  <2>2. QED BY <1>2, <2>1 DEF Injection, IsInjective
<1>5. IsFiniteSet(T) /\ Cardinality(T) = Cardinality(S)
  BY <1>1, FS_Interval
<1>6. f \in Surjection(S, T)  BY <1>4, <1>5, FS_Injection
<1>7. \E m \in S : f[m] = at  BY <1>6 DEF Surjection
<1>8. \E m \in S : Cardinality(Before(S, m)) = at  BY <1>7
<1>9. QED BY <1>8 DEF AddrAt

(* Since the subscribers of a topic changed, the last polls went, from the *)
(* last one backwards, to the one before the cursor, to that before it,    *)
(* and so on around the set.                                               *)
PlaceBehind(next, count, back) ==
  IF back < next THEN next - 1 - back ELSE next - 1 - back + count

PollsEndAtCursor ==
  \A n \in Nodes, t \in P2pTopics :
    /\ polls[n][t] # <<>> => cursor[n][t] > 0
    /\ \A j \in DOMAIN polls[n][t] :
         Len(polls[n][t]) - j < Cardinality(registry[n][t])
           => Cardinality(Before(registry[n][t], polls[n][t][j]))
                = PlaceBehind(cursor[n][t], Cardinality(registry[n][t]), Len(polls[n][t]) - j)

RoundsInv ==
  /\ P2pTypeOK
  /\ polls \in [Nodes -> [P2pTopics -> Seq(Nodes)]]
  /\ PollsGoRound /\ PollsEndAtCursor

LEMMA RegisterRounds ==
  ASSUME RoundsInv, NEW n \in Nodes, NEW reg \in [P2pTopics -> SUBSET Nodes], Register(n, reg)
  PROVE  /\ polls' \in [Nodes -> [P2pTopics -> Seq(Nodes)]]
         /\ PollsGoRound' /\ PollsEndAtCursor'
<1> USE DEF RoundsInv, P2pTypeOK
<1>1. <<>> \in Seq(Nodes)  OBVIOUS
<1>2. polls' \in [Nodes -> [P2pTopics -> Seq(Nodes)]]  BY <1>1 DEF Register
<1>3. \A k \in Nodes, t \in P2pTopics :
        \/ polls'[k][t] = <<>>
        \/ /\ polls'[k][t] = polls[k][t] /\ registry'[k][t] = registry[k][t]
           /\ cursor'[k][t] = cursor[k][t]
  BY DEF Register
<1>4. \A k \in Nodes, t \in P2pTopics : polls'[k][t] = <<>> => DOMAIN polls'[k][t] = {}
  OBVIOUS
<1>5. PollsGoRound'
  <2> SUFFICES ASSUME NEW k \in Nodes, NEW t \in P2pTopics,
                      NEW i \in DOMAIN polls'[k][t], NEW j \in DOMAIN polls'[k][t]
               PROVE  /\ polls'[k][t][i] \in registry'[k][t]
                      /\ i < j /\ j - i < Cardinality(registry'[k][t])
                           => polls'[k][t][i] # polls'[k][t][j]
    BY DEF PollsGoRound
  <2>1. polls'[k][t] = polls[k][t] /\ registry'[k][t] = registry[k][t]  BY <1>3, <1>4
  <2>2. QED BY <2>1 DEF PollsGoRound
<1>6. PollsEndAtCursor'
  <2> SUFFICES ASSUME NEW k \in Nodes, NEW t \in P2pTopics
               PROVE  /\ polls'[k][t] # <<>> => cursor'[k][t] > 0
                      /\ \A j \in DOMAIN polls'[k][t] :
                           Len(polls'[k][t]) - j < Cardinality(registry'[k][t])
                             => Cardinality(Before(registry'[k][t], polls'[k][t][j])) =
                                  PlaceBehind(cursor'[k][t], Cardinality(registry'[k][t]),
                                              Len(polls'[k][t]) - j)
    BY DEF PollsEndAtCursor
  <2>1. CASE polls'[k][t] = <<>>
    BY <1>4, <2>1
  <2>2. CASE polls'[k][t] # <<>>
    <3>1. /\ polls'[k][t] = polls[k][t] /\ registry'[k][t] = registry[k][t]
          /\ cursor'[k][t] = cursor[k][t]
      BY <1>3, <2>2
    <3>2. QED BY <2>2, <3>1 DEF PollsEndAtCursor
  <2>3. QED BY <2>1, <2>2
<1>7. QED BY <1>2, <1>5, <1>6

LEMMA PollRounds ==
  ASSUME RoundsInv, NEW n \in Nodes, NEW t \in P2pTopics, registry[n][t] # {},
         Poll(n, t), registry' = registry
  PROVE  /\ polls' \in [Nodes -> [P2pTopics -> Seq(Nodes)]]
         /\ PollsGoRound' /\ PollsEndAtCursor'
<1> DEFINE S == registry[n][t]
           size == Cardinality(S)
           c == cursor[n][t]
           at == IF c = size THEN 0 ELSE c
           m == AddrAt(S, at)
           T == polls[n][t]
           len == Len(T)
           T2 == Append(T, m)
<1>1. S \in SUBSET Nodes /\ c \in Nat /\ c <= size  BY DEF RoundsInv, P2pTypeOK
<1>2. size \in Nat /\ size > 0  BY <1>1, Counted
<1>3. T \in Seq(Nodes) /\ len \in Nat /\ DOMAIN T = 1 .. len  BY DEF RoundsInv
<1>4. at \in 0 .. size - 1  BY <1>1, <1>2
<1>5. m \in S /\ m \in Nodes /\ Cardinality(Before(S, m)) = at  BY <1>1, <1>4, AddrAtPlace
<1>6. cursor' = [cursor EXCEPT ![n][t] = at + 1] /\ polls' = [polls EXCEPT ![n][t] = T2]
  BY DEF Poll, GetAddr
<1>7. /\ T2 \in Seq(Nodes) /\ DOMAIN T2 = 1 .. len + 1 /\ Len(T2) = len + 1 /\ T2[len + 1] = m
      /\ \A i \in 1 .. len : T2[i] = T[i]
  BY <1>3, <1>5
<1> HIDE DEF T2, m, len, T, at
<1>8. polls' \in [Nodes -> [P2pTopics -> Seq(Nodes)]]  BY <1>6, <1>7 DEF RoundsInv
<1>9. \A i \in 1 .. len : T[i] \in S  BY <1>3 DEF RoundsInv, PollsGoRound, T
<1>10. \A i, j \in 1 .. len : i < j /\ j - i < size => T[i] # T[j]
  BY <1>3 DEF RoundsInv, PollsGoRound, T
<1>11. /\ T # <<>> => c > 0
       /\ \A j \in 1 .. len : len - j < size =>
            Cardinality(Before(S, T[j])) =
              IF len - j < c THEN c - 1 - (len - j) ELSE c - 1 - (len - j) + size
  BY <1>3 DEF RoundsInv, PollsEndAtCursor, PlaceBehind, T, len
<1>12. \A j \in 1 .. len : c > 0
  BY <1>3, <1>11
<1> HIDE DEF size, c
<1>13. ASSUME NEW j \in 1 .. len, len + 1 - j < size
       PROVE  Cardinality(Before(S, T[j])) =
                IF len + 1 - j < at + 1 THEN at - (len + 1 - j) ELSE at - (len + 1 - j) + size
  <2>1. Cardinality(Before(S, T[j])) =
          IF len - j < c THEN c - 1 - (len - j) ELSE c - 1 - (len - j) + size
    BY <1>2, <1>3, <1>11, <1>13
  <2>2. CASE c = size
    <3>1. at = 0  BY <2>2 DEF at
    <3>2. QED BY <1>1, <1>2, <1>3, <1>13, <2>1, <2>2, <3>1
  <2>3. CASE c # size
    <3>1. at = c  BY <2>3 DEF at
    <3>2. QED BY <1>1, <1>2, <1>3, <1>12, <1>13, <2>1, <3>1
  <2>4. QED BY <2>2, <2>3
<1>14. ASSUME NEW j \in 1 .. len, len + 1 - j < size
       PROVE  T[j] # m
  <2>1. Cardinality(Before(S, T[j])) # at
    BY <1>2, <1>3, <1>4, <1>13, <1>14
  <2>2. QED BY <1>5, <2>1
<1>15. /\ \A i \in 1 .. len + 1 : T2[i] \in S
       /\ \A i, j \in 1 .. len + 1 : i < j /\ j - i < size => T2[i] # T2[j]
  <2>1. ASSUME NEW i \in 1 .. len + 1
        PROVE  i \in 1 .. len \/ i = len + 1
    BY <1>3
  <2>2. ASSUME NEW i \in 1 .. len + 1, NEW j \in 1 .. len + 1, i < j, j - i < size
        PROVE  T2[i] # T2[j]
    <3>1. i \in 1 .. len  BY <1>3, <2>2
    <3>2. CASE j \in 1 .. len
      BY <1>7, <1>10, <2>2, <3>1, <3>2
    <3>3. CASE j = len + 1
      <4>1. len + 1 - i < size  BY <1>2, <1>3, <2>2, <3>1, <3>3
      <4>2. T[i] # m  BY <1>14, <3>1, <4>1
      <4>3. QED BY <1>7, <3>1, <3>3, <4>2
    <3>4. QED BY <2>1, <3>2, <3>3
  <2>3. QED BY <1>5, <1>7, <1>9, <2>1, <2>2
<1>16. \A j \in 1 .. len + 1 : len + 1 - j < size =>
         Cardinality(Before(S, T2[j])) = PlaceBehind(at + 1, size, len + 1 - j)
  <2> SUFFICES ASSUME NEW j \in 1 .. len + 1, len + 1 - j < size
               PROVE  Cardinality(Before(S, T2[j])) =
                        IF len + 1 - j < at + 1 THEN at - (len + 1 - j)
                        ELSE at - (len + 1 - j) + size
    BY <1>2, <1>3, <1>4 DEF PlaceBehind
  <2>1. CASE j = len + 1
    <3>1. len + 1 - j = 0 /\ at \in Nat  BY <1>2, <1>3, <1>4, <2>1
    <3>2. QED BY <1>5, <1>7, <2>1, <3>1
  <2>2. CASE j # len + 1
    <3>1. j \in 1 .. len  BY <1>3, <2>2
    <3>2. QED BY <1>7, <1>13, <3>1
  <2>3. QED BY <2>1, <2>2
<1>17. ASSUME NEW k \in Nodes, NEW s \in P2pTopics, ~(k = n /\ s = t)
       PROVE  /\ polls'[k][s] = polls[k][s] /\ cursor'[k][s] = cursor[k][s]
              /\ registry'[k][s] = registry[k][s]
  BY <1>6, <1>17 DEF RoundsInv, P2pTypeOK
<1>18. /\ polls'[n][t] = T2 /\ cursor'[n][t] = at + 1 /\ registry'[n][t] = S
  BY <1>6 DEF RoundsInv, P2pTypeOK
<1>19. PollsGoRound'
  <2> SUFFICES ASSUME NEW k \in Nodes, NEW s \in P2pTopics,
                      NEW i \in DOMAIN polls'[k][s], NEW j \in DOMAIN polls'[k][s]
               PROVE  /\ polls'[k][s][i] \in registry'[k][s]
                      /\ i < j /\ j - i < Cardinality(registry'[k][s])
                           => polls'[k][s][i] # polls'[k][s][j]
    BY DEF PollsGoRound
  <2>1. CASE k = n /\ s = t
    <3>1. i \in 1 .. len + 1 /\ j \in 1 .. len + 1  BY <1>7, <1>18, <2>1
    <3>2. QED BY <1>15, <1>18, <2>1, <3>1 DEF size
  <2>2. CASE ~(k = n /\ s = t)
    BY <1>17, <2>2 DEF RoundsInv, PollsGoRound
  <2>3. QED BY <2>1, <2>2
<1>20. PollsEndAtCursor'
  <2>1. ASSUME NEW k \in Nodes, NEW s \in P2pTopics, ~(k = n /\ s = t)
        PROVE  /\ polls'[k][s] # <<>> => cursor'[k][s] > 0
               /\ \A j \in DOMAIN polls'[k][s] :
                    Len(polls'[k][s]) - j < Cardinality(registry'[k][s])
                      => Cardinality(Before(registry'[k][s], polls'[k][s][j]))
                           = PlaceBehind(cursor'[k][s], Cardinality(registry'[k][s]),
                                         Len(polls'[k][s]) - j)
    <3>1. /\ polls'[k][s] = polls[k][s] /\ cursor'[k][s] = cursor[k][s]
          /\ registry'[k][s] = registry[k][s]
      BY <1>17, <2>1
    <3>2. QED BY <3>1 DEF RoundsInv, PollsEndAtCursor
  <2>2. cursor'[n][t] > 0  BY <1>2, <1>4, <1>18
  <2>3. ASSUME NEW j \in DOMAIN polls'[n][t],
               Len(polls'[n][t]) - j < Cardinality(registry'[n][t])
        PROVE  Cardinality(Before(registry'[n][t], polls'[n][t][j]))
                 = PlaceBehind(cursor'[n][t], Cardinality(registry'[n][t]),
                               Len(polls'[n][t]) - j)
    <3>1. Len(polls'[n][t]) = len + 1  BY <1>7, <1>18, Zenon
    <3>2. j \in 1 .. len + 1 /\ len + 1 - j < size
      BY <1>2, <1>3, <1>7, <1>18, <2>3, <3>1 DEF size
    <3>3. Cardinality(Before(S, T2[j])) = PlaceBehind(at + 1, size, len + 1 - j)
      BY <1>16, <3>2
    <3>4. polls'[n][t][j] = T2[j]  BY <1>18
    <3>5. Len(polls'[n][t]) - j = len + 1 - j  BY <1>3, <3>1, <3>2
    <3>6. PlaceBehind(cursor'[n][t], Cardinality(registry'[n][t]), Len(polls'[n][t]) - j)
            = PlaceBehind(at + 1, size, len + 1 - j)
      <4>1. Cardinality(registry'[n][t]) = size  BY <1>18 DEF size
      <4>2. cursor'[n][t] = at + 1  BY <1>18
      <4>3. QED BY <3>5, <4>1, <4>2
    <3>7. QED BY <1>18, <3>3, <3>4, <3>6, Zenon
  <2>4. QED BY <2>1, <2>2, <2>3 DEF PollsEndAtCursor
<1>21. QED BY <1>8, <1>19, <1>20

LEMMA RoundsStep ==
  ASSUME RoundsInv, [P2pNext]_p2pVars
  PROVE  RoundsInv'
<1>1. P2pTypeOK'  BY TypeStep DEF RoundsInv
<1>2. ASSUME NEW n \in Nodes, NEW m \in Nodes, OnDisConnected(n, m)
      PROVE  RoundsInv'
  <2>1. [t \in P2pTopics |-> registry[n][t] \ {m}] \in [P2pTopics -> SUBSET Nodes]
    BY DEF RoundsInv, P2pTypeOK
  <2>2. CASE m \in remotes[n]
    BY <1>1, <1>2, <2>1, <2>2, RegisterRounds DEF OnDisConnected, RoundsInv
  <2>3. CASE m \notin remotes[n]
    <3>1. UNCHANGED <<registry, cursor, polls>>  BY <1>2, <2>3 DEF OnDisConnected
    <3>2. QED BY <1>1, <3>1 DEF RoundsInv, PollsGoRound, PollsEndAtCursor
  <2>4. QED BY <2>2, <2>3
<1>3. ASSUME NEW n \in Nodes, NEW m \in Nodes, OnSubMsgID(n, m)
      PROVE  RoundsInv'
  <2>1. [t \in P2pTopics |-> IF t \in Head(wire[m][n]) THEN registry[n][t] \cup {m}
                             ELSE registry[n][t]] \in [P2pTopics -> SUBSET Nodes]
    BY DEF RoundsInv, P2pTypeOK
  <2>2. QED BY <1>1, <1>3, <2>1, RegisterRounds DEF OnSubMsgID, RoundsInv
<1>4. ASSUME UNCHANGED <<registry, cursor, polls>>
      PROVE  RoundsInv'
  BY <1>1, <1>4 DEF RoundsInv, PollsGoRound, PollsEndAtCursor
<1>5. ASSUME NEW n \in Nodes, NEW msg \in CPubMsg2CallbackService, OnPubMsg2CallbackService(n, msg)
      PROVE  RoundsInv'
  <2>1. msg.nTopicID \in P2pTopics  BY DEF CPubMsg2CallbackService
  <2>2. CASE msg.nPubMsgType = "poll"
    BY <1>1, <1>5, <2>1, <2>2, PollRounds DEF OnPubMsg2CallbackService, RoundsInv
  <2>3. CASE msg.nPubMsgType # "poll"
    BY <1>4, <1>5, <2>3 DEF OnPubMsg2CallbackService
  <2>4. QED BY <2>2, <2>3
<1>6. QED
  BY <1>2, <1>3, <1>4, <1>5
     DEF P2pNext, p2pVars, PubP2pMqMsgImpl, OnSubMsgID2CallbackService, OnConnected, Link, Unlink

(* Polls of a topic go to its subscribers, and round them as long as they  *)
(* stay the same, whatever was published, subscribed or lost before        *)
(* (mq_callback_service.cpp:8-70).                                         *)
THEOREM P2pPollsGoRound == P2pSpec => []PollsGoRound
<1>1. P2pInit => RoundsInv
  <2> SUFFICES ASSUME P2pInit PROVE RoundsInv  OBVIOUS
  <2>1. P2pTypeOK  BY TypeInit
  <2>2. \A n \in Nodes, t \in P2pTopics : polls[n][t] = <<>> /\ DOMAIN polls[n][t] = {}
    BY DEF P2pInit
  <2>3. polls \in [Nodes -> [P2pTopics -> Seq(Nodes)]]
    <3>1. <<>> \in Seq(Nodes)  OBVIOUS
    <3>2. QED BY <3>1 DEF P2pInit
  <2>4. PollsGoRound /\ PollsEndAtCursor
    BY <2>2 DEF PollsGoRound, PollsEndAtCursor
  <2>5. QED BY <2>1, <2>3, <2>4 DEF RoundsInv
<1>2. RoundsInv /\ [P2pNext]_p2pVars => RoundsInv'
  BY RoundsStep
<1>3. RoundsInv => PollsGoRound  BY DEF RoundsInv
<1>4. QED BY <1>1, <1>2, <1>3, PTL DEF P2pSpec

-----------------------------------------------------------------------------
(* The forwarder.  Besides that its maps agree, connections on the stack   *)
(* are broken, and the receivers of a topic since its items changed are,   *)
(* from the last one backwards, those at the index, before it, and so on   *)
(* around the array.                                                       *)

FwdArrays == \A t \in Topics : Sound(Handles, members[t])

FwdTypes ==
  /\ running \in BOOLEAN
  /\ stage \in [Handles -> {"new", "joining", "joined", "closed"}]
  /\ broken \subseteq Handles
  /\ byClient \in [Clients -> Handles \cup {None}]
  /\ byHandle \in [Handles -> Clients \cup {None}]
  /\ members \in [Topics -> ArrayOf(Handles)]
  /\ stack \in Seq(broken)
  /\ turns \in [Topics -> Seq(Handles)]

OneSession ==
  /\ \A c \in Clients, h \in Handles : byClient[c] = h <=> byHandle[h] = c
  /\ \A h \in Handles : byHandle[h] # None => stage[h] = "joined" /\ byHandle[h] = ClientOf[h]

TopicsOfSessions ==
  \A t \in Topics :
    Elements(members[t]) = {h \in Handles : byHandle[h] # None /\ t \in TopicsOf[ClientOf[h]]}

(* The item that is d places behind the index, around the array.           *)
Behind(a, d) ==
  a.items[1 + (IF d <= a.nIndex THEN a.nIndex - d ELSE a.nIndex - d + Len(a.items))]

TurnsEndAtIndex ==
  \A t \in Topics : \A j \in DOMAIN turns[t] :
    Len(turns[t]) - j < Len(members[t].items)
      => turns[t][j] = Behind(members[t], Len(turns[t]) - j)

FwdMaps == FwdTypes /\ FwdArrays /\ OneSession /\ TopicsOfSessions

-----------------------------------------------------------------------------
(* What the handlers are built from.                                       *)

LEMMA NoneIsNone == None \notin Clients /\ None \notin Handles
BY NoneAssumption

LEMMA WithoutSound ==
  ASSUME NEW topics \in [Topics -> ArrayOf(Handles)], \A t \in Topics : Sound(Handles, topics[t]),
         NEW h
  PROVE  /\ Without(topics, h) \in [Topics -> ArrayOf(Handles)]
         /\ \A t \in Topics : /\ Sound(Handles, Without(topics, h)[t])
                              /\ Elements(Without(topics, h)[t]) = Elements(topics[t]) \ {h}
<1>1. \A t \in Topics : Without(topics, h)[t] = Delete(topics[t], h)  BY DEF Without
<1>2. \A t \in Topics : /\ Sound(Handles, Delete(topics[t], h))
                        /\ Elements(Delete(topics[t], h)) = Elements(topics[t]) \ {h}
  BY DeleteSound
<1>3. \A t \in Topics : Delete(topics[t], h) \in ArrayOf(Handles)  BY <1>2 DEF Sound
<1>4. Without(topics, h) \in [Topics -> ArrayOf(Handles)]  BY <1>3 DEF Without
<1>5. QED BY <1>1, <1>2, <1>4

(* The maps and topics after a session of a connection, if any, is gone.   *)
LEMMA RemoveSessionMaps ==
  ASSUME FwdMaps, NEW h \in Handles, NEW topics \in [Topics -> ArrayOf(Handles)],
         \A t \in Topics : Sound(Handles, topics[t]) /\ Elements(topics[t]) = Elements(members[t]),
         RemoveSession(h, topics)
  PROVE  /\ stage' \in [Handles -> {"new", "joining", "joined", "closed"}]
         /\ byClient' \in [Clients -> Handles \cup {None}]
         /\ byHandle' \in [Handles -> Clients \cup {None}]
         /\ members' \in [Topics -> ArrayOf(Handles)]
         /\ FwdArrays' /\ OneSession' /\ TopicsOfSessions'
         /\ \A t \in Topics : Elements(members'[t]) = Elements(members[t]) \ {h}
<1> USE DEF FwdMaps, FwdTypes
<1>1. stage' \in [Handles -> {"new", "joining", "joined", "closed"}]  BY DEF RemoveSession
<1>2. byClient' \in [Clients -> Handles \cup {None}]  BY DEF RemoveSession
<1>3. byHandle' \in [Handles -> Clients \cup {None}]  BY DEF RemoveSession
<1>4. /\ members' \in [Topics -> ArrayOf(Handles)]
      /\ \A t \in Topics : Sound(Handles, members'[t])
      /\ \A t \in Topics : Elements(members'[t]) = Elements(members[t]) \ {h}
  <2>1. CASE byHandle[h] = None
    <3>1. members' = topics  BY <2>1 DEF RemoveSession
    <3>2. \A t \in Topics : h \notin Elements(members[t])  BY <2>1 DEF TopicsOfSessions
    <3>3. QED BY <3>1, <3>2
  <2>2. CASE byHandle[h] # None
    <3>1. members' = Without(topics, h)  BY <2>2 DEF RemoveSession
    <3>2. QED BY <3>1, WithoutSound
  <2>3. QED BY <2>1, <2>2
<1>5. OneSession'
  <2>1. \A c \in Clients, g \in Handles : byClient'[c] = g <=> byHandle'[g] = c
    BY NoneIsNone DEF RemoveSession, OneSession
  <2>2. \A g \in Handles : byHandle'[g] # None =>
          stage'[g] = "joined" /\ byHandle'[g] = ClientOf[g]
    BY DEF RemoveSession, OneSession
  <2>3. QED BY <2>1, <2>2 DEF OneSession
<1>6. TopicsOfSessions'
  BY <1>4 DEF RemoveSession, TopicsOfSessions
<1>7. QED BY <1>1, <1>2, <1>3, <1>4, <1>5, <1>6 DEF FwdArrays

(* A send, whether it fails or not.                                        *)
LEMMA SendMaps ==
  ASSUME FwdMaps, NEW h \in Handles, NEW topics \in [Topics -> ArrayOf(Handles)],
         \A t \in Topics : Sound(Handles, topics[t]) /\ Elements(topics[t]) = Elements(members[t]),
         Send(h, topics)
  PROVE  /\ stage' \in [Handles -> {"new", "joining", "joined", "closed"}]
         /\ byClient' \in [Clients -> Handles \cup {None}]
         /\ byHandle' \in [Handles -> Clients \cup {None}]
         /\ members' \in [Topics -> ArrayOf(Handles)]
         /\ FwdArrays' /\ OneSession' /\ TopicsOfSessions'
<1>1. CASE members' = topics /\ UNCHANGED <<stage, byClient, byHandle>>
  BY <1>1 DEF FwdMaps, FwdTypes, FwdArrays, OneSession, TopicsOfSessions
<1>2. CASE RemoveSession(h, topics)
  BY <1>2, RemoveSessionMaps
<1>3. QED BY <1>1, <1>2 DEF Send

LEMMA TurnsAfterType ==
  ASSUME FwdMaps, NEW topics
  PROVE  TurnsAfter(topics) \in [Topics -> Seq(Handles)]
BY DEF TurnsAfter, FwdMaps, FwdTypes

LEMMA RotatedTopics ==
  ASSUME FwdMaps, NEW t \in Topics
  PROVE  LET topics == [members EXCEPT ![t] = Rotated(@)] IN
         /\ topics \in [Topics -> ArrayOf(Handles)]
         /\ \A s \in Topics : Sound(Handles, topics[s]) /\ Elements(topics[s]) = Elements(members[s])
<1>1. Sound(Handles, members[t])  BY DEF FwdMaps, FwdArrays
<1>2. Sound(Handles, Rotated(members[t])) /\ Elements(Rotated(members[t])) = Elements(members[t])
  BY <1>1, RotatedSound
<1>3. Rotated(members[t]) \in ArrayOf(Handles)  BY <1>2 DEF Sound
<1>4. QED BY <1>2, <1>3 DEF FwdMaps, FwdTypes, FwdArrays

-----------------------------------------------------------------------------
(* The maps agree.                                                         *)

LEMMA FwdMapsInit == Init => FwdMaps
<1> SUFFICES ASSUME Init PROVE FwdMaps  OBVIOUS
<1>1. \A t \in Topics : Sound(Handles, members[t]) /\ Elements(members[t]) = {}
  BY EmptySound DEF Init
<1>2. members \in [Topics -> ArrayOf(Handles)]  BY EmptySound DEF Init, Sound
<1>3. FwdTypes  BY <1>2 DEF Init, FwdTypes
<1>4. OneSession  BY NoneIsNone DEF Init, OneSession
<1>5. TopicsOfSessions  BY <1>1 DEF Init, TopicsOfSessions
<1>6. QED BY <1>1, <1>3, <1>4, <1>5 DEF FwdMaps, FwdArrays

LEMMA RegisterMaps ==
  ASSUME FwdMaps, NEW h \in Handles, OnRegMqTopicReq(h)
  PROVE  FwdMaps'
<1> DEFINE c == ClientOf[h]
           old == byClient[c]
           left == Without(members, old)
           next == [t \in Topics |-> IF t \in TopicsOf[c] THEN Insert(left[t], h) ELSE left[t]]
<1> USE DEF FwdMaps, FwdTypes
<1>1. c \in Clients /\ old \in Handles \cup {None} /\ old # h /\ byHandle[h] = None
  <2>1. c \in Clients  BY HandlesAssumption
  <2>2. old \in Handles \cup {None}  BY <2>1
  <2>3. byHandle[h] = None  BY DEF OnRegMqTopicReq, OneSession
  <2>4. old = h => byHandle[h] = c  BY <2>1 DEF OneSession
  <2>5. QED BY <2>1, <2>2, <2>3, <2>4, NoneIsNone
<1>2. /\ left \in [Topics -> ArrayOf(Handles)]
      /\ \A t \in Topics : Sound(Handles, left[t]) /\ Elements(left[t]) = Elements(members[t]) \ {old}
  BY WithoutSound DEF FwdArrays
<1> HIDE DEF left
<1>3. \A t \in Topics :
        /\ Sound(Handles, next[t])
        /\ Elements(next[t]) = IF t \in TopicsOf[c] THEN Elements(left[t]) \cup {h}
                               ELSE Elements(left[t])
  BY <1>2, InsertSound
<1>4. \A t \in Topics : next[t] \in ArrayOf(Handles)  BY <1>3 DEF Sound
<1>5. next \in [Topics -> ArrayOf(Handles)]  BY <1>4
<1>6. members' = next /\ stack' = stack /\ running' = running /\ broken' = broken
      /\ turns' = TurnsAfter(next)
  BY DEF OnRegMqTopicReq, left
<1> HIDE DEF next
<1>7. byClient' = [byClient EXCEPT ![c] = h]  BY DEF OnRegMqTopicReq
<1>8. byHandle' = [g \in Handles |-> IF g = h THEN c ELSE IF g = old THEN None ELSE byHandle[g]]
  BY DEF OnRegMqTopicReq
<1>9. stage' = [g \in Handles |-> IF g = h THEN "joined" ELSE IF g = old THEN "closed" ELSE stage[g]]
  BY DEF OnRegMqTopicReq
<1>10. FwdTypes'
  BY <1>1, <1>5, <1>6, <1>7, <1>8, <1>9, TurnsAfterType
<1>11. OneSession'
  <2>1. ASSUME NEW d \in Clients, NEW g \in Handles
        PROVE  byClient'[d] = g <=> byHandle'[g] = d
    <3>1. byClient[d] = g <=> byHandle[g] = d  BY DEF OneSession
    <3>2. byClient[c] = g <=> byHandle[g] = c  BY <1>1 DEF OneSession
    <3>3. CASE d = c
      BY <1>1, <1>7, <1>8, <3>1, <3>3, NoneIsNone
    <3>4. CASE d # c
      BY <1>1, <1>7, <1>8, <3>1, <3>2, <3>4, NoneIsNone
    <3>5. QED BY <3>3, <3>4
  <2>2. \A g \in Handles : byHandle'[g] # None => stage'[g] = "joined" /\ byHandle'[g] = ClientOf[g]
    BY <1>8, <1>9 DEF OneSession
  <2>3. QED BY <2>1, <2>2 DEF OneSession
<1>12. TopicsOfSessions'
  <2> SUFFICES ASSUME NEW t \in Topics, NEW g \in Handles
               PROVE  g \in Elements(next[t]) <=> byHandle'[g] # None /\ t \in TopicsOf[ClientOf[g]]
    <3>1. ASSUME NEW t \in Topics PROVE Elements(next[t]) \subseteq Handles
      <4>1. Elements(members[t]) \subseteq Handles  BY DEF TopicsOfSessions
      <4>2. Elements(left[t]) \subseteq Handles  BY <1>2, <4>1
      <4>3. Elements(next[t]) \subseteq Elements(left[t]) \cup {h}
        <5>1. Elements(next[t]) = IF t \in TopicsOf[c] THEN Elements(left[t]) \cup {h}
                                  ELSE Elements(left[t])
          BY <1>3
        <5>2. QED BY <5>1
      <4>4. QED BY <4>2, <4>3
    <3>2. QED BY <1>6, <3>1 DEF TopicsOfSessions
  <2>1. g \in Elements(members[t]) <=> byHandle[g] # None /\ t \in TopicsOf[ClientOf[g]]
    BY DEF TopicsOfSessions
  <2>2. g \in Elements(left[t]) <=> g \in Elements(members[t]) /\ g # old
    BY <1>2
  <2>3. g \in Elements(next[t]) <=> g \in Elements(left[t]) \/ (g = h /\ t \in TopicsOf[c])
    BY <1>3
  <2>4. CASE g = h
    <3>1. byHandle'[g] = c /\ c # None /\ byHandle[g] = None  BY <1>1, <1>8, <2>4, NoneIsNone
    <3>2. QED BY <2>1, <2>2, <2>3, <2>4, <3>1
  <2>5. CASE g # h /\ g = old
    BY <1>8, <2>2, <2>3, <2>5
  <2>6. CASE g # h /\ g # old
    BY <1>8, <2>1, <2>2, <2>3, <2>6
  <2>7. QED BY <2>4, <2>5, <2>6
<1>13. QED BY <1>3, <1>6, <1>10, <1>11, <1>12 DEF FwdArrays

LEMMA BroadcastMaps ==
  ASSUME FwdMaps, NEW t \in Topics, OnPubMqBroadcastMsg(t)
  PROVE  FwdMaps'
<1>1. PICK n \in 0 .. Len(members[t].items) :
        \E lost \in [1 .. n -> Elements(members[t]) \cap broken] : stack' = lost
  BY DEF OnPubMqBroadcastMsg
<1>2. PICK lost \in [1 .. n -> Elements(members[t]) \cap broken] : stack' = lost
  BY <1>1
<1>3. n \in Nat  BY DEF FwdMaps, FwdTypes, ArrayOf
<1>4. stack' \in Seq(broken)  BY <1>2, <1>3
<1>5. running' \in BOOLEAN  BY DEF OnPubMqBroadcastMsg, FwdMaps, FwdTypes
<1>6. FwdTypes'  BY <1>4, <1>5 DEF OnPubMqBroadcastMsg, FwdMaps, FwdTypes
<1>7. QED BY <1>6 DEF OnPubMqBroadcastMsg, FwdMaps, FwdArrays, OneSession, TopicsOfSessions

LEMMA FwdMapsStep ==
  ASSUME FwdMaps, [Next]_vars
  PROVE  FwdMaps'
<1>0. \A t \in Topics : Sound(Handles, members[t]) /\ Elements(members[t]) = Elements(members[t])
  BY DEF FwdMaps, FwdArrays
<1>1. ASSUME NEW h \in Handles, Connect(h)
      PROVE  FwdMaps'
  <2>1. stage' \in [Handles -> {"new", "joining", "joined", "closed"}]
    BY <1>1 DEF Connect, FwdMaps, FwdTypes
  <2>2. FwdTypes'  BY <1>1, <2>1 DEF Connect, FwdMaps, FwdTypes
  <2>3. OneSession'  BY <1>1 DEF Connect, FwdMaps, FwdTypes, OneSession
  <2>4. QED BY <1>1, <2>2, <2>3 DEF Connect, FwdMaps, FwdArrays, TopicsOfSessions
<1>2. ASSUME NEW h \in Handles, Break(h)
      PROVE  FwdMaps'
  <2>1. stack' \in Seq(broken')
    <3>1. broken \subseteq broken' /\ stack \in Seq(broken) /\ stack' = stack
      BY <1>2 DEF Break, FwdMaps, FwdTypes
    <3>2. QED BY <3>1
  <2>2. FwdTypes'  BY <1>2, <2>1 DEF Break, FwdMaps, FwdTypes
  <2>3. QED BY <1>2, <2>2 DEF Break, FwdMaps, FwdArrays, OneSession, TopicsOfSessions
<1>3. ASSUME NEW h \in Handles, OnRegMqTopicReq(h)
      PROVE  FwdMaps'
  BY <1>3, RegisterMaps
<1>4. ASSUME NEW h \in Handles, OnNetworkError(h)
      PROVE  FwdMaps'
  <2>1. members \in [Topics -> ArrayOf(Handles)]  BY DEF FwdMaps, FwdTypes
  <2>2. RemoveSession(h, members)  BY <1>4 DEF OnNetworkError
  <2>3. turns' \in [Topics -> Seq(Handles)]
    BY <1>4, TurnsAfterType DEF OnNetworkError
  <2>4. QED BY <1>0, <1>4, <2>1, <2>2, <2>3, RemoveSessionMaps DEF OnNetworkError, FwdMaps, FwdTypes
<1>5. ASSUME NEW t \in Topics, OnPubMqTopicMsg(t)
      PROVE  FwdMaps'
  <2> DEFINE h == Dealt(members[t])
             topics == [members EXCEPT ![t] = Rotated(@)]
  <2>1. h \in Handles
    BY <1>0, <1>5, DealtIsElement DEF OnPubMqTopicMsg
  <2>2. /\ topics \in [Topics -> ArrayOf(Handles)]
        /\ \A s \in Topics : Sound(Handles, topics[s]) /\ Elements(topics[s]) = Elements(members[s])
    BY RotatedTopics
  <2>3. Send(h, topics)  BY <1>5 DEF OnPubMqTopicMsg
  <2>4. turns' \in [Topics -> Seq(Handles)]
    <3>1. \A s \in Topics : turns[s] \in Seq(Handles) /\ Append(turns[t], h) \in Seq(Handles)
      BY <2>1 DEF FwdMaps, FwdTypes
    <3>2. QED BY <1>5, <2>1, <3>1 DEF OnPubMqTopicMsg
  <2> HIDE DEF topics, h
  <2>5. QED BY <1>5, <2>1, <2>2, <2>3, <2>4, SendMaps DEF OnPubMqTopicMsg, FwdMaps, FwdTypes
<1>6. ASSUME NEW t \in Topics, OnPubMqBroadcastMsg(t)
      PROVE  FwdMaps'
  BY <1>6, BroadcastMaps
<1>7. ASSUME NEW c \in Clients, OnPubMqAddrMsg(c)
      PROVE  FwdMaps'
  <2>1. byClient[c] \in Handles /\ members \in [Topics -> ArrayOf(Handles)]
    BY <1>7 DEF OnPubMqAddrMsg, FwdMaps, FwdTypes
  <2>2. Send(byClient[c], members)  BY <1>7 DEF OnPubMqAddrMsg
  <2>3. turns' \in [Topics -> Seq(Handles)]
    BY <1>7, TurnsAfterType DEF OnPubMqAddrMsg
  <2>4. QED BY <1>0, <1>7, <2>1, <2>2, <2>3, SendMaps DEF OnPubMqAddrMsg, FwdMaps, FwdTypes
<1>8. ASSUME PopStack
      PROVE  FwdMaps'
  <2> DEFINE h == stack[Len(stack)]
  <2>1. stack \in Seq(broken) /\ broken \subseteq Handles /\ stack # <<>>
    BY <1>8 DEF PopStack, FwdMaps, FwdTypes
  <2>2. h \in Handles /\ stack' \in Seq(broken)  BY <1>8, <2>1 DEF PopStack
  <2>3. members \in [Topics -> ArrayOf(Handles)]  BY DEF FwdMaps, FwdTypes
  <2>4. RemoveSession(h, members)  BY <1>8 DEF PopStack
  <2>5. turns' \in [Topics -> Seq(Handles)]
    BY <1>8, TurnsAfterType DEF PopStack
  <2>6. running' \in BOOLEAN /\ broken' = broken
    <3>1. (Len(stack) > 1) \in BOOLEAN  OBVIOUS
    <3>2. QED BY <1>8, <3>1, Zenon DEF PopStack
  <2> HIDE DEF h
  <2>7. QED BY <1>0, <2>1, <2>2, <2>3, <2>4, <2>5, <2>6, RemoveSessionMaps DEF FwdMaps, FwdTypes
<1>9. ASSUME OnExit
      PROVE  FwdMaps'
  <2>1. \A t \in Topics : Sound(Handles, members'[t]) /\ Elements(members'[t]) = {}
    BY <1>9, EmptySound DEF OnExit
  <2>2. members' \in [Topics -> ArrayOf(Handles)]  BY <1>9, EmptySound DEF OnExit, Sound
  <2>3. FwdTypes'
    <3>1. running' \in BOOLEAN /\ turns' \in [Topics -> Seq(Handles)]
      <4>1. <<>> \in Seq(Handles)  OBVIOUS
      <4>2. QED BY <1>9, <4>1 DEF OnExit
    <3>2. /\ byClient' \in [Clients -> Handles \cup {None}]
          /\ byHandle' \in [Handles -> Clients \cup {None}]
      BY <1>9 DEF OnExit
    <3>3. stage' = stage /\ broken' = broken /\ stack' = stack  BY <1>9 DEF OnExit
    <3>4. QED BY <2>2, <3>1, <3>2, <3>3 DEF FwdMaps, FwdTypes
  <2>4. OneSession'  BY <1>9, NoneIsNone DEF OnExit, OneSession
  <2>5. TopicsOfSessions'  BY <1>9, <2>1 DEF OnExit, TopicsOfSessions
  <2>6. QED BY <2>1, <2>3, <2>4, <2>5 DEF FwdMaps, FwdArrays
<1>10. CASE UNCHANGED vars
  BY <1>10 DEF vars, FwdMaps, FwdTypes, FwdArrays, OneSession, TopicsOfSessions
<1>11. QED
  BY <1>1, <1>2, <1>3, <1>4, <1>5, <1>6, <1>7, <1>8, <1>9, <1>10 DEF Next

-----------------------------------------------------------------------------
(* Messages of a topic go round.                                           *)

(* Going one place on puts what was d places behind d + 1 places behind.   *)
LEMMA BehindRotated ==
  ASSUME NEW a, Sound(Handles, a), NEW d \in Nat, d < Len(a.items)
  PROVE  /\ d + 1 < Len(a.items) => Behind(Rotated(a), d + 1) = Behind(a, d)
         /\ d > 0 => Behind(Rotated(a), d) # Dealt(a)
         /\ Behind(Rotated(a), 0) = Dealt(a)
<1> DEFINE n == a.nIndex
           m == Rotated(a).nIndex
           size == Len(a.items)
<1>1. /\ a.items \in Seq(Handles) /\ n \in Nat /\ size \in Nat /\ n < size
      /\ DOMAIN a.items = 1 .. size
  BY DEF Sound, ArrayOf, IndexInside
<1>2. Rotated(a).items = a.items /\ m = IF n + 1 < size THEN n + 1 ELSE 0
  BY RotatedSound
<1>3. m \in Nat /\ m < size  BY <1>1, <1>2
<1> HIDE DEF m, n
<1>4. \A e : Behind(Rotated(a), e) = a.items[1 + (IF e <= m THEN m - e ELSE m - e + size)]
  BY <1>2 DEF Behind, m
<1>5. Behind(a, d) = a.items[1 + (IF d <= n THEN n - d ELSE n - d + size)]
  BY DEF Behind, n
<1>6. Dealt(a) = a.items[m + 1]  BY DEF Dealt, m
<1>7. d + 1 < size => Behind(Rotated(a), d + 1) = Behind(a, d)
  <2> SUFFICES ASSUME d + 1 < size
               PROVE  (IF d + 1 <= m THEN m - (d + 1) ELSE m - (d + 1) + size)
                        = IF d <= n THEN n - d ELSE n - d + size
    BY <1>4, <1>5
  <2> HIDE DEF size
  <2>1. n \in Nat /\ size \in Nat /\ n < size  BY <1>1
  <2>2. CASE n + 1 < size
    <3>1. m = n + 1  BY <1>2, <2>2
    <3>2. QED BY <2>1, <2>2, <3>1
  <2>3. CASE ~(n + 1 < size)
    <3>1. m = 0 /\ n = size - 1  BY <1>2, <2>1, <2>3
    <3>2. QED BY <2>1, <3>1
  <2>4. QED BY <2>2, <2>3
<1>8. d > 0 => Behind(Rotated(a), d) # Dealt(a)
  <2> DEFINE k == 1 + (IF d <= m THEN m - d ELSE m - d + size)
  <2> SUFFICES ASSUME d > 0 PROVE a.items[k] # a.items[m + 1]
    BY <1>4, <1>6
  <2>1. k \in 1 .. size /\ m + 1 \in 1 .. size /\ k # m + 1  BY <1>1, <1>3
  <2>2. QED BY <1>1, <2>1 DEF Sound, Once
<1>9. Behind(Rotated(a), 0) = Dealt(a)  BY <1>3, <1>4, <1>6
<1>10. QED BY <1>7, <1>8, <1>9

(* A topic that has lost no item is as it was.                             *)
LEMMA SameItems ==
  ASSUME NEW a, Sound(Handles, a), NEW h, Delete(a, h).items = a.items
  PROVE  Delete(a, h) = a
<1>1. CASE h \in Elements(a)
  <2>1. Elements(Delete(a, h)) = Elements(a) \ {h}  BY DeleteSound
  <2>2. Elements(Delete(a, h)) = Elements(a)  BY DEF Elements
  <2>3. QED BY <1>1, <2>1, <2>2
<1>2. CASE h \notin Elements(a)
  BY <1>2 DEF Delete
<1>3. QED BY <1>1, <1>2

LEMMA TurnsKept ==
  ASSUME FwdMaps, ServedInTurn, TurnsEndAtIndex, turns' = TurnsAfter(members')
  PROVE  ServedInTurn' /\ TurnsEndAtIndex'
<1>1. \A t \in Topics : turns'[t] = <<>> \/ (turns'[t] = turns[t] /\ members'[t] = members[t])
  BY DEF TurnsAfter
<1>2. \A t \in Topics : turns'[t] = <<>> => DOMAIN turns'[t] = {}  OBVIOUS
<1>3. ServedInTurn'  BY <1>1, <1>2 DEF ServedInTurn
<1>4. TurnsEndAtIndex'  BY <1>1, <1>2 DEF TurnsEndAtIndex
<1>5. QED BY <1>3, <1>4

LEMMA TopicTurns ==
  ASSUME FwdMaps, ServedInTurn, TurnsEndAtIndex, NEW t \in Topics, OnPubMqTopicMsg(t)
  PROVE  ServedInTurn' /\ TurnsEndAtIndex'
<1> DEFINE h == Dealt(members[t])
           topics == [members EXCEPT ![t] = Rotated(@)]
<1>1. Sound(Handles, members[t]) /\ members[t].items # <<>>
  BY DEF OnPubMqTopicMsg, FwdMaps, FwdArrays
<1>2. h \in Handles  BY <1>1, DealtIsElement
<1>3. turns' = [s \in Topics |->
                 IF members'[s].items # members[s].items THEN <<>>
                 ELSE IF s = t THEN Append(turns[t], h) ELSE turns[s]]
  BY DEF OnPubMqTopicMsg
<1>4. ASSUME NEW s \in Topics, members'[s].items = members[s].items
      PROVE  members'[s] = IF s = t THEN Rotated(members[t]) ELSE members[s]
  <2>1. topics[s] = IF s = t THEN Rotated(members[t]) ELSE members[s]
    BY DEF FwdMaps, FwdTypes
  <2>2. Sound(Handles, topics[s]) /\ topics[s].items = members[s].items
    BY <2>1, RotatedSound DEF FwdMaps, FwdArrays
  <2>3. members'[s] = topics[s] \/ members'[s] = Delete(topics[s], h)
    BY DEF OnPubMqTopicMsg, Send, RemoveSession, Without
  <2>4. members'[s] = topics[s]  BY <1>4, <2>2, <2>3, SameItems
  <2>5. QED BY <2>1, <2>4
<1> HIDE DEF h
<1>5. ASSUME NEW s \in Topics
      PROVE  /\ \A i, j \in DOMAIN turns'[s] :
                   i < j /\ j - i < Len(members'[s].items) => turns'[s][i] # turns'[s][j]
             /\ \A j \in DOMAIN turns'[s] :
                   Len(turns'[s]) - j < Len(members'[s].items)
                     => turns'[s][j] = Behind(members'[s], Len(turns'[s]) - j)
  <2>1. CASE members'[s].items # members[s].items
    <3>1. turns'[s] = <<>>  BY <1>3, <2>1
    <3>2. DOMAIN turns'[s] = {}  BY <3>1
    <3>3. QED BY <3>2
  <2>2. CASE members'[s].items = members[s].items /\ s # t
    <3>1. turns'[s] = turns[s] /\ members'[s] = members[s]  BY <1>3, <1>4, <2>2
    <3>2. QED BY <3>1 DEF ServedInTurn, TurnsEndAtIndex
  <2>3. CASE members'[s].items = members[s].items /\ s = t
    <3> DEFINE a == members[t]
               T == turns[t]
               n == Len(T)
               size == Len(a.items)
    <3>1. turns'[s] = Append(T, h) /\ members'[s] = Rotated(a)  BY <1>3, <1>4, <2>3
    <3>2. T \in Seq(Handles) /\ n \in Nat  BY DEF FwdMaps, FwdTypes
    <3>3. size \in Nat /\ size > 0 /\ Rotated(a).items = a.items
      <4>1. a.items \in Seq(Handles)  BY <1>1 DEF Sound, ArrayOf
      <4>2. Rotated(a).items = a.items  BY <1>1, RotatedSound
      <4>3. size \in Nat /\ size > 0  BY <1>1, <4>1
      <4>4. QED BY <4>2, <4>3
    <3>4. /\ DOMAIN Append(T, h) = 1 .. n + 1 /\ Len(Append(T, h)) = n + 1
          /\ Append(T, h)[n + 1] = h /\ DOMAIN T = 1 .. n
          /\ \A i \in 1 .. n : Append(T, h)[i] = T[i]
      BY <1>2, <3>2
    <3>5. \A j \in 1 .. n : n - j < size => T[j] = Behind(a, n - j)
      BY <3>4 DEF TurnsEndAtIndex
    <3>6. \A i, j \in 1 .. n : i < j /\ j - i < size => T[i] # T[j]
      BY <3>4 DEF ServedInTurn
    <3>7. Behind(Rotated(a), 0) = h
      BY <1>1, <3>3, BehindRotated DEF h
    <3>8. ASSUME NEW j \in 1 .. n, n + 1 - j < size
          PROVE  /\ T[j] = Behind(Rotated(a), n + 1 - j)
                 /\ T[j] # h
      <4>1. n - j \in Nat /\ n - j < size /\ (n - j) + 1 = n + 1 - j /\ n + 1 - j \in Nat
            /\ n + 1 - j > 0
        BY <3>2, <3>3, <3>8
      <4>2. T[j] = Behind(a, n - j)  BY <3>5, <4>1
      <4>3. Behind(Rotated(a), (n - j) + 1) = Behind(a, n - j)
        BY <1>1, <3>8, <4>1, BehindRotated
      <4>4. Behind(Rotated(a), n + 1 - j) # h
        BY <1>1, <3>8, <4>1, BehindRotated DEF h
      <4>5. QED BY <4>1, <4>2, <4>3, <4>4
    <3> HIDE DEF a, T, n, size
    <3>9. ASSUME NEW i \in 1 .. n + 1, NEW j \in 1 .. n + 1, i < j, j - i < size
          PROVE  Append(T, h)[i] # Append(T, h)[j]
      <4>1. i \in 1 .. n  BY <3>2, <3>9
      <4>2. CASE j = n + 1
        <5>1. T[i] # h  BY <3>2, <3>8, <3>9, <4>1, <4>2
        <5>2. QED BY <3>4, <4>1, <4>2, <5>1
      <4>3. CASE j # n + 1
        <5>1. j \in 1 .. n  BY <3>2, <4>3
        <5>2. QED BY <3>4, <3>6, <3>9, <4>1, <5>1
      <4>4. QED BY <4>2, <4>3
    <3>10. ASSUME NEW j \in 1 .. n + 1, n + 1 - j < size
           PROVE  Append(T, h)[j] = Behind(Rotated(a), n + 1 - j)
      <4>1. CASE j = n + 1
        <5>1. n + 1 - j = 0  BY <3>2, <4>1
        <5>2. QED BY <3>4, <3>7, <4>1, <5>1
      <4>2. CASE j # n + 1
        <5>1. j \in 1 .. n  BY <3>2, <4>2
        <5>2. QED BY <3>4, <3>8, <3>10, <5>1
      <4>3. QED BY <4>1, <4>2
    <3>11. Len(members'[s].items) = size  BY <3>1, <3>3 DEF size
    <3> DEFINE T2 == Append(T, h)
    <3> HIDE DEF T2
    <3>12. /\ turns'[s] = T2 /\ DOMAIN T2 = 1 .. n + 1 /\ Len(T2) = n + 1
           /\ members'[s] = Rotated(a)
      BY <3>1, <3>4 DEF T2
    <3>13. /\ \A i, j \in 1 .. n + 1 : i < j /\ j - i < size => T2[i] # T2[j]
           /\ \A j \in 1 .. n + 1 : n + 1 - j < size => T2[j] = Behind(Rotated(a), n + 1 - j)
      BY <3>9, <3>10 DEF T2
    <3>14. ASSUME NEW i \in DOMAIN turns'[s], NEW j \in DOMAIN turns'[s],
                  i < j, j - i < Len(members'[s].items)
           PROVE  turns'[s][i] # turns'[s][j]
      <4>1. i \in 1 .. n + 1 /\ j \in 1 .. n + 1 /\ j - i < size  BY <3>11, <3>12, <3>14
      <4>2. T2[i] # T2[j]  BY <3>13, <3>14, <4>1
      <4>3. QED BY <3>12, <4>2
    <3>15. ASSUME NEW j \in DOMAIN turns'[s], Len(turns'[s]) - j < Len(members'[s].items)
           PROVE  turns'[s][j] = Behind(members'[s], Len(turns'[s]) - j)
      <4>0. Len(turns'[s]) = n + 1  BY <3>12, Zenon
      <4>1. j \in 1 .. n + 1 /\ n + 1 - j < size  BY <3>2, <3>3, <3>11, <3>12, <3>15, <4>0
      <4>2. T2[j] = Behind(Rotated(a), n + 1 - j)  BY <3>13, <4>1
      <4>3. turns'[s][j] = T2[j]  BY <3>12
      <4>4. Behind(members'[s], Len(turns'[s]) - j) = Behind(Rotated(a), n + 1 - j)
        <5>1. members'[s] = Rotated(a)  BY <3>12
        <5>2. Len(turns'[s]) - j = n + 1 - j  BY <3>2, <4>0, <4>1
        <5>3. QED BY <5>1, <5>2 DEF Behind
      <4>5. QED BY <4>2, <4>3, <4>4, Zenon
    <3>16. QED BY <3>14, <3>15
  <2>4. QED BY <2>1, <2>2, <2>3
<1>6. QED BY <1>5 DEF ServedInTurn, TurnsEndAtIndex

LEMMA TurnsStep ==
  ASSUME FwdMaps, ServedInTurn, TurnsEndAtIndex, [Next]_vars
  PROVE  ServedInTurn' /\ TurnsEndAtIndex'
<1>1. ASSUME turns' = TurnsAfter(members')
      PROVE  ServedInTurn' /\ TurnsEndAtIndex'
  BY <1>1, TurnsKept
<1>2. ASSUME turns' = turns, members' = members
      PROVE  ServedInTurn' /\ TurnsEndAtIndex'
  BY <1>2 DEF ServedInTurn, TurnsEndAtIndex
<1>3. ASSUME NEW h \in Handles, OnRegMqTopicReq(h)
      PROVE  turns' = TurnsAfter(members')
  BY <1>3 DEF OnRegMqTopicReq
<1>4. ASSUME OnExit
      PROVE  ServedInTurn' /\ TurnsEndAtIndex'
  <2>1. \A t \in Topics : turns'[t] = <<>> /\ DOMAIN turns'[t] = {}  BY <1>4 DEF OnExit
  <2>2. QED BY <2>1 DEF ServedInTurn, TurnsEndAtIndex
<1>5. QED
  BY <1>1, <1>2, <1>3, <1>4, TopicTurns
     DEF Next, vars, Connect, Break, OnNetworkError, OnPubMqAddrMsg, OnPubMqBroadcastMsg, PopStack

-----------------------------------------------------------------------------
(* The forwarder's sessions.                                               *)

FwdInv == FwdMaps /\ ServedInTurn /\ TurnsEndAtIndex

LEMMA FwdInvariant == Spec => []FwdInv
<1>1. Init => FwdInv
  <2> SUFFICES ASSUME Init PROVE FwdInv  OBVIOUS
  <2>1. \A t \in Topics : DOMAIN turns[t] = {}  BY DEF Init
  <2>2. ServedInTurn /\ TurnsEndAtIndex  BY <2>1 DEF ServedInTurn, TurnsEndAtIndex
  <2>3. QED BY <2>2, FwdMapsInit DEF FwdInv
<1>2. FwdInv /\ [Next]_vars => FwdInv'
  BY FwdMapsStep, TurnsStep DEF FwdInv
<1>3. QED BY <1>1, <1>2, PTL DEF Spec

(* However registrations, losses and broadcasts interleave, the three maps *)
(* of the forwarder describe the same sessions                             *)
(* (mq_forwarder_service.cpp:148-258).                                     *)
THEOREM ForwarderSessionsAgree == Spec => []SessionsAgree
<1>1. FwdInv => SessionsAgree
  <2> SUFFICES ASSUME FwdInv PROVE SessionsAgree  OBVIOUS
  <2>1. stack \in Seq(Handles)
    <3>1. stack \in Seq(broken) /\ broken \subseteq Handles  BY DEF FwdInv, FwdMaps, FwdTypes
    <3>2. QED BY <3>1
  <2>2. \A t \in Topics : members[t].nIndex < Len(members[t].items) \/ members[t].nIndex = 0
    BY DEF FwdInv, FwdMaps, FwdArrays, Sound, IndexInside
  <2>3. TypeOK  BY <2>1, <2>2 DEF FwdInv, FwdMaps, FwdTypes, ArrayOf, TypeOK
  <2>4. ASSUME NEW t \in Topics, NEW i \in DOMAIN members[t].items,
               NEW j \in DOMAIN members[t].items, members[t].items[i] = members[t].items[j]
        PROVE  i = j
    BY <2>4 DEF FwdInv, FwdMaps, FwdArrays, Sound, Once
  <2>5. QED BY <2>3, <2>4 DEF FwdInv, FwdMaps, OneSession, TopicsOfSessions, SessionsAgree
<1>2. QED BY <1>1, FwdInvariant, PTL

(* Messages of a topic go to its clients in turn                           *)
(* (mq_forwarder_service.cpp:260-286, type_array.inl).                     *)
THEOREM ForwarderServesInTurn == Spec => []ServedInTurn
<1>1. FwdInv => ServedInTurn  BY DEF FwdInv
<1>2. QED BY <1>1, FwdInvariant, PTL

(* No step unregisters a client but the loss of its own connection, a      *)
(* newer registration of its own, or the end of the service                *)
(* (mq_forwarder_service.cpp:148-226).                                     *)
THEOREM ForwarderKeepsRegistered == Spec => OnlyOwnLossUnregisters
<1> DEFINE Kept ==
      \A c \in Clients :
        byClient[c] # None /\ byClient'[c] # byClient[c]
          => \/ ~running'
             \/ byClient[c] \in broken
             \/ byClient'[c] # None /\ stage[byClient'[c]] = "joining"
<1>1. FwdInv /\ [Next]_vars => [Kept]_vars
  <2> SUFFICES ASSUME FwdMaps, Next, NEW c \in Clients, byClient[c] # None,
                      byClient'[c] # byClient[c]
               PROVE  \/ ~running'
                      \/ byClient[c] \in broken
                      \/ byClient'[c] # None /\ stage[byClient'[c]] = "joining"
    BY DEF FwdInv
  <2>1. ASSUME NEW h \in Handles, NEW topics, RemoveSession(h, topics), h \in broken
        PROVE  byClient[c] \in broken
    <3>1. byHandle[h] = c  BY <2>1 DEF RemoveSession
    <3>2. byClient[c] = h  BY <3>1 DEF FwdMaps, OneSession
    <3>3. QED BY <2>1, <3>2
  <2>2. ASSUME NEW h \in Handles, OnRegMqTopicReq(h)
        PROVE  byClient'[c] # None /\ stage[byClient'[c]] = "joining"
    <3>1. byClient'[c] = h /\ stage[h] = "joining"
      BY <2>2 DEF OnRegMqTopicReq, FwdMaps, FwdTypes
    <3>2. QED BY <3>1, NoneIsNone
  <2>3. ASSUME NEW t \in Topics, OnPubMqTopicMsg(t)
        PROVE  byClient[c] \in broken
    <3>1. Dealt(members[t]) \in Handles
      BY <2>3, DealtIsElement DEF OnPubMqTopicMsg, FwdMaps, FwdArrays
    <3>2. QED BY <2>1, <2>3, <3>1 DEF OnPubMqTopicMsg, Send
  <2>4. ASSUME NEW d \in Clients, OnPubMqAddrMsg(d)
        PROVE  byClient[c] \in broken
    <3>1. byClient[d] \in Handles  BY <2>4 DEF OnPubMqAddrMsg, FwdMaps, FwdTypes
    <3>2. QED BY <2>1, <2>4, <3>1 DEF OnPubMqAddrMsg, Send
  <2>5. ASSUME PopStack
        PROVE  byClient[c] \in broken
    <3>1. stack[Len(stack)] \in broken /\ broken \subseteq Handles
      <4>1. stack \in Seq(broken) /\ stack # <<>> /\ broken \subseteq Handles
        BY <2>5 DEF PopStack, FwdMaps, FwdTypes
      <4>2. QED BY <4>1
    <3>2. QED BY <2>1, <2>5, <3>1 DEF PopStack
  <2>6. ASSUME NEW h \in Handles, OnNetworkError(h)
        PROVE  byClient[c] \in broken
    BY <2>1, <2>6 DEF OnNetworkError
  <2>7. QED
    BY <2>2, <2>3, <2>4, <2>5, <2>6 DEF Next, Connect, Break, OnPubMqBroadcastMsg, OnExit
<1>2. QED BY <1>1, FwdInvariant, PTL DEF Spec, OnlyOwnLossUnregisters
=============================================================================
