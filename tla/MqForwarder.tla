---------------------------- MODULE MqForwarder ----------------------------
(***************************************************************************)
(* CMqForwarderService: clients register their topics over a connection,   *)
(* and messages are forwarded to one client of a topic in turn, to a       *)
(* client by its id, or to every client of a topic.  A client that         *)
(* reconnects may register before the forwarder notices that its earlier   *)
(* connection is gone, and two registrations of one client are read in     *)
(* either order.                                                           *)
(***************************************************************************)
EXTENDS TypeArray, FiniteSets

CONSTANTS
  Clients,    (* client ids                                                *)
  Handles,    (* connections                                               *)
  Topics,
  ClientOf,   (* the client that opens a connection                        *)
  TopicsOf,   (* the topics of a client's registration                     *)
  None,
  MaxTurns    (* bound: messages remembered since a topic last changed     *)

ASSUME HandlesAssumption ==
  /\ ClientOf \in [Handles -> Clients]
  /\ TopicsOf \in [Clients -> SUBSET Topics]
ASSUME NoneAssumption == None \notin Clients \cup Handles
ASSUME MaxTurnsAssumption == MaxTurns \in Nat

VARIABLES
  running,   (* the service has neither exited nor crashed                 *)
  stage,     (* of a connection: "new", its registration under way         *)
             (* "joining", "joined", or closed by the forwarder            *)
  broken,    (* connections that the client closed or lost                 *)
  byClient,  (* m_mapMqClientIDSession: the connection of the session      *)
  byHandle,  (* m_mapHandlerSession: the client of the session             *)
  members,   (* m_mapTopicSession: the items of a topic, as connections    *)
  stack,     (* m_stackMcpHandler: connections lost during a broadcast     *)
  turns      (* history: receivers since the items of the topic changed    *)

vars == <<running, stage, broken, byClient, byHandle, members, stack, turns>>

(* The handler of a broadcast runs until the stack is empty.               *)
Idle == running /\ stack = <<>>

Joined(h) == stage[h] \in {"joining", "joined"}

(* m_mapTopicSession without the items of a session.                       *)
Without(topics, h) == [t \in Topics |-> Delete(topics[t], h)]

(* The turns of the topics whose items have changed start anew.            *)
TurnsAfter(topics) ==
  [t \in Topics |-> IF topics[t] = members[t] THEN turns[t] ELSE <<>>]

-----------------------------------------------------------------------------
(* The agent of a client connects, once its earlier connections are gone   *)
(* on its side, and sends its registration.                                *)
Connect(h) ==
  /\ Idle /\ stage[h] = "new"
  /\ \A g \in Handles \ {h} : ClientOf[g] = ClientOf[h] => ~Joined(g) \/ g \in broken
  /\ stage' = [stage EXCEPT ![h] = "joining"]
  /\ UNCHANGED <<running, broken, byClient, byHandle, members, stack, turns>>

Break(h) ==
  /\ Joined(h)
  /\ broken' = broken \cup {h}
  /\ UNCHANGED <<running, stage, byClient, byHandle, members, stack, turns>>

(* Mutant: the session that is flushed stays in the map of connections.    *)
OnRegMqTopicReq_StaysInMap(h) ==
  LET c    == ClientOf[h]
      old  == byClient[c]
      left == Without(members, old)
      next == [t \in Topics |-> IF t \in TopicsOf[c] THEN Insert(left[t], h)
                                ELSE left[t]]
  IN /\ Idle /\ stage[h] = "joining"
     /\ stage' = [g \in Handles |-> IF g = h THEN "joined"
                                    ELSE IF g = old THEN "closed" ELSE stage[g]]
     /\ byClient' = [byClient EXCEPT ![c] = h]
     /\ byHandle' = [byHandle EXCEPT ![h] = c]
     /\ members' = next
     /\ turns' = TurnsAfter(next)
     /\ UNCHANGED <<running, broken, stack>>

(* A registration flushes the one before of the same client, and closes    *)
(* its connection.                                                         *)
OnRegMqTopicReq(h) ==
  LET c    == ClientOf[h]
      old  == byClient[c]
      left == Without(members, old)
      next == [t \in Topics |-> IF t \in TopicsOf[c] THEN Insert(left[t], h)
                                ELSE left[t]]
  IN /\ Idle /\ stage[h] = "joining"
     /\ stage' = [g \in Handles |-> IF g = h THEN "joined"
                                    ELSE IF g = old THEN "closed" ELSE stage[g]]
     /\ byClient' = [byClient EXCEPT ![c] = h]
     /\ byHandle' = [g \in Handles |-> IF g = h THEN c
                                       ELSE IF g = old THEN None ELSE byHandle[g]]
     /\ members' = next
     /\ turns' = TurnsAfter(next)
     /\ UNCHANGED <<running, broken, stack>>

(* Mutant: the session is looked for by the client of the connection.      *)
RemoveSession_ByClient(h, topics) ==
  /\ byClient' = [byClient EXCEPT ![ClientOf[h]] = None]
  /\ byHandle' = [byHandle EXCEPT ![h] = None]
  /\ members' = IF byHandle[h] = None THEN topics ELSE Without(topics, h)
  /\ stage' = [stage EXCEPT ![h] = "closed"]

(* OnNetworkError: the session of the connection, if there is one, leaves  *)
(* both maps and its topics.                                               *)
RemoveSession(h, topics) ==
  /\ byClient' = [c \in Clients |-> IF byHandle[h] = c THEN None ELSE byClient[c]]
  /\ byHandle' = [byHandle EXCEPT ![h] = None]
  /\ members' = IF byHandle[h] = None THEN topics ELSE Without(topics, h)
  /\ stage' = [stage EXCEPT ![h] = "closed"]

OnNetworkError(h) ==
  /\ Idle /\ h \in broken /\ Joined(h)
  /\ RemoveSession(h, members)
  /\ turns' = TurnsAfter(members')
  /\ UNCHANGED <<running, broken, stack>>

-----------------------------------------------------------------------------
(* Sending succeeds, or fails at once over a broken connection, which      *)
(* calls OnNetworkError from within the send.                              *)
Send(h, topics) ==
  \/ members' = topics /\ UNCHANGED <<stage, byClient, byHandle>>
  \/ h \in broken /\ RemoveSession(h, topics)

(* The next client of the topic gets the message.                          *)
OnPubMqTopicMsg(t) ==
  LET h == Dealt(members[t]) IN
  /\ Idle /\ members[t].items # <<>> /\ Len(turns[t]) < MaxTurns
  /\ Send(h, [members EXCEPT ![t] = Rotated(@)])
  /\ turns' = [s \in Topics |->
                 IF members'[s].items # members[s].items THEN <<>>
                 ELSE IF s = t THEN Append(turns[t], h) ELSE turns[s]]
  /\ UNCHANGED <<running, broken, stack>>

OnPubMqAddrMsg(c) ==
  /\ Idle /\ byClient[c] # None
  /\ Send(byClient[c], members)
  /\ turns' = TurnsAfter(members')
  /\ UNCHANGED <<running, broken, stack>>

(* Every item of the topic in turn is sent the message; connections whose  *)
(* send fails wait on the stack. Reading the top of an empty stack either  *)
(* ends the loop or the process.                                           *)
OnPubMqBroadcastMsg(t) ==
  /\ Idle /\ members[t].items # <<>>
  /\ \E n \in 0 .. Len(members[t].items) :
       \E lost \in [1 .. n -> Elements(members[t]) \cap broken] :
         /\ \A i, j \in 1 .. n : i < j => Place(members[t], lost[i]) < Place(members[t], lost[j])
         /\ stack' = lost
  /\ stack' # <<>> \/ running' \in BOOLEAN
  /\ stack' = <<>> \/ running' = running
  /\ UNCHANGED <<stage, broken, byClient, byHandle, members, turns>>

(* The loop after the broadcast.  The first connection is processed twice, *)
(* the second time without a session.                                      *)
PopStack ==
  /\ running /\ stack # <<>>
  /\ RemoveSession(stack[Len(stack)], members)
  /\ turns' = TurnsAfter(members')
  /\ stack' = SubSeq(stack, 1, Len(stack) - 1)
  /\ running' \in {TRUE, Len(stack) > 1}
  /\ UNCHANGED broken

(* Every registered client is told, and everything is freed.               *)
OnExit ==
  /\ Idle
  /\ running' = FALSE
  /\ byClient' = [c \in Clients |-> None]
  /\ byHandle' = [h \in Handles |-> None]
  /\ members' = [t \in Topics |-> EmptyArray]
  /\ turns' = [t \in Topics |-> <<>>]
  /\ UNCHANGED <<stage, broken, stack>>

Init ==
  /\ running = TRUE
  /\ stage = [h \in Handles |-> "new"]
  /\ broken = {}
  /\ byClient = [c \in Clients |-> None]
  /\ byHandle = [h \in Handles |-> None]
  /\ members = [t \in Topics |-> EmptyArray]
  /\ stack = <<>>
  /\ turns = [t \in Topics |-> <<>>]

Next ==
  \/ \E h \in Handles : Connect(h) \/ Break(h) \/ OnRegMqTopicReq(h) \/ OnNetworkError(h)
  \/ \E t \in Topics : OnPubMqTopicMsg(t) \/ OnPubMqBroadcastMsg(t)
  \/ \E c \in Clients : OnPubMqAddrMsg(c)
  \/ PopStack
  \/ OnExit

Spec == Init /\ [][Next]_vars

-----------------------------------------------------------------------------
(* Type of the variables of CMqForwarderService.                           *)
TypeOK ==
  /\ running \in BOOLEAN
  /\ stage \in [Handles -> {"new", "joining", "joined", "closed"}]
  /\ broken \subseteq Handles
  /\ byClient \in [Clients -> Handles \cup {None}]
  /\ byHandle \in [Handles -> Clients \cup {None}]
  /\ members \in [Topics -> [items : Seq(Handles), nIndex : Nat]]
  /\ stack \in Seq(Handles)
  /\ turns \in [Topics -> Seq(Handles)]
  /\ \A t \in Topics : members[t].nIndex < Len(members[t].items) \/ members[t].nIndex = 0

(* The three maps describe the same sessions: each client's session is that*)
(* of one open connection, which is known under this client and is in each *)
(* topic of its registration exactly once, and nothing else is in a topic  *)
(* (OnRegMqTopicReq against OnNetworkError of an earlier connection).      *)
SessionsAgree ==
  /\ TypeOK
  /\ \A c \in Clients, h \in Handles :
       byClient[c] = h <=> byHandle[h] = c
  /\ \A h \in Handles : byHandle[h] # None => stage[h] = "joined" /\ byHandle[h] = ClientOf[h]
  /\ \A t \in Topics :
       /\ Elements(members[t]) = {h \in Handles : byHandle[h] # None /\ t \in TopicsOf[ClientOf[h]]}
       /\ \A i, j \in DOMAIN members[t].items : members[t].items[i] = members[t].items[j] => i = j

(* While the clients of a topic stay the same, messages go to them in turn:*)
(* among as many messages as there are clients no one is served twice.     *)
ServedInTurn ==
  \A t \in Topics : \A i, j \in DOMAIN turns[t] :
    i < j /\ j - i < Len(members[t].items) => turns[t][i] # turns[t][j]

(* A registered client is unregistered only over a connection of its own   *)
(* that is gone, or by a newer registration of its own: the loss of its    *)
(* earlier connections, whenever noticed, leaves it registered.            *)
OnlyOwnLossUnregisters ==
  [][\A c \in Clients :
       byClient[c] # None /\ byClient'[c] # byClient[c]
         => \/ ~running'
            \/ byClient[c] \in broken
            \/ byClient'[c] # None /\ stage[byClient'[c]] = "joining"]_vars
=============================================================================
