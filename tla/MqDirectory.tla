---------------------------- MODULE MqDirectory ----------------------------
(***************************************************************************)
(* How the agents of the message queue (CMqClientSdkAgentService) learn    *)
(* the forwarders from the scheduler (CMqSchedulerService) and keep their  *)
(* connections to them.  The scheduler announces a forwarder; a forwarder  *)
(* that exits says so itself, over its own connections.  Any connection    *)
(* may break, forwarders crash, and the scheduler restarts.  The scheduler *)
(* notices the end of a forwarder's connection in its own time, perhaps    *)
(* after the forwarder registered on the next one.                         *)
(*                                                                         *)
(* Assumed of the environment: the library opens a lost connection anew,   *)
(* what was not read when a connection ends is lost, and a forwarder that  *)
(* exited is not started again before its farewell was read.  Handle       *)
(* numbers are never used twice, so only the handle of an agent's current  *)
(* connection matters.                                                     *)
(***************************************************************************)
EXTENDS TypeArray, FiniteSets

CONSTANTS
  Agents,
  Forwarders,
  Given,      (* the client id that an agent was started with, or 0        *)
  MaxFaults   (* bound: breaks, exits, crashes and restarts together       *)

ASSUME GivenAssumption == Given \in [Agents -> Nat]
ASSUME MaxFaultsAssumption == MaxFaults \in Nat

VARIABLES
  addrs,     (* m_setForwarderAddr of the scheduler                        *)
  handles,   (* m_setMqClientHandlerID, as the agents registered           *)
  lastID,    (* m_nClientID of the scheduler                               *)
  up,        (* forwarders that run                                        *)
  node,      (* a forwarder's connection to the scheduler: "none",         *)
             (* "joining" while its registration is under way, "joined"    *)
  unseen,     (* how many ends of its connections are not noticed yet       *)
  overtaken, (* history: forwarders that registered before the end of an   *)
             (* earlier connection was noticed, and are not listed since   *)
  asking,    (* agents whose CRegMqClientAddrReq is under way              *)
  inbox,     (* messages of the scheduler to an agent                      *)
  farewell,  (* <<forwarder, agent>>: a CDelFowrarderAddrNotify under way  *)
  id,        (* m_regMqTopicReq.m_nClientID of an agent                    *)
  known,     (* m_mapForwarderSession of an agent: "unknown", "waiting"    *)
             (* for a connection, or "connected"                           *)
  array,     (* m_handlerSessionArray of an agent                          *)
  said,      (* the last callback of an agent: "none", "ready", "abnormal" *)
  faults     (* how many faults happened                                   *)

scheduler == <<addrs, handles, lastID>>
forwarder == <<node, unseen, overtaken>>
agent == <<id, known, array, said>>
vars == <<scheduler, up, forwarder, asking, inbox, farewell, agent, faults>>

Fault == faults < MaxFaults /\ faults' = faults + 1

(* An agent that is connected to the scheduler.                            *)
Linked(a) == a \in asking \cup handles

(* Messages.  What carries no id leaves that of the agent alone.           *)
CRegMqClientAddrRsp(n, fs) == [clientID |-> n, forwarders |-> fs]
CAddForwarderAddrNotify(f) == [clientID |-> 0, forwarders |-> {f}]
CDelForwarderAddrNotify(f, a) == <<f, a>>

-----------------------------------------------------------------------------
(* The scheduler.  It allocates ids from 1, skipping the 0 of "no id".     *)
AllocClientID == lastID + 1

OnRegMqClientAddrReq(a) ==
  /\ a \in asking
  /\ asking' = asking \ {a}
  /\ handles' = handles \cup {a}
  /\ LET new == IF id[a] # 0 THEN id[a] ELSE AllocClientID
     IN inbox' = [inbox EXCEPT ![a] = Append(@, CRegMqClientAddrRsp(new, addrs))]
  /\ lastID' = IF id[a] # 0 THEN lastID ELSE AllocClientID
  /\ UNCHANGED <<addrs, up, forwarder, farewell, agent, faults>>

(* Mutant: agents are told only of a forwarder's first registration.       *)
OnRegistMqForwarderServiceReq_NotTold(f) ==
  /\ node[f] = "joining"
  /\ node' = [node EXCEPT ![f] = "joined"]
  /\ addrs' = addrs \cup {f} /\ overtaken' = overtaken \ {f}
  /\ UNCHANGED <<handles, lastID, up, unseen, asking, farewell, agent, faults, inbox>>

(* A forwarder that is not listed is, and is announced to every agent; the *)
(* registration of one that still is changes nothing.                      *)
OnRegistMqForwarderServiceReq(f) ==
  /\ node[f] = "joining"
  /\ node' = [node EXCEPT ![f] = "joined"]
  /\ \/ /\ f \notin addrs
        /\ addrs' = addrs \cup {f} /\ overtaken' = overtaken \ {f}
        /\ inbox' = [a \in Agents |->
             IF a \in handles THEN Append(inbox[a], CAddForwarderAddrNotify(f)) ELSE inbox[a]]
     \/ /\ f \in addrs
        /\ UNCHANGED <<addrs, overtaken, inbox>>
  /\ UNCHANGED <<handles, lastID, up, unseen, asking, farewell, agent, faults>>

(* The end of a forwarder's connection is noticed: whoever has its node    *)
(* type and id is taken off the list, be it registered anew or not.        *)
OnDisConnected(f) ==
  /\ unseen[f] > 0
  /\ unseen' = [unseen EXCEPT ![f] = @ - 1]
  /\ addrs' = addrs \ {f}
  /\ overtaken' = IF node[f] = "joined" THEN overtaken \cup {f} ELSE overtaken
  /\ UNCHANGED <<handles, lastID, up, node, asking, inbox, farewell, agent, faults>>

SchedulerRestarts ==
  /\ Fault
  /\ addrs' = {} /\ handles' = {} /\ lastID' = 0
  /\ node' = [f \in Forwarders |-> "none"] /\ unseen' = [f \in Forwarders |-> 0]
  /\ asking' = {} /\ inbox' = [a \in Agents |-> <<>>]
  /\ UNCHANGED <<up, overtaken, farewell, agent>>

-----------------------------------------------------------------------------
(* A forwarder registers whenever it is connected to the scheduler, which  *)
(* may not have noticed the end of its last connection.                    *)
OnConnected(f) ==
  /\ f \in up /\ node[f] = "none"
  /\ node' = [node EXCEPT ![f] = "joining"]
  /\ UNCHANGED <<scheduler, up, unseen, overtaken, asking, inbox, farewell, agent, faults>>

(* Its connection to the scheduler, if it has one, ends.                   *)
Ends(f) ==
  /\ node' = [node EXCEPT ![f] = "none"]
  /\ unseen' = [unseen EXCEPT ![f] = IF node[f] = "none" THEN @ ELSE @ + 1]
  /\ UNCHANGED overtaken

ForwarderDisconnected(f) ==
  /\ node[f] # "none" /\ Fault /\ Ends(f)
  /\ UNCHANGED <<scheduler, up, asking, inbox, farewell, agent>>

ForwarderStarts(f) ==
  /\ f \notin up /\ \A a \in Agents : <<f, a>> \notin farewell
  /\ up' = up \cup {f}
  /\ UNCHANGED <<scheduler, forwarder, asking, inbox, farewell, agent, faults>>

(* It exits with a farewell to the clients registered with it, or crashes. *)
ForwarderStops(f) ==
  /\ f \in up /\ Fault /\ Ends(f)
  /\ up' = up \ {f}
  /\ \/ UNCHANGED farewell
     \/ farewell' = farewell \cup {CDelForwarderAddrNotify(f, a) :
                                    a \in {x \in Agents : known[x][f] = "connected"}}
  /\ UNCHANGED <<scheduler, asking, inbox, agent>>

-----------------------------------------------------------------------------
(* An agent asks whenever it is connected to the scheduler.                *)
OnSchedulerConnected(a) ==
  /\ ~Linked(a)
  /\ asking' = asking \cup {a}
  /\ UNCHANGED <<scheduler, up, forwarder, inbox, farewell, agent, faults>>

OnSchedulerLost(a) ==
  /\ Linked(a) /\ Fault
  /\ asking' = asking \ {a} /\ handles' = handles \ {a}
  /\ inbox' = [inbox EXCEPT ![a] = <<>>]
  /\ UNCHANGED <<addrs, lastID, up, forwarder, farewell, agent>>

(* The answer of the scheduler, or an announcement: forwarders not in the  *)
(* map are added and connected to.                                         *)
OnForwarderAddrs(a) ==
  /\ inbox[a] # <<>>
  /\ LET msg == Head(inbox[a])
     IN /\ known' = [known EXCEPT ![a] = [f \in Forwarders |->
                        IF f \in msg.forwarders /\ @[f] = "unknown" THEN "waiting" ELSE @[f]]]
        /\ id' = [id EXCEPT ![a] = IF @ = 0 THEN msg.clientID ELSE @]
  /\ inbox' = [inbox EXCEPT ![a] = Tail(@)]
  /\ UNCHANGED <<scheduler, up, forwarder, asking, farewell, array, said, faults>>

(* Registers the topics with the forwarder.  The first connection makes    *)
(* the agent ready.                                                        *)
OnForwarderConnected(a, f) ==
  /\ known[a][f] = "waiting" /\ f \in up
  /\ known' = [known EXCEPT ![a][f] = "connected"]
  /\ array' = [array EXCEPT ![a] = Insert(@, f)]
  /\ said' = [said EXCEPT ![a] = IF Len(array'[a].items) = 1 THEN "ready" ELSE @]
  /\ UNCHANGED <<scheduler, up, forwarder, asking, inbox, farewell, id, faults>>

(* Mutant: a connection that is lost stays in the array.                   *)
OnForwarderLost_StaysInArray(a, f) ==
  /\ known[a][f] = "connected"
  /\ IF f \in up THEN Fault ELSE UNCHANGED faults
  /\ known' = [known EXCEPT ![a][f] = "waiting"]
  /\ said' = [said EXCEPT ![a] = IF array[a].items = <<>> THEN "abnormal" ELSE @]
  /\ farewell' = farewell \ {<<f, a>>}
  /\ UNCHANGED <<scheduler, up, forwarder, asking, inbox, id, array>>

(* OnNetworkError: the session stays, and the library connects again.      *)
OnForwarderLost(a, f) ==
  /\ known[a][f] = "connected"
  /\ IF f \in up THEN Fault ELSE UNCHANGED faults
  /\ known' = [known EXCEPT ![a][f] = "waiting"]
  /\ array' = [array EXCEPT ![a] = Delete(@, f)]
  /\ said' = [said EXCEPT ![a] = IF array'[a].items = <<>> THEN "abnormal" ELSE @]
  /\ farewell' = farewell \ {<<f, a>>}
  /\ UNCHANGED <<scheduler, up, forwarder, asking, inbox, id>>

(* The session is erased and its connection closed; nobody is told.        *)
OnDelForwarderAddr(a, f) ==
  /\ <<f, a>> \in farewell
  /\ farewell' = farewell \ {<<f, a>>}
  /\ known' = [known EXCEPT ![a][f] = "unknown"]
  /\ array' = [array EXCEPT ![a] = Delete(@, f)]
  /\ UNCHANGED <<scheduler, up, forwarder, asking, inbox, id, said, faults>>

(* A publication goes to the next forwarder.                               *)
SendDscMsg(a) ==
  /\ array[a].items # <<>>
  /\ array' = [array EXCEPT ![a] = Rotated(@)]
  /\ UNCHANGED <<scheduler, up, forwarder, asking, inbox, farewell, id, known, said, faults>>

SchedulerInit == addrs = {} /\ handles = {} /\ lastID = 0

ForwarderInit ==
  /\ up = {} /\ node = [f \in Forwarders |-> "none"] /\ farewell = {}
  /\ unseen = [f \in Forwarders |-> 0] /\ overtaken = {}

AgentInit ==
  /\ id = Given
  /\ known = [a \in Agents |-> [f \in Forwarders |-> "unknown"]]
  /\ array = [a \in Agents |-> EmptyArray]
  /\ said = [a \in Agents |-> "none"]
  /\ asking = {} /\ inbox = [a \in Agents |-> <<>>]

Init == SchedulerInit /\ ForwarderInit /\ AgentInit /\ faults = 0

AgentStep(a) ==
  \/ OnRegMqClientAddrReq(a) \/ OnSchedulerConnected(a) \/ OnForwarderAddrs(a)
  \/ \E f \in Forwarders : OnForwarderConnected(a, f) \/ OnDelForwarderAddr(a, f)

ForwarderStep(f) ==
  OnRegistMqForwarderServiceReq(f) \/ OnConnected(f) \/ OnDisConnected(f)

Next ==
  \/ \E a \in Agents : AgentStep(a) \/ OnSchedulerLost(a) \/ SendDscMsg(a)
  \/ \E f \in Forwarders : ForwarderStep(f) \/ ForwarderStarts(f) \/ ForwarderStops(f)
                           \/ ForwarderDisconnected(f)
  \/ \E a \in Agents, f \in Forwarders : OnForwarderLost(a, f)
  \/ SchedulerRestarts

(* Reactors read what arrives, the library connects, and the end of a      *)
(* connection or process is noticed.                                       *)
Fairness ==
  /\ \A a \in Agents :
       /\ WF_vars(OnRegMqClientAddrReq(a)) /\ WF_vars(OnSchedulerConnected(a))
       /\ WF_vars(OnForwarderAddrs(a))
       /\ \A f \in Forwarders :
            /\ WF_vars(OnForwarderConnected(a, f)) /\ WF_vars(OnDelForwarderAddr(a, f))
            /\ WF_vars(f \notin up /\ OnForwarderLost(a, f))
  /\ \A f \in Forwarders : WF_vars(ForwarderStep(f))

Spec == Init /\ [][Next]_vars /\ Fairness

-----------------------------------------------------------------------------
(* Types of the scheduler's and the agents' variables.                     *)
TypeOK ==
  /\ addrs \subseteq Forwarders /\ handles \subseteq Agents /\ lastID \in Nat
  /\ up \subseteq Forwarders
  /\ node \in [Forwarders -> {"none", "joining", "joined"}]
  /\ unseen \in [Forwarders -> Nat] /\ overtaken \subseteq Forwarders
  /\ asking \subseteq Agents
  /\ inbox \in [Agents -> Seq([clientID : Nat, forwarders : SUBSET Forwarders])]
  /\ farewell \subseteq Forwarders \X Agents
  /\ id \in [Agents -> Nat]
  /\ known \in [Agents -> [Forwarders -> {"unknown", "waiting", "connected"}]]
  /\ array \in [Agents -> [items : Seq(Forwarders), nIndex : Nat]]
  /\ said \in [Agents -> {"none", "ready", "abnormal"}]
  /\ faults \in 0 .. MaxFaults

(* SendDscMsg takes the connection of the session that the array deals: it *)
(* deals sessions that are connected, each in one place, and all of them.  *)
DealsConnected ==
  \A a \in Agents :
    /\ Elements(array[a]) = {f \in Forwarders : known[a][f] = "connected"}
    /\ Len(array[a].items) = Cardinality(Elements(array[a]))
    /\ array[a].nIndex < Len(array[a].items) \/ array[a].nIndex = 0

(* What OnReady and OnAbnormal tell the application: while a forwarder is  *)
(* connected the last word was "ready"; "abnormal" means there is none.    *)
SaysReady ==
  \A a \in Agents : array[a].items # <<>> => said[a] = "ready"

(* Once no connection breaks and no process stops, every agent ends up     *)
(* connected to every forwarder that runs, over restarts, farewells and    *)
(* late notices, with one exception that the code leaves: a forwarder      *)
(* whose registration was overtaken by the end of an earlier connection    *)
(* (mq_scheduler_service.cpp:85 ignores it, 143-168 takes it off the list).*)
Converges ==
  <>[](\A a \in Agents, f \in up \ overtaken : known[a][f] = "connected")

(* What an agent deals and what it says agree with its connections to the  *)
(* forwarders, over all restarts, farewells and losses.                    *)
AgentsAgree == TypeOK /\ DealsConnected /\ SaysReady
=============================================================================
