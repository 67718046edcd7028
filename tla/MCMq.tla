-------------------------------- MODULE MCMq --------------------------------
(* Instances of MqForwarder and P2pMq for TLC: a behaviour is one of the   *)
(* two. A forwarder with a client that reconnects twice and two that stay, *)
(* and two topics; or a node of p2p_mq and the two it is connected to,     *)
(* which are not connected to each other.                                  *)
EXTENDS MqForwarder, P2pMq

CONSTANTS k1, k2, k3, a1, a2, a3, b1, c1, topic1, topic2, n1, n2, n3

VARIABLE part  (* the way the messages go: through a forwarder, or not     *)

MCClients == {k1, k2, k3}
MCHandles == {a1, a2, a3, b1, c1}
MCClientOf == [h \in MCHandles |-> IF h = b1 THEN k2 ELSE IF h = c1 THEN k3 ELSE k1]
MCTopics == {topic1, topic2}
MCTopicsOf == [k \in MCClients |-> IF k = k2 THEN {topic1} ELSE MCTopics]
MCNodes == {n1, n2, n3}
MCOrder == <<n1, n2, n3>>

MCInit == part \in {"forwarder", "p2p"} /\ Init /\ P2pInit

MCNext ==
  \/ part = "forwarder" /\ Next /\ UNCHANGED <<part, p2pVars>>
  \/ part = "p2p" /\ P2pNext /\ {n2, n3} \notin linked' /\ UNCHANGED <<part, vars>>

MCSpec == MCInit /\ [][MCNext]_<<part, vars, p2pVars>>
=============================================================================
