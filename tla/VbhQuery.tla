------------------------------ MODULE VbhQuery ------------------------------
(***************************************************************************)
(* The queries of CVbhClientService (user information, transaction) over   *)
(* the connections of PeerPool.  A query takes the next connection, sends  *)
(* one request on it and keeps a session until the answer, the timer or    *)
(* the loss of that connection; every outcome answers the caller.  Queries *)
(* of both kinds draw their ids from m_nSessionID and wait in a map of     *)
(* their own kind.                                                         *)
(***************************************************************************)
EXTENDS PeerPool

CONSTANT Callers     (* the requests of the application, m_nSrcSessionID    *)

Kinds == {"user", "transaction"}

VARIABLES
  asked,       (* requests the service received                            *)
  nSessionID,  (* m_nSessionID                                             *)
  sessions,    (* m_mapQueryUserSession, m_mapQueryTransSession            *)
  wire,        (* requests an endorser received and may answer             *)
  answers      (* answers sent to each caller: the code, and whose result  *)

queryVars == <<asked, nSessionID, sessions, wire, answers>>

(* A session in the map of its kind, with the connection of m_pHandleSession. *)
Session == [kind : Kinds, id : Nat, caller : Callers, handler : Handlers]

Answered(c, code, of) ==
  answers' = [answers EXCEPT ![c] = Append(@, [code |-> code, of |-> of])]

-----------------------------------------------------------------------------
(* LoadPeerInfo: the rows of ES_CFG, ordered by PEER_ID, become a list of  *)
(* peers; a row opens a new peer when its PEER_ID differs from the last.   *)
LoadPeerInfo(rows) ==
  LET AddRow(loaded, peer) ==
        LET h == loaded.next IN
        IF loaded.list # <<>> /\ Last(loaded.list).id = peer
        THEN [next |-> h + 1,
              list |-> [loaded.list EXCEPT ![Len(loaded.list)].handlers = Append(@, h)]]
        ELSE [next |-> h + 1, list |-> Append(loaded.list, [id |-> peer, handlers |-> <<h>>])]
  IN FoldLeft(AddRow, [next |-> 1, list |-> <<>>], rows).list

(* GetPeerID: the peer of the list that holds the handle id.               *)
GetPeerID(list, h) == (CHOOSE i \in DOMAIN list : h \in ToSet(list[i].handlers))
PeersById(list, h) == list[GetPeerID(list, h)].id

-----------------------------------------------------------------------------
(* A key that does not decode is answered at once.                         *)
OnUndecodable(c) ==
  /\ c \notin asked
  /\ asked' = asked \cup {c}
  /\ Answered(c, "decode_error", {})
  /\ UNCHANGED <<vars, nSessionID, sessions, wire>>

(* Mutant: two queries get the same id.                                    *)
OnQuery_SameID(c, kind) ==
  /\ c \notin asked
  /\ asked' = asked \cup {c}
  /\ GetMcpHandler
  /\ LET s == [kind |-> kind, id |-> nSessionID, caller |-> c, handler |-> Last(picks')] IN
       sessions' = sessions \cup {s} /\ wire' = wire \cup {s}
  /\ UNCHANGED <<nSessionID, answers>>

(* A query goes out on the next connection.  The service does not ask      *)
(* whether there is one: only calls that find a connection are modelled.   *)
OnQuery(c, kind) ==
  /\ c \notin asked
  /\ asked' = asked \cup {c}
  /\ GetMcpHandler
  /\ LET s == [kind |-> kind, id |-> nSessionID, caller |-> c, handler |-> Last(picks')] IN
       sessions' = sessions \cup {s} /\ wire' = wire \cup {s}
  /\ nSessionID' = nSessionID + 1
  /\ UNCHANGED answers

(* A query that cannot be sent is answered at once; its place in the       *)
(* rotation is used up, its id is not.                                     *)
OnQueryNotSent(c) ==
  /\ c \notin asked
  /\ asked' = asked \cup {c}
  /\ GetMcpHandler
  /\ Answered(c, "network_error", {})
  /\ UNCHANGED <<nSessionID, sessions, wire>>

(* The endorser's answer carries the id of the request; it reaches the     *)
(* session of that id, whatever the endorser's code, or nobody.            *)
OnHtsMsg(m) ==
  /\ m \in wire
  /\ wire' = wire \ {m}
  /\ LET found == {s \in sessions : s.kind = m.kind /\ s.id = m.id} IN
     IF found = {} THEN UNCHANGED <<sessions, answers>>
     ELSE LET s == CHOOSE s \in found : TRUE IN
          sessions' = sessions \ {s} /\ Answered(s.caller, "endorser", {m.caller})
  /\ UNCHANGED <<vars, asked, nSessionID>>

(* Mutant: the timer does nothing, as that of the wait-notify sessions.    *)
OnTimeOut_Nothing(s) == s \in sessions /\ UNCHANGED <<vars, queryVars>>

(* The timer of a session.  The answer may still come.                     *)
OnTimeOut(s) ==
  /\ s \in sessions
  /\ sessions' = sessions \ {s}
  /\ Answered(s.caller, "timeout", {})
  /\ UNCHANGED <<vars, asked, nSessionID, wire>>

(* Mutant: the sessions of a lost connection wait for their timers.        *)
OnNetError_Waits(h) ==
  /\ wire' = {m \in wire : m.handler # h}
  /\ UNCHANGED <<asked, nSessionID, sessions, answers>>

(* The sessions of a lost connection are answered and dropped; what was on *)
(* the connection is lost with it.                                         *)
OnNetError(h) ==
  LET hit == {s \in sessions : s.handler = h} IN
  /\ sessions' = sessions \ hit
  /\ answers' = [c \in Callers |->
                   answers[c] \o SetToSeq({[code |-> "network_error", of |-> {}] :
                                             s \in {s \in hit : s.caller = c}})]
  /\ wire' = {m \in wire : m.handler # h}
  /\ UNCHANGED <<asked, nSessionID>>

QueryInit ==
  /\ Init
  /\ asked = {} /\ nSessionID = 0 /\ sessions = {} /\ wire = {}
  /\ answers = [c \in Callers |-> <<>>]

(* GetMcpHandler alone is a pick of a registration or a proposal.          *)
QueryNext ==
  \/ \E h \in Handlers :
       \/ (OnFirstConnected(h) \/ OnNextConnected(h)) /\ UNCHANGED queryVars
       \/ (OnHandlerLost(h) \/ OnPeerLost(h)) /\ OnNetError(h)
  \/ GetMcpHandler /\ UNCHANGED queryVars
  \/ \E c \in Callers : OnUndecodable(c) \/ OnQueryNotSent(c)
  \/ \E c \in Callers, kind \in Kinds : OnQuery(c, kind)
  \/ \E m \in wire : OnHtsMsg(m)
  \/ \E s \in sessions : OnTimeOut(s)

QuerySpec == QueryInit /\ [][QueryNext]_<<vars, queryVars>>

(* The reactor fires the timer of a session that is not released.          *)
LiveQuerySpec ==
  /\ QuerySpec
  /\ \A c \in Callers :
       WF_<<vars, queryVars>>(\E s \in sessions : s.caller = c /\ OnTimeOut(s))

-----------------------------------------------------------------------------
(* Properties.                                                             *)

QueryTypeOK ==
  /\ TypeOK
  /\ asked \subseteq Callers
  /\ nSessionID \in Nat
  /\ sessions \subseteq Session /\ wire \subseteq Session
  /\ answers \in [Callers -> Seq([code : {"decode_error", "network_error", "endorser", "timeout"},
                                  of : SUBSET Callers])]

(* A caller gets one answer, and an endorser's answer only for its own     *)
(* query: ids are not used twice, whatever is sent, lost or late           *)
(* (lines 664-698 and 909-1034).                                           *)
HearsOwnOnce ==
  \A c \in Callers : /\ Len(answers[c]) <= 1
                     /\ \A i \in DOMAIN answers[c] : answers[c][i].of \subseteq {c}

(* A caller without an answer waits on a connection that is established:   *)
(* one that is lost takes none of its queries with it unanswered           *)
(* (lines 301-307, 332-338, 1177-1192).                                    *)
WaitsOnLive ==
  \A c \in asked : answers[c] = <<>> =>
    \E s \in sessions : s.caller = c /\ s.handler \in live

(* The service keeps the promise of UserCall: a query is answered once, by *)
(* an endorser, its timer or the loss of its connection, and every query   *)
(* is in the end, whether or not an endorser answers (lines 293-307,       *)
(* 325-338, 664-698).  The answer of an endorser is the "OK" of a query.   *)
Heard(c) == [i \in DOMAIN answers[c] |->
               IF answers[c][i].code = "endorser" THEN "OK" ELSE answers[c][i].code]

Call == INSTANCE UserCall WITH
          Requests <- Callers,
          Codes <- {"OK", "decode_error", "network_error", "timeout"},
          up <- TRUE,
          waits <- {},
          out <- [c \in Callers |-> Heard(c)]

KeepsPromise == Call!LiveSpec

(* The arrays and indices of the pool stay in range and mirror the         *)
(* connections while queries use them (lines 1036-1175).                   *)
PoolMirrors == QueryTypeOK /\ MirrorsConnections
=============================================================================
