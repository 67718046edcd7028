--------------------------- MODULE VbhCryptClient ---------------------------
(***************************************************************************)
(* CVbhCryptClientService, the client service with encrypted messages.  A  *)
(* request carries a random nonce, and every answer has to return it.      *)
(* Registrations and proposals collect endorsements as in VbhClient; the   *)
(* two queries ask one endorser.  A session is in the map of its kind,     *)
(* under its id, while its stage is "open" or "complete" (the user has its *)
(* answer, m_bCompleteRegistRsp); every session has a timer.               *)
(*                                                                         *)
(* One reactor thread: a handler is a step.  Nonces of different requests  *)
(* differ, so the request stands for its nonce.  "SYSTEM" stands for every *)
(* error but those of the network, of a nonce, and a refusal; an answer    *)
(* with it carries the code, or does not decrypt or decode.  The endorsers *)
(* are external.                                                           *)
(***************************************************************************)
EXTENDS Integers, Sequences, FiniteSets, SequencesExt

CONSTANTS
  EsCfg,         (* table ES_CFG ordered by PEER_ID: the endorser           *)
                 (* connection and the peer of each row                    *)
  Requests,      (* user requests that the behaviour may contain           *)
  Kinds,         (* the kinds of requests among them                       *)
  Contents,      (* what a chaincode may return as endorsement             *)
  Empty,         (* the empty string                                       *)
  Unset,         (* a field that nobody has written                        *)
  EndorseCount,  (* m_nEndorsePeerCount                                    *)
  SendFails,     (* connections on which SendHtsMsg may return an error    *)
  EncryptFails   (* whether vbhEncrypt may fail                            *)

(* What the user is answered, and what a code in an answer may be.         *)
Codes == {"OK", "SYSTEM", "NETWORK", "REFUSED", "NONCE", "TIMEOUT"}

ASSUME CountAssumption == EndorseCount \in Nat \ {0}
ASSUME ContentsAssumption == Contents \cap Codes = {}
ASSUME KindsAssumption == Kinds \subseteq {"regist", "unregist", "propose", "user", "trans"}
ASSUME FailsAssumption == EncryptFails \in BOOLEAN

VARIABLES
  svc,         (* "idle", "up", "crashed" or "exited"                      *)
  callback,    (* m_pCallback is set                                       *)
  bReady,      (* m_bReady                                                 *)
  told,        (* the last of OnReady, OnAbnormal, OnExit at the callback  *)
  connected,   (* connections in m_vbhPeerConnSumInfo                      *)
  nSessionID,  (* m_nSessionID                                             *)
  sess,        (* the session of each request                              *)
  net,         (* messages on the connections                              *)
  submits,     (* history: submit messages, with the votes behind them     *)
  cancels,     (* history: cancel messages                                 *)
  failedSends, (* history: requests whose sending failed half-way          *)
  out          (* what the user received for each request, in order        *)

sdk == <<callback, bReady, told>>
history == <<submits, cancels, failedSends>>
vars == <<svc, sdk, connected, nSessionID, sess, net, history, out>>

-----------------------------------------------------------------------------
(* The configuration: rows of one peer follow each other; a row with a new *)
(* PEER_ID opens the next peer of m_lstBcPeer.                             *)
LoadPeerInfo ==
  FoldLeft(LAMBDA peers, row :
             IF peers # <<>> /\ Last(peers).id = row.peer
             THEN [peers EXCEPT ![Len(peers)].handlers = @ \cup {row.h}]
             ELSE Append(peers, [id |-> row.peer, handlers |-> {row.h}]),
           <<>>, EsCfg)

Handlers == {EsCfg[i].h : i \in DOMAIN EsCfg}
GetPeerID(h) == (CHOOSE p \in ToSet(LoadPeerInfo) : h \in p.handlers).id
ConnectedPeers == {GetPeerID(h) : h \in connected}

(* n calls of GetMcpHandler: connections of n peers (module PeerPool).     *)
Dealings(n) ==
  {hs \in SUBSET connected :
     Cardinality(hs) = n /\ Cardinality({GetPeerID(h) : h \in hs}) = n}

-----------------------------------------------------------------------------
(* Sessions and messages.                                                  *)
Endorsed == {"regist", "propose"}
Queries == {"user", "trans"}
EsSessions == [h : Handlers, req : Requests]

ASSUME EsCfgAssumption == Len(EsCfg) \in Nat /\ DOMAIN EsCfg = 1 .. Len(EsCfg)
ASSUME UnsetAssumption == Unset \notin EsSessions

NoSession ==
  [stage |-> "none", kind |-> "regist", wait |-> FALSE, id |-> 0,
   arrHandle |-> {}, submitEs |-> Unset, nEsSessionID |-> Unset,
   content |-> Empty, votes |-> <<>>]

(* A new session; its m_nSucceedRspNum is the number of its votes.         *)
NewSession(kind, wait, hs, elected) ==
  [NoSession EXCEPT !.stage = "open", !.kind = kind, !.wait = wait,
                    !.id = nSessionID, !.arrHandle = hs,
                    !.submitEs = elected]

(* OnRelease: the session leaves the connections that it used.             *)
Released(s) == [NoSession EXCEPT !.stage = "done", !.kind = s.kind]

(* The session that the map of a kind has under an id.                     *)
Find(kind, id) ==
  {r \in Requests : /\ sess[r].stage \in {"open", "complete"}
                    /\ sess[r].kind = kind /\ sess[r].id = id}

Request(r, s, h) ==
  [type |-> "ask", h |-> h, id |-> s.id, nonce |-> r, kind |-> s.kind]
Answer(m, type, res) ==
  [type |-> type, h |-> m.h, id |-> m.id, nonce |-> m.nonce,
   kind |-> m.kind, res |-> res]
SubmitReq(r, s) ==
  [type |-> "submit", h |-> s.submitEs, id |-> s.id, nonce |-> r,
   kind |-> s.kind, es |-> s.nEsSessionID]

Reply(r, code) == out' = [out EXCEPT ![r] = Append(@, code)]

(* OnRegistUserResponse and its like at the end of a session; one that is  *)
(* complete has answered already.                                          *)
EndWith(ended, code) ==
  /\ sess' = [r \in Requests |-> IF r \in ended THEN Released(sess[r]) ELSE sess[r]]
  /\ out' = [r \in Requests |-> IF r \in ended /\ sess[r].stage = "open"
                                THEN Append(out[r], code) ELSE out[r]]

-----------------------------------------------------------------------------
(* Requests of the user.                                                   *)

(* Without enough peers, or when a key does not decode or a message does   *)
(* not encrypt, the handler answers and leaves no session.                 *)
RegistRefusals ==
  IF Cardinality(ConnectedPeers) < EndorseCount THEN {"NETWORK"}
  ELSE IF EncryptFails THEN {"SYSTEM"} ELSE {}
ProposeRefusals ==
  IF Cardinality(ConnectedPeers) < EndorseCount THEN {"NETWORK"} ELSE {"SYSTEM"}
GetUserInfoRefusals == {"SYSTEM"}
GetTransInfoRefusals == {"SYSTEM"}
UnRegistUser == {"SYSTEM"}

Refusals(kind) ==
  CASE kind = "regist" -> RegistRefusals
    [] kind = "propose" -> ProposeRefusals
    [] kind = "user" -> GetUserInfoRefusals
    [] kind = "trans" -> GetTransInfoRefusals
    [] kind = "unregist" -> UnRegistUser

CanAsk(r) == svc = "up" /\ callback /\ sess[r].stage = "none"

OnReqRefused(r, kind) ==
  /\ CanAsk(r)
  /\ \E code \in Refusals(kind) : Reply(r, code)
  /\ sess' = [sess EXCEPT ![r] = Released([NoSession EXCEPT !.kind = kind])]
  /\ UNCHANGED <<svc, sdk, connected, nSessionID, net, history>>

(* RegistUser, Propose: one of the connections, drawn at random, is to     *)
(* submit.  Propose never writes m_bWaitNotify, so a proposal waits for a  *)
(* notify or not whatever its user wants.                                  *)
OnReqSent(r, kind) ==
  /\ CanAsk(r) /\ kind \in Endorsed
  /\ \E hs \in Dealings(EndorseCount), wait \in BOOLEAN : \E elected \in hs :
       LET s == NewSession(kind, wait, hs, elected) IN
       /\ sess' = [sess EXCEPT ![r] = s]
       /\ net' = net \cup {Request(r, s, h) : h \in hs}
  /\ nSessionID' = nSessionID + 1
  /\ UNCHANGED <<svc, sdk, connected, history, out>>

(* A send fails after the request left on the connections of hs: OnNetError*)
(* answers, and so does the handler when it gets the error code; the id is *)
(* not used up.                                                            *)
OnReqSendFailed(r, kind) ==
  /\ CanAsk(r) /\ kind \in Endorsed
  /\ \E n \in 0 .. EndorseCount - 1 : \E hs \in Dealings(n), f \in SendFails :
       /\ f \notin hs /\ hs \cup {f} \in Dealings(n + 1)
       /\ Cardinality(ConnectedPeers) >= EndorseCount
       /\ LET s == NewSession(kind, FALSE, hs, f) IN
          /\ sess' = [sess EXCEPT ![r] = Released(s)]
          /\ net' = net \cup {Request(r, s, h) : h \in hs}
  /\ out' = [out EXCEPT ![r] = <<"NETWORK", "NETWORK">>]
  /\ failedSends' = failedSends \cup {r}
  /\ UNCHANGED <<svc, sdk, connected, nSessionID, submits, cancels>>

(* GetUserInfo, GetTransInfo.                                              *)
OnQuerySent(r, kind) ==
  /\ CanAsk(r) /\ kind \in Queries
  /\ \E h \in connected :
       LET s == NewSession(kind, FALSE, {h}, h) IN
       /\ sess' = [sess EXCEPT ![r] = s]
       /\ net' = net \cup {Request(r, s, h)}
  /\ nSessionID' = nSessionID + 1
  /\ UNCHANGED <<svc, sdk, connected, history, out>>

(* The send fails, or there is no connection and GetMcpHandler's NULL is   *)
(* used: an error if the framework tests for it, else a crash.             *)
OnQuerySendFailed(r, kind) ==
  /\ CanAsk(r) /\ kind \in Queries
  /\ SendFails \cap connected # {} \/ connected = {}
  /\ \/ /\ Reply(r, "NETWORK")
        /\ sess' = [sess EXCEPT ![r] = Released([NoSession EXCEPT !.kind = kind])]
        /\ UNCHANGED svc
     \/ /\ connected = {} /\ svc' = "crashed"
        /\ UNCHANGED <<sess, out>>
  /\ UNCHANGED <<sdk, connected, nSessionID, net, history>>

-----------------------------------------------------------------------------
(* Answers of endorsers.                                                   *)

(* Mutant: the nonce is not compared.                                      *)
Opened_NoNonce(m, r) == m.res

(* What an answer is once it is decrypted, decoded and its nonce compared; *)
(* error codes come in clear and are believed without a nonce.             *)
Opened(m, r) ==
  IF m.res \notin {"SYSTEM", "NETWORK"} /\ m.nonce # r THEN "NONCE" ELSE m.res

Agrees(s, content) == s.content \in {Empty, content}

(* The session after an endorsement that agrees was counted.               *)
Counted(s, m) ==
  [s EXCEPT !.content = IF @ = Empty THEN m.res ELSE @,
            !.votes = Append(@, [h |-> m.h, req |-> m.nonce, content |-> m.res]),
            !.nEsSessionID = IF m.h = s.submitEs
                             THEN [h |-> m.h, req |-> m.nonce] ELSE @]

(* Mutant: one endorsement too few.                                        *)
Enough_OneLess(s) == Len(s.votes) >= EndorseCount - 1

Enough(s) == Len(s.votes) >= EndorseCount

Submit(m, r, s) ==
  /\ net' = (net \ {m}) \cup {SubmitReq(r, s)}
  /\ submits' = submits \cup {[req |-> r, h |-> s.submitEs, es |-> s.nEsSessionID,
                               picked |-> s.arrHandle, votes |-> ToSet(s.votes)]}

(* An error ends the session, which is now s: cancel at the elected        *)
(* endorser unless it is of the network, answer the user and free the      *)
(* session.  A complete session ends the same way: this answer does not    *)
(* look at the flag.                                                       *)
EndorsementFails(r, s, code) ==
  /\ \/ /\ code # "NETWORK"
        /\ cancels' = cancels \cup {[req |-> r, h |-> s.submitEs,
                                     es |-> s.nEsSessionID]}
     \/ /\ code = "NETWORK" \/ EncryptFails
        /\ UNCHANGED cancels
  /\ sess' = [sess EXCEPT ![r] = Released(@)]
  /\ Reply(r, code)

NoSubmit(m) == net' = net \ {m} /\ UNCHANGED submits

(* CCryptRegistUserEsCltRsp.  The answer of the elected endorser has the   *)
(* parts of the user's key, which may not encode.                          *)
OnRegistUserRsp(m, r) ==
  LET code == Opened(m, r)
      s == Counted(sess[r], m)
      agreed == code \in Contents /\ Agrees(sess[r], m.res)
  IN
  \/ /\ agreed /\ ~Enough(s)
     /\ sess' = [sess EXCEPT ![r] = s]
     /\ NoSubmit(m)
     /\ UNCHANGED <<cancels, out>>
  \/ /\ agreed /\ Enough(s)
     /\ sess' = [sess EXCEPT ![r] = s]
     /\ Submit(m, r, s)
     /\ UNCHANGED <<cancels, out>>
  \/ /\ agreed
     /\ \/ Enough(s) /\ s.submitEs \in SendFails /\ EndorsementFails(r, s, "NETWORK")
        \/ /\ EncryptFails /\ (Enough(s) \/ m.h = s.submitEs)
           /\ EndorsementFails(r, s, "SYSTEM")
     /\ NoSubmit(m)
  \/ /\ ~agreed
     /\ EndorsementFails(r, sess[r], IF code \in Contents THEN "SYSTEM" ELSE code)
     /\ NoSubmit(m)

(* CCryptSubmitProposalEsCltRsp: the count is tested even if this answer   *)
(* does not agree.                                                         *)
OnSubmitProposalRsp(m, r) ==
  LET code == Opened(m, r)
      agreed == code \in Contents /\ Agrees(sess[r], m.res)
      s == IF agreed THEN Counted(sess[r], m) ELSE sess[r]
      submit == code \in Contents /\ Enough(s)
  IN
  \/ /\ agreed
     /\ sess' = [sess EXCEPT ![r] = s]
     /\ IF submit THEN Submit(m, r, s) ELSE NoSubmit(m)
     /\ UNCHANGED <<cancels, out>>
  \/ /\ submit
     /\ \/ s.submitEs \in SendFails /\ EndorsementFails(r, s, "NETWORK")
        \/ EncryptFails /\ EndorsementFails(r, s, "SYSTEM")
     /\ NoSubmit(m)
  \/ /\ ~agreed
     /\ IF submit THEN Submit(m, r, s) ELSE NoSubmit(m)
     /\ EndorsementFails(r, s, IF code \in Contents THEN "SYSTEM" ELSE code)

(* An endorsement finds its session, or comes too late: a registration is  *)
(* then logged with a field read through the null pointer.                 *)
OnEndorsement(m) ==
  /\ svc = "up" /\ m.type = "endorsed"
  /\ \/ /\ \E r \in Find(m.kind, m.id) :
             \/ m.kind = "regist" /\ OnRegistUserRsp(m, r)
             \/ m.kind = "propose" /\ OnSubmitProposalRsp(m, r)
        /\ UNCHANGED svc
     \/ /\ Find(m.kind, m.id) = {}
        /\ svc' \in (IF m.kind = "regist" THEN {"up", "crashed"} ELSE {"up"})
        /\ NoSubmit(m)
        /\ UNCHANGED <<sess, cancels, out>>
  /\ UNCHANGED <<sdk, connected, nSessionID, failedSends>>

(* The answer to a submit: success answers the user, and the session stays *)
(* for the notify or is freed; any failure is left to the timer.           *)
OnSubmitRegistRsp(m, r) ==
  IF Opened(m, r) = "OK"
  THEN /\ sess' = [sess EXCEPT ![r] = IF @.wait THEN [@ EXCEPT !.stage = "complete"]
                                      ELSE Released(@)]
       /\ Reply(r, "OK")
  ELSE UNCHANGED <<sess, out>>

(* That of a proposal does the same in the map of proposals.               *)
OnSubmitProposalTransRsp(m, r) ==
  IF Opened(m, r) = "OK"
  THEN /\ Reply(r, "OK")
       /\ sess' = [sess EXCEPT ![r] = IF @.wait THEN [@ EXCEPT !.stage = "complete"]
                                      ELSE Released(@)]
  ELSE UNCHANGED <<sess, out>>

OnSubmitted(m) ==
  /\ svc = "up" /\ m.type = "submitted"
  /\ \/ \E r \in Find(m.kind, m.id) :
          \/ m.kind = "regist" /\ OnSubmitRegistRsp(m, r)
          \/ m.kind = "propose" /\ OnSubmitProposalTransRsp(m, r)
     \/ Find(m.kind, m.id) = {} /\ UNCHANGED <<sess, out>>
  /\ net' = net \ {m}
  /\ UNCHANGED <<svc, sdk, connected, nSessionID, history>>

(* The answer to a query takes the session out of its map, whatever it     *)
(* says, and goes to the user.                                             *)
OnQueryUserRsp(m, r) ==
  /\ m.kind = "user"
  /\ sess' = [sess EXCEPT ![r] = Released(@)]
  /\ Reply(r, IF Opened(m, r) \in Contents THEN "OK" ELSE Opened(m, r))
OnQueryTransRsp(m, r) ==
  /\ m.kind = "trans"
  /\ sess' = [sess EXCEPT ![r] = Released(@)]
  /\ Reply(r, IF Opened(m, r) \in Contents THEN "OK" ELSE Opened(m, r))

OnQueryRsp(m) ==
  /\ svc = "up" /\ m.type = "info"
  /\ \/ \E r \in Find(m.kind, m.id) : OnQueryUserRsp(m, r) \/ OnQueryTransRsp(m, r)
     \/ Find(m.kind, m.id) = {} /\ UNCHANGED <<sess, out>>
  /\ net' = net \ {m}
  /\ UNCHANGED <<svc, sdk, connected, nSessionID, history>>

-----------------------------------------------------------------------------
(* Timers, connections, the callback, and the end of the service.          *)

(* Mutant: a session that has answered is timed out like any other.        *)
OnTimeOut_AnswersAgain(r) ==
  /\ svc = "up" /\ sess[r].stage \in {"open", "complete"}
  /\ sess' = [sess EXCEPT ![r] = Released(@)]
  /\ Reply(r, "TIMEOUT")
  /\ UNCHANGED <<svc, sdk, connected, nSessionID, net, history>>

OnTimeOut(r) ==
  /\ svc = "up" /\ sess[r].stage \in {"open", "complete"}
  /\ EndWith({r}, "TIMEOUT")
  /\ UNCHANGED <<svc, sdk, connected, nSessionID, net, history>>

(* The first connection of the first peer makes the service ready.         *)
OnConnectedNodify(h) ==
  /\ svc = "up" /\ h \notin connected
  /\ connected' = connected \cup {h}
  /\ IF connected = {}
     THEN /\ bReady' = TRUE
          /\ told' = IF callback THEN "ready" ELSE told
     ELSE UNCHANGED <<bReady, told>>
  /\ UNCHANGED <<svc, callback, nSessionID, sess, net, history, out>>

BrokenBy(h) == {r \in Requests : /\ sess[r].stage \in {"open", "complete"}
                                 /\ h \in sess[r].arrHandle}

(* A lost connection leaves the pool, its sessions end, and the loss of    *)
(* the last peer is told.                                                  *)
OnNetworkError(h) ==
  /\ svc = "up" /\ h \in connected
  /\ connected' = connected \ {h}
  /\ net' = {m \in net : m.h # h}
  /\ EndWith(BrokenBy(h), "NETWORK")
  /\ IF connected' = {}
     THEN /\ bReady' = FALSE
          /\ told' = IF callback THEN "abnormal" ELSE told
     ELSE UNCHANGED <<bReady, told>>
  /\ UNCHANGED <<svc, callback, nSessionID, history>>

(* Mutant: a callback that comes after the connections is not told.        *)
OnInitBcUserSdk_NotTold ==
  /\ svc = "up" /\ ~callback /\ callback' = TRUE
  /\ UNCHANGED <<svc, bReady, told, connected, nSessionID, sess, net, history, out>>

(* CInitBcUserSdk.                                                         *)
OnInitBcUserSdk ==
  /\ svc = "up" /\ ~callback /\ callback' = TRUE
  /\ told' = IF bReady THEN "ready" ELSE told
  /\ UNCHANGED <<svc, bReady, connected, nSessionID, sess, net, history, out>>

(* OnInit reads the configuration, which may be wrong, and starts to       *)
(* connect to every endorser.                                              *)
OnInit ==
  /\ svc = "idle" /\ svc' \in {"up", "exited"}
  /\ UNCHANGED <<sdk, connected, nSessionID, sess, net, history, out>>

(* OnExit frees the sessions and the pool and answers nobody.              *)
OnExit ==
  /\ svc = "up" /\ svc' = "exited"
  /\ sess' = [r \in Requests |-> IF sess[r].stage = "none" THEN NoSession
                                 ELSE Released(sess[r])]
  /\ connected' = {} /\ net' = {}
  /\ told' = IF callback THEN "exit" ELSE told
  /\ UNCHANGED <<callback, bReady, nSessionID, history, out>>

-----------------------------------------------------------------------------
(* The endorsers: each answers once what it is asked.                      *)
EndorserAnswers(m) ==
  /\ svc = "up" /\ m.type = "ask"
  /\ \E res \in Contents \cup {"SYSTEM", "NETWORK", "REFUSED"} :
       /\ res = "REFUSED" => m.kind = "regist"
       /\ net' = (net \ {m}) \cup
                 {Answer(m, IF m.kind \in Queries THEN "info" ELSE "endorsed", res)}
  /\ UNCHANGED <<svc, sdk, connected, nSessionID, sess, history, out>>

EndorserSubmits(m) ==
  /\ svc = "up" /\ m.type = "submit"
  /\ net' \in {(net \ {m}) \cup {Answer(m, "submitted", res)} :
                 res \in {"OK", "SYSTEM"}}
  /\ UNCHANGED <<svc, sdk, connected, nSessionID, sess, history, out>>

Init ==
  /\ svc = "idle" /\ callback = FALSE /\ bReady = FALSE /\ told = "nothing"
  /\ connected = {} /\ nSessionID = 0
  /\ sess = [r \in Requests |-> NoSession]
  /\ net = {} /\ submits = {} /\ cancels = {} /\ failedSends = {}
  /\ out = [r \in Requests |-> <<>>]

UserAsks ==
  \E r \in Requests, kind \in Kinds :
    \/ OnReqRefused(r, kind) \/ OnReqSent(r, kind) \/ OnReqSendFailed(r, kind)
    \/ OnQuerySent(r, kind) \/ OnQuerySendFailed(r, kind)

Next ==
  \/ OnInit \/ OnInitBcUserSdk \/ OnExit
  \/ UserAsks
  \/ \E m \in net : \/ OnEndorsement(m) \/ OnSubmitted(m) \/ OnQueryRsp(m)
                    \/ EndorserAnswers(m) \/ EndorserSubmits(m)
  \/ \E r \in Requests : OnTimeOut(r)
  \/ \E h \in Handlers : OnConnectedNodify(h) \/ OnNetworkError(h)

Spec == Init /\ [][Next]_vars
-----------------------------------------------------------------------------
(* Properties.                                                             *)

Votes == [h : Handlers, req : Requests, content : Contents]
Submits == [req : Requests, h : Handlers, es : EsSessions \cup {Unset},
            picked : SUBSET Handlers, votes : SUBSET Votes]
Session ==
  [stage : {"none", "open", "complete", "done"}, kind : Kinds \cup {"regist"},
   wait : BOOLEAN, id : Nat, arrHandle : SUBSET Handlers,
   submitEs : Handlers \cup {Unset}, nEsSessionID : EsSessions \cup {Unset},
   content : Contents \cup {Empty}, votes : Seq(Votes)]

Message ==
  [type : {"ask"}, h : Handlers, id : Nat, nonce : Requests, kind : Kinds] \cup
  [type : {"submit"}, h : Handlers, id : Nat, nonce : Requests, kind : Kinds,
   es : EsSessions \cup {Unset}] \cup
  [type : {"endorsed", "submitted", "info"}, h : Handlers, id : Nat,
   nonce : Requests, kind : Kinds,
   res : Contents \cup {"OK", "SYSTEM", "NETWORK", "REFUSED"}]

TypeOK ==
  /\ svc \in {"idle", "up", "crashed", "exited"}
  /\ callback \in BOOLEAN /\ bReady \in BOOLEAN
  /\ told \in {"nothing", "ready", "abnormal", "exit"}
  /\ connected \subseteq Handlers
  /\ nSessionID \in Nat
  /\ sess \in [Requests -> Session]
  /\ net \subseteq Message
  /\ submits \subseteq Submits
  /\ cancels \subseteq [req : Requests, h : Handlers, es : EsSessions \cup {Unset}]
  /\ failedSends \subseteq Requests
  /\ out \in [Requests -> Seq(Codes)]

(* The nonce ties every vote to its request even where the id does not: a  *)
(* submit names the session that the elected endorser opened for this      *)
(* request, each endorser asked voted for it, and no two non-empty votes   *)
(* differ, whatever sends failed before (lines 364-421 and 622-671).       *)
OwnEndorsement ==
  \A s \in submits :
    /\ s.es = [h |-> s.h, req |-> s.req]
    /\ \A h \in s.picked : \E v \in s.votes : v.h = h /\ v.req = s.req
    /\ \A v, w \in s.votes :
         v.content = w.content \/ Empty \in {v.content, w.content}

(* Unless an id was used twice after a failed send, no endorser session is *)
(* both submitted and cancelled (lines 405-488 and 652-722).               *)
SubmitOrCancel ==
  failedSends = {} =>
    \A s \in submits, c \in cancels : s.es = c.es => s.es = Unset

(* Unless a send failed half-way, a request has one answer, whichever of   *)
(* endorsers, submit, timer and lost connections comes first and whatever  *)
(* comes later; after such a failure it has two at most (lines 181-278).   *)
OneAnswer ==
  \A r \in Requests : Len(out[r]) <= (IF failedSends = {} THEN 1 ELSE 2)

(* A query never meets the answer to another one: ids of queries are not   *)
(* used twice, even when sends fail (lines 816-937, 1561-1586).            *)
QueriesHearOwn ==
  \A r \in Requests : sess[r].kind \in Queries => "NONCE" \notin ToSet(out[r])

(* The application knows whether there is a peer to ask, in whatever order *)
(* it registers its callback and connections come and go (lines 939-954,   *)
(* 1095-1133, 1228-1233).                                                  *)
SaysReady ==
  svc = "up" =>
    /\ bReady <=> connected # {}
    /\ callback => (told = "ready" <=> connected # {})

(* Sessions of all kinds: well formed, answered at most once, and queries  *)
(* never with the answer to another one.                                   *)
SessionsSound == TypeOK /\ OneAnswer /\ QueriesHearOwn

(* Until a send fails half-way, each step keeps the promise of UserCall: a *)
(* request is answered once, after it was made and while the service runs, *)
(* and several at once only by one event (lines 181-278, 405-488,          *)
(* 1135-1239).  Nobody is notified.                                        *)
Call == INSTANCE UserCall WITH
          up <- svc \in {"idle", "up"},
          asked <- {r \in Requests : sess[r].stage # "none"},
          waits <- {},
          out <- out

KeepsPromise ==
  /\ Call!Init
  /\ [][failedSends' = {} => UNCHANGED Call!vars \/ Call!Next]_vars
=============================================================================
