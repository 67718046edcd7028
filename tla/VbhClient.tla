------------------------------ MODULE VbhClient ------------------------------
(***************************************************************************)
(* CVbhClientService, the client side of an endorsement.  A user asks to   *)
(* register or to propose a transaction; the service sends the request to  *)
(* EndorseCount endorser connections, counts the answers that agree, asks  *)
(* the endorser it elected to submit the transaction, answers the user     *)
(* and, if the user waits for it, forwards the final result.               *)
(*                                                                         *)
(* The service runs on one reactor thread: every handler is one step.      *)
(* Sessions sit in maps keyed by the session id the client chose; a        *)
(* session of stage "endorsing" or "waiting" is one that is in its map.    *)
(* The endorsers are not part of the repository: their actions come last   *)
(* and do no more than the client's handlers are written to expect.        *)
(***************************************************************************)
EXTENDS Integers, Sequences, FiniteSets

CONSTANTS
  Handlers,      (* endorser connections, one for each peer                *)
  Requests,      (* user requests that the behaviour may contain           *)
  Contents,      (* what a chaincode may return as endorsement             *)
  Empty,         (* the empty string, also the initial endorsement         *)
  Unset,         (* the value of a field that nobody has written           *)
  EndorseCount,  (* m_nEndorsePeerCount                                    *)
  SendFails      (* connections on which SendHtsMsg may return an error    *)

ASSUME CountAssumption == EndorseCount \in Nat \ {0}
ASSUME HandlersAssumption == IsFiniteSet(Handlers)
ASSUME SendAssumption == SendFails \subseteq Handlers
ASSUME UnsetAssumption == Unset \notin Handlers \cup [h : Handlers, req : Requests]

VARIABLES
  svc,        (* "up", "crashed" or "exited"                               *)
  connected,  (* connections in the peer pool                              *)
  nSessionID, (* the next session id                                       *)
  sess,       (* the session of each request                               *)
  net,        (* messages on the connections                               *)
  submits,    (* history: every submit message, with the votes behind it   *)
  nSubmits,   (* history: how many were sent for each request              *)
  cancels,    (* history: every cancel message                             *)
  out         (* what the user received for each request, in order         *)

vars == <<svc, connected, nSessionID, sess, net, submits, nSubmits, cancels, out>>

Kinds == {"regist", "propose"}
Failures == {"REFUSED", "SYSTEM", "NETWORK"}
EsSessions == [h : Handlers, req : Requests]
Votes == [h : Handlers, req : Requests, content : Contents]

Session ==
  [stage : {"none", "endorsing", "orphan", "waiting", "done"},
   kind : Kinds, wait : BOOLEAN, id : Nat,
   arrHandle : SUBSET Handlers,            (* m_arrHandleSession           *)
   submitEs : Handlers \cup {Unset},       (* m_pSubmitEsMcpHandleSession  *)
   nEsSessionID : EsSessions \cup {Unset}, (* m_nEsSessionID               *)
   nSucceedRspNum : Nat,                   (* m_nSucceedRspNum             *)
   content : Contents \cup {Empty},        (* m_ccGenerateUserInfo,
                                              m_transContent               *)
   votes : SUBSET Votes]                   (* history: answers counted     *)

NoSession ==
  [stage |-> "none", kind |-> "regist", wait |-> FALSE, id |-> 0,
   arrHandle |-> {}, submitEs |-> Unset, nEsSessionID |-> Unset,
   nSucceedRspNum |-> 0, content |-> Empty, votes |-> {}]

(* A session that was freed: only what identifies the request is kept.     *)
Freed(s) == [NoSession EXCEPT !.stage = "done", !.kind = s.kind,
                              !.wait = s.wait, !.id = s.id]

EndorseReq(r, s, h) ==
  [type |-> "endorse", h |-> h, id |-> s.id, req |-> r, kind |-> s.kind]
EndorseRsp(m, res) ==
  [type |-> "endorsed", h |-> m.h, id |-> m.id, req |-> m.req,
   kind |-> m.kind, res |-> res]
SubmitReq(s) ==
  [type |-> "submit", h |-> s.submitEs, id |-> s.id,
   es |-> s.nEsSessionID, kind |-> s.kind]
SubmitRsp(m, code) ==
  [type |-> "submitted", h |-> m.h, id |-> m.id, req |-> m.es.req,
   kind |-> m.kind, code |-> code]
TransNotify(m) ==
  [type |-> "notify", h |-> m.h, id |-> m.id, req |-> m.es.req,
   kind |-> m.kind]

(* The session a map finds under an id, as a set of at most one request.   *)
Find(kind, id, stage) ==
  {r \in Requests : /\ sess[r].stage = stage
                    /\ sess[r].kind = kind
                    /\ sess[r].id = id}

Reply(r, code) == out' = [out EXCEPT ![r] = Append(@, code)]

-----------------------------------------------------------------------------
(* Requests of the user: CRegistUserCltCltReq and CProposeCltCltReq.       *)

(* Mutant: the elected endorser is not recorded.                           *)
NewSession_NotElected(kind, wait, hs, h) ==
  [NoSession EXCEPT !.stage = "endorsing", !.kind = kind, !.wait = wait,
                    !.id = nSessionID, !.arrHandle = hs]

(* The session that a request opens on the connections of hs.              *)
NewSession(kind, wait, hs, h) ==
  [NoSession EXCEPT !.stage = "endorsing", !.kind = kind, !.wait = wait,
                    !.id = nSessionID, !.arrHandle = hs, !.submitEs = h]

(* Fewer peers than the endorsement needs, or a key that does not decode:  *)
(* the user is answered at once and no session is left.                    *)
OnReqRefused(kind, r, wait) ==
  /\ svc = "up" /\ sess[r].stage = "none"
  /\ \/ /\ Cardinality(connected) < EndorseCount
        /\ Reply(r, "NETWORK")
     \/ /\ Cardinality(connected) >= EndorseCount
        /\ kind = "propose"
        /\ Reply(r, "DECRYPT")
  /\ sess' = [sess EXCEPT ![r] = Freed([NoSession EXCEPT !.kind = kind,
                                                         !.wait = wait])]
  /\ UNCHANGED <<svc, connected, nSessionID, net, submits, nSubmits, cancels>>

(* Mutant: the session id is not consumed.                                 *)
OnReqSent_SameID(kind, r, wait) ==
  /\ svc = "up" /\ sess[r].stage = "none"
  /\ Cardinality(connected) >= EndorseCount
  /\ \E hs \in SUBSET connected :
       /\ Cardinality(hs) = EndorseCount
       /\ \E h \in hs :
            LET s == NewSession(kind, wait, hs, h) IN
            /\ sess' = [sess EXCEPT ![r] = s]
            /\ net' = net \cup {EndorseReq(r, s, x) : x \in hs}
  /\ UNCHANGED <<svc, connected, nSessionID, submits, nSubmits, cancels, out>>

(* GetMcpHandler deals EndorseCount connections of distinct peers, one of  *)
(* them, drawn at random, is to submit; the request goes out on each.      *)
OnReqSent(kind, r, wait) ==
  /\ svc = "up" /\ sess[r].stage = "none"
  /\ Cardinality(connected) >= EndorseCount
  /\ \E hs \in SUBSET connected :
       /\ Cardinality(hs) = EndorseCount
       /\ \E h \in hs :
            LET s == NewSession(kind, wait, hs, h) IN
            /\ sess' = [sess EXCEPT ![r] = s]
            /\ net' = net \cup {EndorseReq(r, s, x) : x \in hs}
  /\ nSessionID' = nSessionID + 1
  /\ UNCHANGED <<svc, connected, submits, nSubmits, cancels, out>>

(* Sending fails on connection f after the request left on those of hs:    *)
(* OnNetError frees the session, which was never in its map, and answers;  *)
(* then the handler answers again.  A proposal has not stored the address  *)
(* of its user yet, so its first answer reaches nobody.  The id is not     *)
(* consumed.                                                               *)
OnReqSendFailed(kind, r, wait) ==
  /\ svc = "up" /\ sess[r].stage = "none"
  /\ Cardinality(connected) >= EndorseCount
  /\ \E hs \in SUBSET connected, f \in SendFails \cap connected :
       /\ f \notin hs /\ Cardinality(hs) < EndorseCount
       /\ LET s == NewSession(kind, wait, hs, f) IN
          /\ net' = net \cup {EndorseReq(r, s, x) : x \in hs}
          /\ sess' = [sess EXCEPT ![r] = Freed(s)]
  /\ out' = [out EXCEPT ![r] = IF kind = "regist"
                               THEN <<"NETWORK", "NETWORK">>
                               ELSE <<"NETWORK">>]
  /\ UNCHANGED <<svc, connected, nSessionID, submits, nSubmits, cancels>>

-----------------------------------------------------------------------------
(* Endorsement answers: CRegistUserEsCltRsp and CSubmitProposalEsCltRsp.   *)

(* Mutant: the content is not compared.                                    *)
Agrees_Any(s, m) == m.res \in Contents

(* An endorsement agrees when it is the first, or equal to the first; the  *)
(* code takes it for the first while the stored content is empty.          *)
Agrees(s, m) == m.res \in Contents /\ s.content \in {Empty, m.res}

(* The session after an endorsement that agrees was counted.               *)
Counted(s, m) ==
  [s EXCEPT !.content = IF @ = Empty THEN m.res ELSE @,
            !.nSucceedRspNum = @ + 1,
            !.nEsSessionID = IF m.h = s.submitEs
                             THEN [h |-> m.h, req |-> m.req] ELSE @,
            !.votes = @ \cup {[h |-> m.h, req |-> m.req, content |-> m.res]}]

SubmitRecord(r, s) ==
  [req |-> r, h |-> s.submitEs, es |-> s.nEsSessionID,
   picked |-> s.arrHandle, votes |-> s.votes]
CancelRecord(r, s) ==
  [req |-> r, h |-> s.submitEs, es |-> s.nEsSessionID]

(* A submit leaves; the same one sent twice is counted twice.              *)
Submit(r, s) ==
  /\ submits' = submits \cup {SubmitRecord(r, s)}
  /\ nSubmits' = [nSubmits EXCEPT ![r] = @ + 1]

(* Not enough endorsements yet: wait for the next answer.                  *)
OnEndorsementCounted(m, r) ==
  /\ Agrees(sess[r], m)
  /\ sess[r].nSucceedRspNum + 1 < EndorseCount
  /\ sess' = [sess EXCEPT ![r] = Counted(sess[r], m)]
  /\ net' = net \ {m}
  /\ UNCHANGED <<svc, connected, nSessionID, submits, nSubmits, cancels, out>>

(* Mutant: one endorsement too few.                                        *)
OnEndorsed_OneLess(m, r) ==
  LET s == Counted(sess[r], m) IN
  /\ Agrees(sess[r], m)
  /\ s.nSucceedRspNum >= EndorseCount - 1
  /\ sess' = [sess EXCEPT ![r] = s]
  /\ net' = (net \ {m}) \cup {SubmitReq(s)}
  /\ Submit(r, s)
  /\ UNCHANGED <<svc, connected, nSessionID, cancels, out>>

(* Endorsed: ask the elected endorser to submit the transaction.           *)
OnEndorsed(m, r) ==
  LET s == Counted(sess[r], m) IN
  /\ Agrees(sess[r], m)
  /\ s.nSucceedRspNum >= EndorseCount
  /\ sess' = [sess EXCEPT ![r] = s]
  /\ net' = (net \ {m}) \cup {SubmitReq(s)}
  /\ Submit(r, s)
  /\ UNCHANGED <<svc, connected, nSessionID, cancels, out>>

(* Endorsed, but the submit message could not be sent: no cancel either.   *)
OnEndorsedSendFailed(m, r) ==
  /\ Agrees(sess[r], m)
  /\ sess[r].nSucceedRspNum + 1 >= EndorseCount
  /\ sess[r].submitEs \in SendFails
  /\ sess' = [sess EXCEPT ![r] = Freed(sess[r])]
  /\ net' = net \ {m}
  /\ Reply(r, "NETWORK")
  /\ UNCHANGED <<svc, connected, nSessionID, submits, nSubmits, cancels>>

(* The endorser refused or failed: cancel at the elected endorser, unless  *)
(* the failure is of the network, answer the user and free the session.    *)
OnEndorsementFailed(m, r) ==
  /\ m.res \in Failures
  /\ cancels' = IF m.res = "NETWORK" THEN cancels
                ELSE cancels \cup {CancelRecord(r, sess[r])}
  /\ sess' = [sess EXCEPT ![r] = Freed(sess[r])]
  /\ net' = net \ {m}
  /\ Reply(r, m.res)
  /\ UNCHANGED <<svc, connected, nSessionID, submits, nSubmits>>

(* The endorsement differs from the first one.  The handler of a proposal  *)
(* tests only the count before it submits, so a proposal that is already   *)
(* endorsed is submitted once more on its way to being cancelled.          *)
OnEndorsementDiffers(m, r) ==
  LET s == sess[r]
      again == s.kind = "propose" /\ s.nSucceedRspNum >= EndorseCount
  IN
  /\ m.res \in Contents /\ ~Agrees(s, m)
  /\ sess' = [sess EXCEPT ![r] = Freed(s)]
  /\ \/ /\ IF again THEN Submit(r, s) ELSE UNCHANGED <<submits, nSubmits>>
        /\ net' = (net \ {m}) \cup (IF again THEN {SubmitReq(s)} ELSE {})
        /\ cancels' = cancels \cup {CancelRecord(r, s)}
        /\ Reply(r, "SYSTEM")
     \/ /\ again /\ s.submitEs \in SendFails
        /\ net' = net \ {m}
        /\ Reply(r, "NETWORK")
        /\ UNCHANGED <<submits, nSubmits, cancels>>
  /\ UNCHANGED <<svc, connected, nSessionID>>

(* No session under that id.  A late proposal answer is logged.  A late    *)
(* registration answer is logged with a field of the session that was not  *)
(* found, a read through a null pointer.                                   *)
OnLateEndorsement(m) ==
  /\ Find(m.kind, m.id, "endorsing") = {}
  /\ svc' \in (IF m.kind = "regist" THEN {"up", "crashed"} ELSE {"up"})
  /\ net' = net \ {m}
  /\ UNCHANGED <<connected, nSessionID, sess, submits, nSubmits, cancels, out>>

OnEsCltRsp(m) ==
  /\ svc = "up" /\ m.type = "endorsed"
  /\ \/ \E r \in Find(m.kind, m.id, "endorsing") :
          \/ OnEndorsementCounted(m, r)
          \/ OnEndorsed(m, r)
          \/ OnEndorsedSendFailed(m, r)
          \/ OnEndorsementFailed(m, r)
          \/ OnEndorsementDiffers(m, r)
     \/ OnLateEndorsement(m)

-----------------------------------------------------------------------------
(* Answers to a submit, and the final result the user may wait for.        *)

(* Mutant: a failed submit cancels the timer.                              *)
AfterSubmit_NoTimer(s, code) ==
  IF code = "OK" /\ s.wait
  THEN [Freed(s) EXCEPT !.stage = "waiting", !.arrHandle = {s.submitEs},
                        !.submitEs = s.submitEs]
  ELSE Freed(s)

(* Mutant: the timer of an answered session stays armed.                   *)
AfterSubmit_StaleTimer(s, code) == [s EXCEPT !.stage = "orphan"]

(* The map entry goes whatever the answer says.  Success is answered to    *)
(* the user, and a session that waits for the result replaces this one.    *)
(* A failure leaves the session to its timer.                              *)
AfterSubmit(s, code) ==
  IF code # "OK" THEN [s EXCEPT !.stage = "orphan"]
  ELSE IF s.wait THEN [Freed(s) EXCEPT !.stage = "waiting",
                                       !.arrHandle = {s.submitEs},
                                       !.submitEs = s.submitEs]
  ELSE Freed(s)

(* Mutant: a submit that failed is sent once more.                         *)
OnSubmitEsCltRsp_Again(m) ==
  /\ svc = "up" /\ m.type = "submitted"
  /\ \E r \in Find(m.kind, m.id, "endorsing") :
       IF m.code = "OK"
       THEN /\ sess' = [sess EXCEPT ![r] = AfterSubmit(sess[r], m.code)]
            /\ Reply(r, "OK")
            /\ net' = net \ {m}
            /\ UNCHANGED <<submits, nSubmits>>
       ELSE /\ Submit(r, sess[r])
            /\ net' = (net \ {m}) \cup {SubmitReq(sess[r])}
            /\ UNCHANGED <<sess, out>>
  /\ UNCHANGED <<svc, connected, nSessionID, cancels>>

OnSubmitEsCltRsp(m) ==
  /\ svc = "up" /\ m.type = "submitted"
  /\ \/ \E r \in Find(m.kind, m.id, "endorsing") :
          /\ sess' = [sess EXCEPT ![r] = AfterSubmit(sess[r], m.code)]
          /\ IF m.code = "OK" THEN Reply(r, "OK") ELSE UNCHANGED out
     \/ /\ Find(m.kind, m.id, "endorsing") = {}
        /\ UNCHANGED <<sess, out>>
  /\ net' = net \ {m}
  /\ UNCHANGED <<svc, connected, nSessionID, submits, nSubmits, cancels>>

OnSubscribeNotify(m) ==
  /\ svc = "up" /\ m.type = "notify"
  /\ \A x \in net : ~(x.type = "submitted" /\ x.h = m.h /\ x.id = m.id)
  /\ \/ \E r \in Find(m.kind, m.id, "waiting") :
          /\ sess' = [sess EXCEPT ![r] = Freed(sess[r])]
          /\ Reply(r, "NOTIFY")
     \/ /\ Find(m.kind, m.id, "waiting") = {}
        /\ UNCHANGED <<sess, out>>
  /\ net' = net \ {m}
  /\ UNCHANGED <<svc, connected, nSessionID, submits, nSubmits, cancels>>

-----------------------------------------------------------------------------
(* Timers, connections and the end of the service.                         *)

(* OnTimer of a session; that of a waiting session is empty.               *)
OnTimeOut(r) ==
  /\ svc = "up"
  /\ sess[r].stage \in {"endorsing", "orphan"}
  /\ sess' = [sess EXCEPT ![r] = Freed(sess[r])]
  /\ Reply(r, "TIMEOUT")
  /\ UNCHANGED <<svc, connected, nSessionID, net, submits, nSubmits, cancels>>

OnConnectedNodify(h) ==
  /\ svc = "up" /\ h \notin connected
  /\ connected' = connected \cup {h}
  /\ UNCHANGED <<svc, nSessionID, sess, net, submits, nSubmits, cancels, out>>

(* Mutant: a session that left its map is not told.                        *)
BrokenBy_InMap(h) == {r \in Requests : /\ sess[r].stage = "endorsing"
                                       /\ h \in sess[r].arrHandle}

(* OnNetError of a session; that of a waiting session is empty.            *)
BrokenBy(h) == {r \in Requests : /\ sess[r].stage \in {"endorsing", "orphan"}
                                 /\ h \in sess[r].arrHandle}

(* The connection leaves the pool, its messages are lost, and every        *)
(* session that uses it is told.                                           *)
OnNetworkError(h) ==
  /\ svc = "up" /\ h \in connected
  /\ connected' = connected \ {h}
  /\ net' = {m \in net : m.h # h}
  /\ sess' = [r \in Requests |-> IF r \in BrokenBy(h) THEN Freed(sess[r])
                                 ELSE sess[r]]
  /\ out' = [r \in Requests |-> IF r \in BrokenBy(h)
                                THEN Append(out[r], "NETWORK") ELSE out[r]]
  /\ UNCHANGED <<svc, nSessionID, submits, nSubmits, cancels>>

(* OnExit frees the sessions and answers nobody.                           *)
OnExit ==
  /\ svc = "up"
  /\ svc' = "exited"
  /\ sess' = [r \in Requests |-> IF sess[r].stage = "none" THEN NoSession
                                 ELSE Freed(sess[r])]
  /\ net' = {}
  /\ connected' = {}
  /\ UNCHANGED <<nSessionID, submits, nSubmits, cancels, out>>

-----------------------------------------------------------------------------
(* The endorsers, as the handlers above expect them.                       *)

EndorserAnswers(m) ==
  /\ svc = "up" /\ m.type = "endorse"
  /\ \E res \in Contents \cup Failures :
       /\ res = "REFUSED" => m.kind = "regist"
       /\ net' = (net \ {m}) \cup {EndorseRsp(m, res)}
  /\ UNCHANGED <<svc, connected, nSessionID, sess, submits, nSubmits, cancels, out>>

(* A submit names the endorser's own session; one that names none is       *)
(* dropped.  A user who waits is notified of the result after the answer.  *)
EndorserSubmits(m) ==
  /\ svc = "up" /\ m.type = "submit"
  /\ \/ /\ m.es # Unset
        /\ \/ net' = (net \ {m}) \cup {SubmitRsp(m, "OK")} \cup
                 (IF sess[m.es.req].wait THEN {TransNotify(m)} ELSE {})
           \/ net' = (net \ {m}) \cup {SubmitRsp(m, "SYSTEM")}
     \/ /\ m.es = Unset
        /\ net' = net \ {m}
  /\ UNCHANGED <<svc, connected, nSessionID, sess, submits, nSubmits, cancels, out>>

-----------------------------------------------------------------------------
Init ==
  /\ svc = "up"
  /\ connected = {}
  /\ nSessionID = 0
  /\ sess = [r \in Requests |-> NoSession]
  /\ net = {} /\ submits = {} /\ cancels = {}
  /\ nSubmits = [r \in Requests |-> 0]
  /\ out = [r \in Requests |-> <<>>]

UserAsks ==
  \E r \in Requests, kind \in Kinds, wait \in BOOLEAN :
    \/ OnReqRefused(kind, r, wait)
    \/ OnReqSent(kind, r, wait)
    \/ OnReqSendFailed(kind, r, wait)

Next ==
  \/ UserAsks
  \/ \E m \in net : \/ OnEsCltRsp(m) \/ OnSubmitEsCltRsp(m)
                    \/ OnSubscribeNotify(m)
                    \/ EndorserAnswers(m) \/ EndorserSubmits(m)
  \/ \E r \in Requests : OnTimeOut(r)
  \/ \E h \in Handlers : OnConnectedNodify(h) \/ OnNetworkError(h)
  \/ OnExit

Spec == Init /\ [][Next]_vars

(* SetDscTimer arms a timer for every session, and the reactor runs it; a  *)
(* message that arrived is dispatched.  Nothing is assumed of endorsers or *)
(* connections.                                                            *)
Fairness ==
  /\ \A r \in Requests : WF_vars(OnTimeOut(r))
  /\ WF_vars(\E m \in net : OnEsCltRsp(m) \/ OnSubmitEsCltRsp(m)
                                \/ OnSubscribeNotify(m))
LiveSpec == Spec /\ Fairness

-----------------------------------------------------------------------------
(* Properties.                                                             *)

Message ==
  [type : {"endorse"}, h : Handlers, id : Nat, req : Requests, kind : Kinds]
  \cup [type : {"endorsed"}, h : Handlers, id : Nat, req : Requests,
        kind : Kinds, res : Contents \cup Failures]
  \cup [type : {"submit"}, h : Handlers, id : Nat,
        es : EsSessions \cup {Unset}, kind : Kinds]
  \cup [type : {"submitted"}, h : Handlers, id : Nat, req : Requests,
        kind : Kinds, code : {"OK", "SYSTEM"}]
  \cup [type : {"notify"}, h : Handlers, id : Nat, req : Requests,
        kind : Kinds]

Answers == {"OK", "NOTIFY", "NETWORK", "DECRYPT", "TIMEOUT", "REFUSED", "SYSTEM"}

TypeOK ==
  /\ svc \in {"up", "crashed", "exited"}
  /\ connected \subseteq Handlers
  /\ nSessionID \in Nat
  /\ sess \in [Requests -> Session]
  /\ net \subseteq Message
  /\ submits \subseteq [req : Requests, h : Handlers,
                       es : EsSessions \cup {Unset},
                       picked : SUBSET Handlers, votes : SUBSET Votes]
  /\ nSubmits \in [Requests -> Nat]
  /\ cancels \subseteq [req : Requests, h : Handlers,
                       es : EsSessions \cup {Unset}]
  /\ out \in [Requests -> Seq(Answers)]

(* What a submit message stands for (lines 379-387 and 554-560).  It names *)
(* the session that the elected endorser opened for this request;          *)
NamesEsSession(s) == s.es = [h |-> s.h, req |-> s.req]

(* each of the endorsers the request was sent to endorsed this request;    *)
EndorsedByPicked(s) ==
  \A h \in s.picked : \E v \in s.votes : v.h = h /\ v.req = s.req

(* and all of them returned one content.                                   *)
OneContent(s) == \A v, w \in s.votes : v.content = w.content

EndorsedSubmit ==
  \A s \in submits : NamesEsSession(s) /\ EndorsedByPicked(s) /\ OneContent(s)

(* At most one submit message leaves for a request, whatever answers still *)
(* arrive when it is endorsed (lines 379 and 554 test the count with >=).  *)
SubmittedOnce == \A r \in Requests : nSubmits[r] <= 1

(* Whatever fails, no submit counts two non-empty endorsements that differ *)
(* (lines 354-370 and 529-545).                                            *)
NoMixedEndorsement ==
  \A s \in submits : \A v, w \in s.votes :
    v.content = w.content \/ Empty \in {v.content, w.content}

(* An answer that the map lookup hands to a session was sent for the       *)
(* request of that session: session ids tell requests apart (lines 341,    *)
(* 437, 493 and their like for proposals).                                 *)
OwnAnswers ==
  \A m \in net :
    m.type \in {"endorsed", "submitted", "notify"} =>
      \A r \in Find(m.kind, m.id, "endorsing")
              \cup Find(m.kind, m.id, "waiting") : m.req = r

(* No endorser session is both submitted and cancelled by the client       *)
(* (lines 379-412).                                                        *)
SubmitOrCancel ==
  \A s \in submits, c \in cancels : s.es = c.es => s.es = Unset

(* A session that still owes an answer uses live connections only: a lost  *)
(* connection never leaves one behind (lines 1177-1189).                   *)
LinksConnected ==
  \A r \in Requests :
    sess[r].stage \in {"endorsing", "orphan"} =>
      sess[r].arrHandle \subseteq connected

(* Every request is answered, unless the service ends first: the timer     *)
(* that lines 776 and 895 arm, or an event before it, answers.             *)
AskedIsAnswered ==
  \A r \in Requests :
    sess[r].stage # "none" ~> (out[r] # <<>> \/ svc # "up")

(* What the sources say and the code does not do; the README tells why.    *)

(* "One request, two answers": the first returns the outcome of the        *)
(* request, the second the result that the user waits for (TODO.md, 8).    *)
OneAnswerAndResult ==
  \A r \in Requests :
    \/ Len(out[r]) < 2
    \/ out[r] = <<"OK", "NOTIFY">>

(* m_nSucceedRspNum counts the endorsers of the request that answered with *)
(* success (header, line 108): when it suffices, each of them did.         *)
CountsOwnEndorsers == \A s \in submits : EndorsedByPicked(s)

(* While every message can be sent, the service keeps the promise of       *)
(* UserCall: what a user receives for a request, and that it arrives.      *)
Call == INSTANCE UserCall WITH
          Codes <- Answers \ {"NOTIFY"},
          up <- svc = "up",
          asked <- {r \in Requests : sess[r].stage # "none"},
          waits <- {r \in Requests : sess[r].wait},
          out <- out

KeepsPromise == Call!LiveSpec
=============================================================================
