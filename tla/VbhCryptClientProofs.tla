------------------------ MODULE VbhCryptClientProofs ------------------------
(***************************************************************************)
(* The encrypted client service, proved: what a submit message stands for, *)
(* whatever sends fail; that nothing is both submitted and cancelled, and  *)
(* every request has one answer, unless a send failed half-way; that no    *)
(* query meets the answer to another; and that the application knows       *)
(* whether there is a peer.                                                *)
(***************************************************************************)
EXTENDS VbhCryptClient, FiniteSetTheorems, TLAPS

Live(s) == s.stage \in {"open", "complete"}
VotedBy(s) == {v.h : v \in ToSet(s.votes)}

(* The request that a message asks an endorser for, or answers to; and     *)
(* what is about the submit.                                               *)
Asking(m) == m.type \in {"ask", "endorsed", "info"}
Submitting(m) == m.type \in {"submit", "submitted"}

(* An id tells live sessions apart; it is used up with the request, unless *)
(* a send failed, and sends of queries use it up in any case.              *)
Own(m) == m.kind \in Queries \/ failedSends = {}
IdsOK ==
  /\ \A r \in Requests : Live(sess[r]) => sess[r].id < nSessionID
  /\ \A r, q \in Requests :
       Live(sess[r]) /\ Live(sess[q]) /\ sess[r].id = sess[q].id => r = q
  /\ \A m \in net : sess[m.nonce].stage # "none"
  /\ \A m \in net : Own(m) => m.id < nSessionID
  /\ \A m \in net, r \in Requests :
       Own(m) /\ Live(sess[r]) /\ sess[r].kind = m.kind /\ sess[r].id = m.id
         => m.nonce = r

(* What a session that collects endorsements holds.                        *)
VotesOK(r, s) ==
  /\ s.submitEs \in s.arrHandle
  /\ Cardinality(s.arrHandle) = EndorseCount
  /\ VotedBy(s) \subseteq s.arrHandle
  /\ Len(s.votes) = Cardinality(VotedBy(s))
  /\ \A v \in ToSet(s.votes) : v.req = r /\ v.content \in {Empty, s.content}
  /\ s.nEsSessionID \in {Unset, [h |-> s.submitEs, req |-> r]}
  /\ s.submitEs \in VotedBy(s) => s.nEsSessionID # Unset

(* The session has the votes of all that it asked.                         *)
Full(s) == s.kind \in Endorsed /\ VotedBy(s) = s.arrHandle

SessionsOK ==
  \A r \in Requests : Live(sess[r]) =>
    /\ sess[r].kind \in Endorsed => VotesOK(r, sess[r])
    /\ sess[r].stage = "complete" => Full(sess[r])

(* What is on its way for a live session: a question or an answer of each  *)
(* endorser that has not voted, or one submit for all votes.               *)
MessagesOK ==
  /\ \A m, n \in net : Asking(m) /\ Asking(n) /\ m.nonce = n.nonce /\ m.h = n.h => m = n
  /\ \A m, n \in net : Submitting(m) /\ Submitting(n) /\ m.nonce = n.nonce => m = n
  /\ \A m \in net : Asking(m) /\ Live(sess[m.nonce]) /\ sess[m.nonce].kind \in Endorsed =>
       m.h \in sess[m.nonce].arrHandle /\ m.h \notin VotedBy(sess[m.nonce])
  /\ \A m \in net : Submitting(m) /\ Live(sess[m.nonce]) =>
       sess[m.nonce].stage = "open" /\ Full(sess[m.nonce])

HistoryOK ==
  /\ \A t \in submits : /\ sess[t.req].stage # "none"
                        /\ Live(sess[t.req]) => Full(sess[t.req])
  /\ \A c \in cancels : /\ sess[c.req].stage = "done"
                        /\ c.es # Unset => c.es.req = c.req
  /\ failedSends = {} => \A t \in submits, c \in cancels : t.req # c.req

(* What the user has heard.                                                *)
OutOK ==
  \A r \in Requests :
    /\ sess[r].stage \in {"none", "open"} => out[r] = <<>>
    /\ sess[r].stage = "complete" => Len(out[r]) = 1
    /\ Len(out[r]) <= (IF failedSends = {} THEN 1 ELSE 2)
    /\ sess[r].kind \in Queries => "NONCE" \notin ToSet(out[r])

IInv ==
  /\ TypeOK /\ IdsOK /\ SessionsOK /\ MessagesOK /\ HistoryOK /\ OwnEndorsement

(* Before the start the application was told nothing.                      *)
ReadyInv ==
  /\ svc = "idle" => connected = {} /\ ~bReady /\ ~callback
  /\ svc \in {"idle", "up"} /\ ~callback => told = "nothing"
  /\ SaysReady

-----------------------------------------------------------------------------
(* What the model's operators give.                                        *)

LEMMA HandlersFinite == IsFiniteSet(Handlers)
<1>. DEFINE F == [i \in 1 .. Len(EsCfg) |-> EsCfg[i].h]
<1>1. Handlers = {F[i] : i \in 1 .. Len(EsCfg)}
  BY EsCfgAssumption DEF Handlers
<1>2. IsFiniteSet(1 .. Len(EsCfg))
  BY EsCfgAssumption, FS_Interval
<1>3. F \in Surjection(1 .. Len(EsCfg), Handlers)
  BY <1>1 DEF Surjection
<1>. QED  BY <1>2, <1>3, FS_Surjection

LEMMA VotedFinite ==
  ASSUME NEW s \in Session
  PROVE  IsFiniteSet(s.arrHandle) /\
         (VotedBy(s) \subseteq s.arrHandle => IsFiniteSet(VotedBy(s)))
<1>1. s.arrHandle \in SUBSET Handlers
  BY DEF Session
<1>2. IsFiniteSet(s.arrHandle)
  BY <1>1, FS_Subset, HandlersFinite
<1>. QED  BY <1>2, FS_Subset

LEMMA AppendSet ==
  ASSUME NEW S, NEW s \in Seq(S), NEW e \in S
  PROVE  /\ Append(s, e) \in Seq(S) /\ Len(Append(s, e)) = Len(s) + 1
         /\ ToSet(Append(s, e)) = ToSet(s) \cup {e}
<1>1. /\ Append(s, e) \in Seq(S) /\ Len(Append(s, e)) = Len(s) + 1
      /\ \A i \in 1 .. Len(s) : Append(s, e)[i] = s[i]
      /\ Append(s, e)[Len(s) + 1] = e
      /\ Len(s) \in Nat
  OBVIOUS
<1>2. DOMAIN Append(s, e) = 1 .. Len(s) + 1 /\ DOMAIN s = 1 .. Len(s)
  BY <1>1
<1>3. 1 .. Len(s) + 1 = (1 .. Len(s)) \cup {Len(s) + 1}
  BY <1>1
<1>. QED  BY <1>1, <1>2, <1>3 DEF ToSet

LEMMA EmptySet == ToSet(<<>>) = {} /\ Len(<<>>) = 0
BY DEF ToSet

LEMMA NoSessionType ==
  NoSession \in Session /\ NoSession.stage = "none" /\ NoSession.kind = "regist"
<1>1. <<>> \in Seq(Votes)
  OBVIOUS
<1>. QED  BY <1>1 DEF NoSession, Session

LEMMA NewSessionType ==
  ASSUME NEW kind \in Kinds, NEW wait \in BOOLEAN, NEW hs \in SUBSET Handlers,
         NEW h \in Handlers, nSessionID \in Nat
  PROVE  LET s == NewSession(kind, wait, hs, h) IN
         /\ s \in Session
         /\ s.stage = "open" /\ s.kind = kind /\ s.id = nSessionID
         /\ s.arrHandle = hs /\ s.submitEs = h /\ s.nEsSessionID = Unset
         /\ s.votes = <<>>
<1>1. <<>> \in Seq(Votes)
  OBVIOUS
<1>. QED  BY <1>1 DEF NewSession, NoSession, Session

LEMMA ReleasedType ==
  ASSUME NEW s, s.kind \in Kinds \cup {"regist"}
  PROVE  /\ Released(s) \in Session
         /\ Released(s).stage = "done" /\ Released(s).kind = s.kind
<1>1. <<>> \in Seq(Votes)
  OBVIOUS
<1>. QED  BY <1>1 DEF Released, NoSession, Session

LEMMA CompletedType ==
  ASSUME NEW s \in Session
  PROVE  LET c == [s EXCEPT !.stage = "complete"] IN
         /\ c \in Session /\ c.stage = "complete"
         /\ c.kind = s.kind /\ c.id = s.id /\ c.arrHandle = s.arrHandle
         /\ c.submitEs = s.submitEs /\ c.nEsSessionID = s.nEsSessionID
         /\ c.votes = s.votes /\ c.content = s.content
BY DEF Session

LEMMA CountedType ==
  ASSUME NEW s \in Session, NEW m \in Message, m.type = "endorsed",
         m.res \in Contents, Agrees(s, m.res)
  PROVE  LET c == Counted(s, m)
             v == [h |-> m.h, req |-> m.nonce, content |-> m.res] IN
         /\ c \in Session /\ v \in Votes
         /\ c.stage = s.stage /\ c.kind = s.kind /\ c.id = s.id
         /\ c.arrHandle = s.arrHandle /\ c.submitEs = s.submitEs
         /\ c.content = m.res \/ (c.content = s.content /\ s.content # Empty)
         /\ c.votes = Append(s.votes, v)
         /\ c.nEsSessionID = IF m.h = s.submitEs THEN [h |-> m.h, req |-> m.nonce]
                             ELSE s.nEsSessionID
<1>1. m.h \in Handlers /\ m.nonce \in Requests
  BY DEF Message
<1>. DEFINE v == [h |-> m.h, req |-> m.nonce, content |-> m.res]
            e == [h |-> m.h, req |-> m.nonce]
            vs == Append(s.votes, v)
            es == IF m.h = s.submitEs THEN e ELSE s.nEsSessionID
            k == IF s.content = Empty THEN m.res ELSE s.content
            c == [s EXCEPT !.content = k, !.votes = vs, !.nEsSessionID = es]
<1>2. v \in Votes
  BY <1>1 DEF Votes
<1>3. vs \in Seq(Votes)
  BY <1>2 DEF Session
<1>4. e \in EsSessions
  BY <1>1 DEF EsSessions
<1>5. es \in EsSessions \cup {Unset} /\ k \in Contents \cup {Empty}
  BY <1>4 DEF Session
<1>6. Counted(s, m) = c
  BY DEF Counted, Session
<1>7. k = m.res \/ (k = s.content /\ s.content # Empty)
  OBVIOUS
<1>. HIDE DEF v, vs, es, k, e
<1>8. /\ c \in Session
      /\ c.stage = s.stage /\ c.kind = s.kind /\ c.id = s.id
      /\ c.arrHandle = s.arrHandle /\ c.submitEs = s.submitEs
      /\ c.content = k /\ c.votes = vs /\ c.nEsSessionID = es
  BY <1>3, <1>5 DEF Session
<1>. QED  BY <1>2, <1>6, <1>7, <1>8 DEF v, vs, es, e

LEMMA RequestType ==
  ASSUME NEW r \in Requests, NEW s \in Session, NEW h \in Handlers, s.kind \in Kinds
  PROVE  LET m == Request(r, s, h) IN
         /\ m \in Message
         /\ m.type = "ask" /\ m.id = s.id /\ m.nonce = r /\ m.h = h /\ m.kind = s.kind
BY DEF Request, Message, Session

LEMMA AnswerType ==
  ASSUME NEW m \in Message, NEW type \in {"endorsed", "submitted", "info"},
         NEW res \in Contents \cup {"OK", "SYSTEM", "NETWORK", "REFUSED"}
  PROVE  LET a == Answer(m, type, res) IN
         /\ a \in Message /\ a.type = type /\ a.id = m.id /\ a.nonce = m.nonce
         /\ a.h = m.h /\ a.kind = m.kind
BY DEF Answer, Message

LEMMA SubmitReqType ==
  ASSUME NEW r \in Requests, NEW s \in Session, s.submitEs \in Handlers, s.kind \in Kinds
  PROVE  LET m == SubmitReq(r, s) IN
         /\ m \in Message
         /\ m.type = "submit" /\ m.id = s.id /\ m.nonce = r /\ m.kind = s.kind
BY DEF SubmitReq, Message, Session

LEMMA MessageType ==
  ASSUME NEW m \in Message
  PROVE  /\ m.h \in Handlers /\ m.id \in Nat /\ m.nonce \in Requests /\ m.kind \in Kinds
         /\ m.type \in {"ask", "submit", "endorsed", "submitted", "info"}
         /\ m.type \in {"endorsed", "submitted", "info"} =>
              m.res \in Contents \cup {"OK", "SYSTEM", "NETWORK", "REFUSED"}
BY DEF Message

(* An answer that is opened is its own request's, or says an error.        *)
LEMMA OpenedType ==
  ASSUME NEW m \in Message, m.type \in {"endorsed", "submitted", "info"},
         NEW r \in Requests
  PROVE  /\ Opened(m, r) \in Contents => m.nonce = r /\ Opened(m, r) = m.res
         /\ Opened(m, r) \notin Contents => Opened(m, r) \in Codes
         /\ Opened(m, r) = "OK" => m.nonce = r
         /\ Opened(m, r) = "NONCE" => m.nonce # r
BY ContentsAssumption, MessageType DEF Opened, Codes

-----------------------------------------------------------------------------
(* An endorsement arrives at a session.                                    *)

LEMMA FoundType ==
  ASSUME TypeOK, NEW m \in net, NEW r \in Find(m.kind, m.id)
  PROVE  /\ m \in Message /\ r \in Requests /\ sess[r] \in Session
         /\ Live(sess[r]) /\ sess[r].kind = m.kind /\ sess[r].id = m.id
         /\ sess[r].kind \in Kinds
<1>1. /\ m \in Message /\ r \in Requests /\ sess[r] \in Session
      /\ Live(sess[r]) /\ sess[r].kind = m.kind /\ sess[r].id = m.id
  BY DEF TypeOK, Find, Live
<1>. QED  BY <1>1, MessageType

(* If it is its own, the endorser was asked and has not voted yet, so the  *)
(* request is not endorsed, not answered and was not submitted.            *)
LEMMA Incoming ==
  ASSUME IInv, NEW m \in net, m.type = "endorsed", m.kind \in Endorsed,
         NEW r \in Find(m.kind, m.id), m.nonce = r
  PROVE  /\ m.h \in sess[r].arrHandle /\ m.h \notin VotedBy(sess[r])
         /\ ~Enough(sess[r]) /\ ~Full(sess[r]) /\ sess[r].stage = "open"
         /\ \A t \in submits : t.req # r
         /\ \A n \in net : Submitting(n) => n.nonce # r
<1>1. /\ r \in Requests /\ sess[r] \in Session /\ sess[r].kind = m.kind /\ Live(sess[r])
  BY FoundType DEF IInv
<1>2. m.h \in sess[r].arrHandle /\ m.h \notin VotedBy(sess[r])
  BY <1>1 DEF IInv, MessagesOK, Asking
<1>3. VotesOK(r, sess[r])
  BY <1>1 DEF IInv, SessionsOK
<1>4. ~Full(sess[r])
  BY <1>2 DEF Full
<1>5. /\ IsFiniteSet(sess[r].arrHandle) /\ VotedBy(sess[r]) \in SUBSET sess[r].arrHandle
      /\ VotedBy(sess[r]) # sess[r].arrHandle
  BY <1>1, <1>2, <1>3, VotedFinite DEF VotesOK
<1>6. /\ Cardinality(VotedBy(sess[r])) <= Cardinality(sess[r].arrHandle)
      /\ Cardinality(VotedBy(sess[r])) # Cardinality(sess[r].arrHandle)
  BY <1>5, FS_Subset
<1>7. Len(sess[r].votes) \in Nat
  BY <1>1 DEF Session
<1>8. ~Enough(sess[r])
  BY <1>3, <1>6, <1>7, CountAssumption DEF VotesOK, Enough
<1>9. sess[r].stage = "open"
  BY <1>1, <1>4 DEF IInv, SessionsOK, Live
<1>10. \A t \in submits : t.req # r
  BY <1>1, <1>4 DEF IInv, HistoryOK
<1>11. \A n \in net : Submitting(n) => n.nonce # r
  BY <1>1, <1>4 DEF IInv, MessagesOK
<1>. QED  BY <1>2, <1>4, <1>8, <1>9, <1>10, <1>11

(* What the two handlers do: they count the answer, submit with the last,  *)
(* or end the session.  The submit of an answer that fails, which the      *)
(* handler of proposals allows, does not happen.                           *)
Takes(m, r) ==
  /\ m.nonce = r /\ m.res \in Contents /\ Agrees(sess[r], m.res)
  /\ sess' = [sess EXCEPT ![r] = Counted(sess[r], m)]
  /\ UNCHANGED <<cancels, out>>
  /\ \/ NoSubmit(m)
     \/ Enough(Counted(sess[r], m)) /\ Submit(m, r, Counted(sess[r], m))

Refuses(m, r, s, code) ==
  /\ \/ s = sess[r]
     \/ /\ m.nonce = r /\ m.res \in Contents /\ Agrees(sess[r], m.res)
        /\ s = Counted(sess[r], m)
  /\ code = "NONCE" => m.nonce # r
  /\ EndorsementFails(r, s, code) /\ NoSubmit(m)

LEMMA TakesOrRefuses ==
  ASSUME IInv, NEW m \in net, m.type = "endorsed", NEW r \in Find(m.kind, m.id),
         \/ m.kind = "regist" /\ OnRegistUserRsp(m, r)
         \/ m.kind = "propose" /\ OnSubmitProposalRsp(m, r)
  PROVE  \/ Takes(m, r)
         \/ \E code \in Codes : \E s \in {sess[r], Counted(sess[r], m)} : Refuses(m, r, s, code)
<1>. DEFINE code == Opened(m, r)
            agreed == code \in Contents /\ Agrees(sess[r], m.res)
            c == Counted(sess[r], m)
            why == IF code \in Contents THEN "SYSTEM" ELSE code
<1>1. m \in Message /\ r \in Requests /\ m.kind \in Endorsed
  BY FoundType DEF IInv, Endorsed
<1>2. /\ code \in Contents => m.nonce = r /\ code = m.res
      /\ code \notin Contents => code \in Codes
      /\ code = "NONCE" => m.nonce # r
  BY <1>1, OpenedType
<1>3. code \in Contents => ~Enough(sess[r])
  BY <1>1, <1>2, Incoming
<1>4. /\ why \in Codes /\ (why = "NONCE" => m.nonce # r)
      /\ "SYSTEM" \in Codes /\ "NETWORK" \in Codes
  BY <1>2 DEF Codes
<1>5. agreed => m.nonce = r /\ m.res \in Contents /\ Agrees(sess[r], m.res)
  BY <1>2
<1>. HIDE DEF why
<1>6. CASE m.kind = "regist" /\ OnRegistUserRsp(m, r)
  <2>1. CASE agreed /\ ~Enough(c) /\ sess' = [sess EXCEPT ![r] = c]
             /\ NoSubmit(m) /\ UNCHANGED <<cancels, out>>
    BY <1>5, <2>1 DEF Takes
  <2>2. CASE agreed /\ Enough(c) /\ sess' = [sess EXCEPT ![r] = c]
             /\ Submit(m, r, c) /\ UNCHANGED <<cancels, out>>
    BY <1>5, <2>2 DEF Takes
  <2>3. CASE /\ agreed /\ NoSubmit(m)
             /\ EndorsementFails(r, c, "NETWORK") \/ EndorsementFails(r, c, "SYSTEM")
    BY <1>4, <1>5, <2>3 DEF Refuses
  <2>4. CASE ~agreed /\ EndorsementFails(r, sess[r], why) /\ NoSubmit(m)
    BY <1>4, <2>4 DEF Refuses
  <2>. QED  BY <1>6, <2>1, <2>2, <2>3, <2>4 DEF OnRegistUserRsp, why
<1>7. CASE m.kind = "propose" /\ OnSubmitProposalRsp(m, r)
  <2>1. CASE agreed /\ sess' = [sess EXCEPT ![r] = c] /\ UNCHANGED <<cancels, out>>
             /\ (IF Enough(c) THEN Submit(m, r, c) ELSE NoSubmit(m))
    BY <1>5, <2>1 DEF Takes
  <2>2. CASE /\ agreed /\ NoSubmit(m)
             /\ EndorsementFails(r, c, "NETWORK") \/ EndorsementFails(r, c, "SYSTEM")
    BY <1>4, <1>5, <2>2 DEF Refuses
  <2>3. CASE ~agreed /\ EndorsementFails(r, sess[r], why) /\ NoSubmit(m)
    BY <1>4, <2>3 DEF Refuses
  <2>. QED
    BY <1>3, <1>7, <2>1, <2>2, <2>3 DEF OnSubmitProposalRsp, why
<1>. QED
  BY <1>6, <1>7
-----------------------------------------------------------------------------
(* Every step keeps the types.                                             *)

LEMMA ReplyType ==
  ASSUME TypeOK, NEW r \in Requests, NEW code \in Codes, Reply(r, code)
  PROVE  out' \in [Requests -> Seq(Codes)]
BY DEF TypeOK, Reply

LEMMA OneSession ==
  ASSUME TypeOK, NEW r \in Requests, NEW s \in Session, sess' = [sess EXCEPT ![r] = s]
  PROVE  sess' \in [Requests -> Session]
BY DEF TypeOK

LEMMA KindType ==
  ASSUME TypeOK, NEW r \in Requests
  PROVE  /\ sess[r] \in Session /\ sess[r].kind \in Kinds \cup {"regist"}
         /\ Released(sess[r]) \in Session
         /\ Released(sess[r]).stage = "done" /\ Released(sess[r]).kind = sess[r].kind
<1>1. sess[r] \in Session /\ sess[r].kind \in Kinds \cup {"regist"}
  BY DEF TypeOK, Session
<1>. QED  BY <1>1, ReleasedType

LEMMA EndWithType ==
  ASSUME TypeOK, NEW ended \in SUBSET Requests, NEW code \in Codes, EndWith(ended, code)
  PROVE  sess' \in [Requests -> Session] /\ out' \in [Requests -> Seq(Codes)]
<1>1. sess' \in [Requests -> Session]
  BY KindType DEF EndWith
<1>2. \A r \in Requests : out[r] \in Seq(Codes) /\ Append(out[r], code) \in Seq(Codes)
  BY DEF TypeOK
<1>. QED  BY <1>1, <1>2 DEF EndWith

LEMMA SentTypes ==
  ASSUME NEW r \in Requests, NEW s \in Session, NEW hs \in SUBSET Handlers, s.kind \in Kinds
  PROVE  {Request(r, s, x) : x \in hs} \subseteq Message
BY RequestType

LEMMA TypeInit == Init => TypeOK
<1>. SUFFICES ASSUME Init PROVE TypeOK
  OBVIOUS
<1>1. sess \in [Requests -> Session]
  BY NoSessionType DEF Init
<1>2. <<>> \in Seq(Codes)
  OBVIOUS
<1>3. out \in [Requests -> Seq(Codes)]
  BY <1>2 DEF Init
<1>. QED  BY <1>1, <1>3 DEF Init, TypeOK

(* Without a session a request is refused, or cannot be sent.              *)
NoneOf(kind) == [NoSession EXCEPT !.kind = kind]

LEMMA NoneOfType ==
  ASSUME NEW kind \in Kinds
  PROVE  /\ Released(NoneOf(kind)) \in Session
         /\ Released(NoneOf(kind)).stage = "done"
         /\ Released(NoneOf(kind)).kind = kind
<1>1. NoneOf(kind).kind = kind
  BY DEF NoneOf, NoSession
<1>. QED  BY <1>1, ReleasedType

LEMMA RefusalTypes ==
  ASSUME NEW kind \in Kinds, NEW code \in Refusals(kind)
  PROVE  code \in {"NETWORK", "SYSTEM"}
BY KindsAssumption DEF Refusals, RegistRefusals, ProposeRefusals, GetUserInfoRefusals,
                       GetTransInfoRefusals, UnRegistUser

LEMMA TypeAsks ==
  ASSUME TypeOK, NEW r \in Requests, NEW kind \in Kinds,
         \/ OnReqRefused(r, kind) \/ OnReqSent(r, kind) \/ OnReqSendFailed(r, kind)
         \/ OnQuerySent(r, kind) \/ OnQuerySendFailed(r, kind)
  PROVE  TypeOK'
<1>0. /\ nSessionID \in Nat /\ connected \subseteq Handlers /\ net \subseteq Message
      /\ out \in [Requests -> Seq(Codes)] /\ sess \in [Requests -> Session]
  BY DEF TypeOK
<1>a. "SYSTEM" \in Codes /\ "NETWORK" \in Codes
  BY DEF Codes
<1>1. CASE OnReqRefused(r, kind)
  <2>1. sess' = [sess EXCEPT ![r] = Released(NoneOf(kind))]
    BY <1>1 DEF OnReqRefused, NoneOf
  <2>2. sess' \in [Requests -> Session]
    BY <2>1, NoneOfType, OneSession
  <2>3. out' \in [Requests -> Seq(Codes)]
    BY <1>1, <1>a, RefusalTypes, ReplyType DEF OnReqRefused
  <2>. QED  BY <1>1, <2>2, <2>3 DEF OnReqRefused, TypeOK, sdk, history
<1>2. ASSUME NEW hs \in SUBSET Handlers, NEW wait \in BOOLEAN, NEW elected \in hs,
             sess' = [sess EXCEPT ![r] = NewSession(kind, wait, hs, elected)],
             net' = net \cup {Request(r, NewSession(kind, wait, hs, elected), x) : x \in hs},
             nSessionID' = nSessionID + 1,
             UNCHANGED <<svc, sdk, connected, history, out>>
      PROVE  TypeOK'
  <2>. DEFINE s == NewSession(kind, wait, hs, elected)
  <2>1. s \in Session /\ s.kind = kind
    BY <1>0, NewSessionType
  <2>. HIDE DEF s
  <2>2. sess' \in [Requests -> Session]
    BY <1>2, <2>1, OneSession DEF s
  <2>3. net' \subseteq Message
    BY <1>0, <1>2, <2>1, SentTypes DEF s
  <2>. QED  BY <1>2, <2>2, <2>3 DEF TypeOK, sdk, history
<1>3. CASE OnReqSent(r, kind)
  <2>0. PICK hs \in Dealings(EndorseCount), wait \in BOOLEAN : \E elected \in hs :
          /\ sess' = [sess EXCEPT ![r] = NewSession(kind, wait, hs, elected)]
          /\ net' = net \cup {Request(r, NewSession(kind, wait, hs, elected), x) : x \in hs}
    BY <1>3 DEF OnReqSent
  <2>1. PICK elected \in hs :
          /\ sess' = [sess EXCEPT ![r] = NewSession(kind, wait, hs, elected)]
          /\ net' = net \cup {Request(r, NewSession(kind, wait, hs, elected), x) : x \in hs}
    BY <2>0
  <2>2. hs \in SUBSET Handlers
    BY <1>0 DEF Dealings
  <2>3. nSessionID' = nSessionID + 1 /\ UNCHANGED <<svc, sdk, connected, history, out>>
    BY <1>3 DEF OnReqSent
  <2>. QED  BY <1>2, <2>1, <2>2, <2>3
<1>4. CASE OnQuerySent(r, kind)
  <2>1. PICK h \in connected :
          /\ sess' = [sess EXCEPT ![r] = NewSession(kind, FALSE, {h}, h)]
          /\ net' = net \cup {Request(r, NewSession(kind, FALSE, {h}, h), h)}
    BY <1>4 DEF OnQuerySent
  <2>2. {Request(r, NewSession(kind, FALSE, {h}, h), h)} =
        {Request(r, NewSession(kind, FALSE, {h}, h), x) : x \in {h}}
    OBVIOUS
  <2>3. {h} \in SUBSET Handlers
    BY <1>0
  <2>. QED  BY <1>2, <1>4, <2>1, <2>2, <2>3 DEF OnQuerySent
<1>5. CASE OnReqSendFailed(r, kind)
  <2>1. PICK n \in 0 .. EndorseCount - 1 : \E hs \in Dealings(n), f \in SendFails :
          /\ hs \cup {f} \in Dealings(n + 1)
          /\ sess' = [sess EXCEPT ![r] = Released(NewSession(kind, FALSE, hs, f))]
          /\ net' = net \cup {Request(r, NewSession(kind, FALSE, hs, f), x) : x \in hs}
    BY <1>5 DEF OnReqSendFailed
  <2>2. PICK hs \in Dealings(n), f \in SendFails :
          /\ hs \cup {f} \in Dealings(n + 1)
          /\ sess' = [sess EXCEPT ![r] = Released(NewSession(kind, FALSE, hs, f))]
          /\ net' = net \cup {Request(r, NewSession(kind, FALSE, hs, f), x) : x \in hs}
    BY <2>1
  <2>a. hs \in SUBSET Handlers /\ f \in Handlers
    BY <1>0, <2>2 DEF Dealings
  <2>. DEFINE s == NewSession(kind, FALSE, hs, f)
  <2>3. s \in Session /\ s.kind = kind
    BY <1>0, <2>a, NewSessionType
  <2>. HIDE DEF s
  <2>4. Released(s) \in Session
    BY <2>3, ReleasedType
  <2>5. sess' \in [Requests -> Session]
    BY <2>2, <2>4, OneSession DEF s
  <2>6. net' \subseteq Message
    BY <1>0, <2>2, <2>a, <2>3, SentTypes DEF s
  <2>7. <<"NETWORK", "NETWORK">> \in Seq(Codes)
    BY <1>a
  <2>8. out' \in [Requests -> Seq(Codes)]
    BY <1>0, <1>5, <2>7 DEF OnReqSendFailed
  <2>. QED  BY <1>5, <2>5, <2>6, <2>8 DEF OnReqSendFailed, TypeOK, sdk
<1>6. CASE OnQuerySendFailed(r, kind)
  <2>1. sess' \in [Requests -> Session] /\ out' \in [Requests -> Seq(Codes)]
        /\ svc' \in {svc, "crashed"}
    <3>1. CASE Reply(r, "NETWORK") /\ UNCHANGED svc
               /\ sess' = [sess EXCEPT ![r] = Released(NoneOf(kind))]
      BY <1>a, <3>1, NoneOfType, OneSession, ReplyType
    <3>2. CASE svc' = "crashed" /\ UNCHANGED <<sess, out>>
      BY <1>0, <3>2
    <3>. QED  BY <1>6, <3>1, <3>2 DEF OnQuerySendFailed, NoneOf
  <2>. QED  BY <1>6, <2>1 DEF OnQuerySendFailed, TypeOK, sdk, history
<1>. QED  BY <1>1, <1>3, <1>4, <1>5, <1>6

SubmitRecord(r, s) ==
  [req |-> r, h |-> s.submitEs, es |-> s.nEsSessionID,
   picked |-> s.arrHandle, votes |-> ToSet(s.votes)]
CancelRecord(r, s) == [req |-> r, h |-> s.submitEs, es |-> s.nEsSessionID]
Cancels == [req : Requests, h : Handlers, es : EsSessions \cup {Unset}]

LEMMA RecordTypes ==
  ASSUME NEW r \in Requests, NEW s \in Session, s.submitEs \in Handlers
  PROVE  SubmitRecord(r, s) \in Submits /\ CancelRecord(r, s) \in Cancels
<1>1. ToSet(s.votes) \in SUBSET Votes
  BY DEF ToSet, Session
<1>. QED  BY <1>1 DEF SubmitRecord, CancelRecord, Submits, Cancels, Session

LEMMA TypeEndorsement ==
  ASSUME IInv, NEW m \in net, OnEndorsement(m)
  PROVE  TypeOK'
<1>0. /\ TypeOK /\ m.type = "endorsed" /\ net \subseteq Message
      /\ submits \subseteq Submits /\ cancels \subseteq Cancels
      /\ UNCHANGED <<sdk, connected, nSessionID, failedSends>>
  BY DEF IInv, TypeOK, OnEndorsement, Cancels
<1>1. ASSUME NEW r \in Find(m.kind, m.id), UNCHANGED svc,
             \/ m.kind = "regist" /\ OnRegistUserRsp(m, r)
             \/ m.kind = "propose" /\ OnSubmitProposalRsp(m, r)
      PROVE  TypeOK'
  <2>. DEFINE s == sess[r]
              c == Counted(sess[r], m)
  <2>1. /\ m \in Message /\ r \in Requests /\ s \in Session /\ Live(s)
        /\ s.kind \in Kinds /\ s.kind \in Endorsed
    BY <1>0, <1>1, FoundType DEF Endorsed
  <2>2. s.submitEs \in Handlers
    <3>1. s.submitEs \in s.arrHandle
      BY <2>1 DEF IInv, SessionsOK, VotesOK
    <3>. QED  BY <2>1, <3>1 DEF Session
  <2>3. m.res \in Contents /\ Agrees(s, m.res) =>
          c \in Session /\ c.submitEs \in Handlers /\ c.kind \in Kinds
    BY <1>0, <2>1, <2>2, CountedType
  <2>. HIDE DEF s, c
  <2>4. CASE Takes(m, r)
    <3>1. /\ m.res \in Contents /\ Agrees(s, m.res) /\ sess' = [sess EXCEPT ![r] = c]
          /\ UNCHANGED <<cancels, out>>
          /\ \/ NoSubmit(m)
             \/ Submit(m, r, c)
      BY <2>4 DEF Takes, s, c
    <3>2. sess' \in [Requests -> Session]
      BY <1>0, <2>1, <2>3, <3>1, OneSession
    <3>3. SubmitReq(r, c) \in Message /\ SubmitRecord(r, c) \in Submits
      BY <2>1, <2>3, <3>1, SubmitReqType, RecordTypes
    <3>4. net' \subseteq Message /\ submits' \subseteq Submits
      BY <1>0, <3>1, <3>3 DEF NoSubmit, Submit, SubmitRecord
    <3>. QED  BY <1>0, <1>1, <3>1, <3>2, <3>4 DEF TypeOK, sdk
  <2>5. ASSUME NEW code \in Codes, NEW e \in {s, c}, Refuses(m, r, e, code)
        PROVE  TypeOK'
    <3>1. e \in Session /\ e.submitEs \in Handlers
      BY <2>1, <2>2, <2>3, <2>5 DEF Refuses, s, c
    <3>2. CancelRecord(r, e) \in Cancels
      BY <2>1, <3>1, RecordTypes
    <3>3. cancels' \subseteq Cancels
      BY <1>0, <2>5, <3>2 DEF Refuses, EndorsementFails, CancelRecord
    <3>4. sess' \in [Requests -> Session]
      BY <1>0, <2>1, <2>5, KindType, OneSession DEF Refuses, EndorsementFails
    <3>5. out' \in [Requests -> Seq(Codes)]
      BY <1>0, <2>1, <2>5, ReplyType DEF Refuses, EndorsementFails
    <3>6. net' \subseteq Message /\ UNCHANGED submits
      BY <1>0, <2>5 DEF Refuses, NoSubmit
    <3>. QED  BY <1>0, <1>1, <3>3, <3>4, <3>5, <3>6 DEF TypeOK, sdk, Cancels
  <2>. QED  BY <1>0, <1>1, <2>4, <2>5, TakesOrRefuses DEF s, c
<1>2. ASSUME NoSubmit(m), svc' \in {"up", "crashed"}, UNCHANGED <<sess, cancels, out>>
      PROVE  TypeOK'
  BY <1>0, <1>2 DEF TypeOK, sdk, NoSubmit
<1>. QED  BY <1>1, <1>2 DEF OnEndorsement

(* A submit that succeeds answers, and completes or ends the session.      *)
LEMMA AfterSubmit ==
  ASSUME NEW m, NEW r, OnSubmitRegistRsp(m, r) \/ OnSubmitProposalTransRsp(m, r)
  PROVE  \/ UNCHANGED <<sess, out>>
         \/ /\ Opened(m, r) = "OK" /\ Reply(r, "OK")
            /\ \E e \in {[sess[r] EXCEPT !.stage = "complete"], Released(sess[r])} :
                 sess' = [sess EXCEPT ![r] = e]
BY DEF OnSubmitRegistRsp, OnSubmitProposalTransRsp

(* The answer to a query ends its session.                                 *)
LEMMA AfterQuery ==
  ASSUME NEW m \in Message, m.type = "info", NEW r \in Requests,
         OnQueryUserRsp(m, r) \/ OnQueryTransRsp(m, r)
  PROVE  /\ sess' = [sess EXCEPT ![r] = Released(sess[r])]
         /\ m.kind \in Queries
         /\ \E code \in Codes : Reply(r, code) /\ (code = "NONCE" => m.nonce # r)
<1>. DEFINE code == IF Opened(m, r) \in Contents THEN "OK" ELSE Opened(m, r)
<1>1. code \in Codes /\ (code = "NONCE" => m.nonce # r)
  BY OpenedType DEF Codes
<1>2. Reply(r, code)
  BY DEF OnQueryUserRsp, OnQueryTransRsp
<1>. QED  BY <1>1, <1>2 DEF OnQueryUserRsp, OnQueryTransRsp, Queries

LEMMA TypeAnswers ==
  ASSUME TypeOK, NEW m \in net,
         \/ OnSubmitted(m) \/ OnQueryRsp(m) \/ EndorserAnswers(m) \/ EndorserSubmits(m)
  PROVE  TypeOK'
<1>0. /\ m \in Message /\ net \subseteq Message
      /\ out \in [Requests -> Seq(Codes)] /\ sess \in [Requests -> Session]
      /\ \A r \in Find(m.kind, m.id) : r \in Requests
  BY DEF TypeOK, Find
<1>1. CASE OnSubmitted(m)
  <2>1. PICK r \in Requests : \/ UNCHANGED <<sess, out>>
                              \/ OnSubmitRegistRsp(m, r) \/ OnSubmitProposalTransRsp(m, r)
    BY <1>0, <1>1, MessageType DEF OnSubmitted
  <2>2. CASE UNCHANGED <<sess, out>>
    BY <1>0, <1>1, <2>2 DEF OnSubmitted, TypeOK, sdk, history
  <2>3. ASSUME Reply(r, "OK"),
               NEW e \in {[sess[r] EXCEPT !.stage = "complete"], Released(sess[r])},
               sess' = [sess EXCEPT ![r] = e]
        PROVE  TypeOK'
    <3>1. e \in Session
      BY <1>0, <2>3, KindType, CompletedType
    <3>2. sess' \in [Requests -> Session]
      BY <2>3, <3>1, OneSession
    <3>3. out' \in [Requests -> Seq(Codes)]
      BY <2>3, ReplyType DEF Codes
    <3>. QED  BY <1>0, <1>1, <3>2, <3>3 DEF OnSubmitted, TypeOK, sdk, history
  <2>. QED  BY <2>1, <2>2, <2>3, AfterSubmit
<1>2. CASE OnQueryRsp(m)
  <2>1. CASE UNCHANGED <<sess, out>>
    BY <1>0, <1>2, <2>1 DEF OnQueryRsp, TypeOK, sdk, history
  <2>2. ASSUME NEW r \in Requests, OnQueryUserRsp(m, r) \/ OnQueryTransRsp(m, r)
        PROVE  TypeOK'
    <3>1. /\ sess' = [sess EXCEPT ![r] = Released(sess[r])]
          /\ \E code \in Codes : Reply(r, code)
      BY <1>0, <1>2, <2>2, AfterQuery DEF OnQueryRsp
    <3>2. sess' \in [Requests -> Session]
      BY <3>1, KindType, OneSession
    <3>3. out' \in [Requests -> Seq(Codes)]
      BY <3>1, ReplyType
    <3>. QED  BY <1>0, <1>2, <3>2, <3>3 DEF OnQueryRsp, TypeOK, sdk, history
  <2>. QED  BY <1>0, <1>2, <2>1, <2>2 DEF OnQueryRsp
<1>3. CASE EndorserAnswers(m)
  <2>1. PICK res \in Contents \cup {"SYSTEM", "NETWORK", "REFUSED"} :
          net' = (net \ {m}) \cup
                 {Answer(m, IF m.kind \in Queries THEN "info" ELSE "endorsed", res)}
    BY <1>3 DEF EndorserAnswers
  <2>2. net' \subseteq Message
    BY <1>0, <2>1, AnswerType
  <2>. QED  BY <1>3, <2>2 DEF EndorserAnswers, TypeOK, sdk, history
<1>4. CASE EndorserSubmits(m)
  <2>1. PICK res \in {"OK", "SYSTEM"} : net' = (net \ {m}) \cup {Answer(m, "submitted", res)}
    BY <1>4 DEF EndorserSubmits
  <2>2. net' \subseteq Message
    BY <1>0, <2>1, AnswerType
  <2>. QED  BY <1>4, <2>2 DEF EndorserSubmits, TypeOK, sdk, history
<1>. QED  BY <1>1, <1>2, <1>3, <1>4

LEMMA TypeRest ==
  ASSUME TypeOK,
         \/ OnInit \/ OnInitBcUserSdk \/ OnExit
         \/ \E r \in Requests : OnTimeOut(r)
         \/ \E h \in Handlers : OnConnectedNodify(h) \/ OnNetworkError(h)
         \/ UNCHANGED vars
  PROVE  TypeOK'
<1>1. CASE OnInit
  BY <1>1 DEF OnInit, TypeOK, sdk, history
<1>2. CASE OnInitBcUserSdk
  <2>1. told' \in {"ready", told}
    BY <1>2 DEF OnInitBcUserSdk
  <2>. QED  BY <1>2, <2>1 DEF OnInitBcUserSdk, TypeOK, history
<1>3. CASE OnExit
  <2>1. sess' \in [Requests -> Session]
    BY <1>3, KindType, NoSessionType DEF OnExit
  <2>2. told' \in {"exit", told}
    BY <1>3 DEF OnExit
  <2>. QED  BY <1>3, <2>1, <2>2 DEF OnExit, TypeOK, history
<1>4. ASSUME NEW r \in Requests, OnTimeOut(r) PROVE TypeOK'
  <2>1. sess' \in [Requests -> Session] /\ out' \in [Requests -> Seq(Codes)]
    BY <1>4, EndWithType DEF OnTimeOut, Codes
  <2>. QED  BY <1>4, <2>1 DEF OnTimeOut, TypeOK, sdk, history
<1>5. ASSUME NEW h \in Handlers, OnConnectedNodify(h) PROVE TypeOK'
  <2>1. told' \in {"ready", told} /\ bReady' \in {TRUE, bReady}
    BY <1>5 DEF OnConnectedNodify
  <2>. QED  BY <1>5, <2>1 DEF OnConnectedNodify, TypeOK, history
<1>6. ASSUME NEW h \in Handlers, OnNetworkError(h) PROVE TypeOK'
  <2>1. told' \in {"abnormal", told} /\ bReady' \in {FALSE, bReady}
    BY <1>6 DEF OnNetworkError
  <2>2. sess' \in [Requests -> Session] /\ out' \in [Requests -> Seq(Codes)]
    BY <1>6, EndWithType DEF OnNetworkError, BrokenBy, Codes
  <2>. QED  BY <1>6, <2>1, <2>2 DEF OnNetworkError, TypeOK, history
<1>7. CASE UNCHANGED vars
  BY <1>7 DEF TypeOK, vars, sdk, history
<1>. QED  BY <1>1, <1>2, <1>3, <1>4, <1>5, <1>6, <1>7

LEMMA TypeNext == IInv /\ [Next]_vars => TypeOK'
<1>. SUFFICES ASSUME IInv, [Next]_vars PROVE TypeOK'
  OBVIOUS
<1>1. TypeOK
  BY DEF IInv
<1>. QED
  BY <1>1, TypeAsks, TypeEndorsement, TypeAnswers, TypeRest DEF Next, UserAsks

-----------------------------------------------------------------------------
(* Steps that create no session and count no vote: a session may end or    *)
(* complete, and messages may be lost.                                     *)

SameSession(s, t) ==
  /\ t.kind = s.kind /\ t.id = s.id /\ t.arrHandle = s.arrHandle
  /\ t.submitEs = s.submitEs /\ t.nEsSessionID = s.nEsSessionID
  /\ t.votes = s.votes /\ t.content = s.content

Completes(r) ==
  /\ Live(sess[r]) /\ Full(sess[r]) /\ sess'[r].stage = "complete"
  /\ SameSession(sess[r], sess'[r])
  /\ \A n \in net' : Submitting(n) => n.nonce # r

Settled(r) ==
  \/ sess'[r] = sess[r]
  \/ sess'[r].stage = "none" /\ sess[r].stage = "none"
  \/ sess'[r].stage = "done"
  \/ Completes(r)

(* A session that was not submitted may be cancelled as it ends.           *)
Cancelled(r, c) ==
  /\ sess'[r].stage = "done" /\ c.req = r
  /\ c.es # Unset => c.es.req = r
  /\ failedSends = {} => \A t \in submits : t.req # r

LEMMA SameVotes ==
  ASSUME NEW s, NEW t, SameSession(s, t)
  PROVE  /\ VotedBy(t) = VotedBy(s) /\ Full(t) = Full(s)
         /\ \A r : VotesOK(r, t) = VotesOK(r, s)
BY DEF SameSession, VotedBy, Full, VotesOK

LEMMA QuietStep ==
  ASSUME IInv, TypeOK', UNCHANGED <<nSessionID, submits, failedSends>>,
         net' \subseteq net, \A r \in Requests : Settled(r),
         \A c \in cancels' \ cancels : \E r \in Requests : Cancelled(r, c)
  PROVE  IInv'
<1>1. ASSUME NEW r \in Requests, Live(sess'[r])
      PROVE  /\ Live(sess[r]) /\ SameSession(sess[r], sess'[r])
             /\ sess'[r] = sess[r] \/ Completes(r)
  BY <1>1 DEF Settled, Completes, Live, SameSession
<1>2. ASSUME NEW r \in Requests, Live(sess'[r])
      PROVE  /\ VotedBy(sess'[r]) = VotedBy(sess[r])
             /\ Full(sess'[r]) = Full(sess[r])
             /\ VotesOK(r, sess'[r]) = VotesOK(r, sess[r])
  BY <1>1, <1>2, SameVotes
<1>3. \A r \in Requests : /\ sess[r].stage # "none" => sess'[r].stage # "none"
                          /\ sess[r].stage = "done" => sess'[r].stage = "done"
  BY DEF Settled, Completes, Live
<1>4. /\ \A m \in net : m \in Message /\ m.nonce \in Requests
      /\ IdsOK /\ SessionsOK /\ MessagesOK /\ HistoryOK /\ OwnEndorsement
  BY MessageType DEF IInv, TypeOK
<1>5. IdsOK'
  <2>1. (\A r \in Requests : Live(sess[r]) => sess[r].id < nSessionID)'
    BY <1>1, <1>4 DEF IdsOK, SameSession
  <2>2. (\A r, q \in Requests :
           Live(sess[r]) /\ Live(sess[q]) /\ sess[r].id = sess[q].id => r = q)'
    BY <1>1, <1>4 DEF IdsOK, SameSession
  <2>3. (\A m \in net : sess[m.nonce].stage # "none")'
    BY <1>3, <1>4 DEF IdsOK
  <2>4. (\A m \in net : Own(m) => m.id < nSessionID)'
    BY <1>4 DEF IdsOK, Own
  <2>5. (\A m \in net, r \in Requests :
           Own(m) /\ Live(sess[r]) /\ sess[r].kind = m.kind /\ sess[r].id = m.id
             => m.nonce = r)'
    BY <1>1, <1>4 DEF IdsOK, Own, SameSession
  <2>. QED  BY <2>1, <2>2, <2>3, <2>4, <2>5 DEF IdsOK
<1>6. SessionsOK'
  <2>. SUFFICES ASSUME NEW r \in Requests, Live(sess'[r])
                PROVE  /\ sess'[r].kind \in Endorsed => VotesOK(r, sess'[r])
                       /\ sess'[r].stage = "complete" => Full(sess'[r])
    BY DEF SessionsOK, Live, VotesOK, VotedBy, Full
  <2>1. sess'[r].kind \in Endorsed => VotesOK(r, sess'[r])
    BY <1>1, <1>2, <1>4 DEF SessionsOK, SameSession
  <2>2. sess'[r].stage = "complete" => Full(sess'[r])
    BY <1>1, <1>2, <1>4 DEF SessionsOK, Completes
  <2>. QED  BY <2>1, <2>2
<1>7. MessagesOK'
  <2>1. (\A m, n \in net : Asking(m) /\ Asking(n) /\ m.nonce = n.nonce /\ m.h = n.h => m = n)'
    BY <1>4 DEF MessagesOK, Asking
  <2>2. (\A m, n \in net : Submitting(m) /\ Submitting(n) /\ m.nonce = n.nonce => m = n)'
    BY <1>4 DEF MessagesOK, Submitting
  <2>3. ASSUME NEW m \in net', Asking(m), Live(sess'[m.nonce]), sess'[m.nonce].kind \in Endorsed
        PROVE  m.h \in sess'[m.nonce].arrHandle /\ m.h \notin VotedBy(sess'[m.nonce])
    BY <1>1, <1>2, <1>4, <2>3 DEF MessagesOK, SameSession
  <2>4. ASSUME NEW m \in net', Submitting(m), Live(sess'[m.nonce])
        PROVE  sess'[m.nonce].stage = "open" /\ Full(sess'[m.nonce])
    BY <1>1, <1>2, <1>4, <2>4 DEF MessagesOK, Completes
  <2>. QED
    BY <2>1, <2>2, <2>3, <2>4 DEF MessagesOK, Asking, Submitting, Live, Full, VotedBy
<1>8. HistoryOK'
  <2>1. /\ \A t \in submits : t.req \in Requests
        /\ \A c \in cancels : c.req \in Requests
    BY DEF IInv, TypeOK, Submits
  <2>2. \A t \in submits : /\ sess'[t.req].stage # "none"
                           /\ Live(sess'[t.req]) => Full(sess'[t.req])
    BY <1>1, <1>2, <1>3, <1>4, <2>1 DEF HistoryOK
  <2>3. \A c \in cancels' : /\ sess'[c.req].stage = "done"
                            /\ c.es # Unset => c.es.req = c.req
    BY <1>3, <1>4, <2>1 DEF HistoryOK, Cancelled
  <2>4. failedSends = {} => \A t \in submits, c \in cancels' : t.req # c.req
    BY <1>4 DEF HistoryOK, Cancelled
  <2>. QED  BY <2>2, <2>3, <2>4 DEF HistoryOK, Live, Full, VotedBy
<1>. QED
  BY <1>4, <1>5, <1>6, <1>7, <1>8 DEF IInv, OwnEndorsement

-----------------------------------------------------------------------------
(* A request is sent, whole or in part.                                    *)

LEMMA SentStep ==
  ASSUME IInv, TypeOK', NEW r \in Requests, sess[r].stage = "none",
         NEW hs \in SUBSET Handlers, NEW s \in Session, NEW e \in Session,
         s.id = nSessionID, s.kind \in Kinds,
         sess' = [sess EXCEPT ![r] = e],
         net' = net \cup {Request(r, s, x) : x \in hs},
         UNCHANGED <<submits, cancels>>,
         \/ /\ e = s /\ s.stage = "open" /\ s.arrHandle = hs /\ s.votes = <<>>
            /\ s.nEsSessionID = Unset /\ s.submitEs \in hs
            /\ s.kind \in Endorsed => Cardinality(hs) = EndorseCount
            /\ nSessionID' = nSessionID + 1 /\ UNCHANGED failedSends
         \/ /\ e.stage = "done" /\ s.kind \in Endorsed
            /\ UNCHANGED nSessionID /\ failedSends' # {}
  PROVE  IInv'
<1>1. /\ sess \in [Requests -> Session] /\ nSessionID \in Nat
      /\ IdsOK /\ SessionsOK /\ MessagesOK /\ HistoryOK /\ OwnEndorsement
      /\ \A q \in Requests : sess[q].id \in Nat
      /\ \A m \in net : m \in Message /\ m.nonce \in Requests /\ m.id \in Nat
  BY MessageType DEF IInv, TypeOK, Session
<1>2. \A q \in Requests : sess'[q] = IF q = r THEN e ELSE sess[q]
  BY <1>1
<1>3. \A x \in hs : LET m == Request(r, s, x) IN
        /\ m.type = "ask" /\ m.id = nSessionID /\ m.nonce = r /\ m.h = x
        /\ m.kind = s.kind
  BY RequestType
<1>4. ASSUME NEW m \in net', m \notin net
      PROVE  /\ m.type = "ask" /\ m.id = nSessionID /\ m.nonce = r
             /\ m.h \in hs /\ m.kind = s.kind /\ m = Request(r, s, m.h)
  BY <1>3, <1>4
<1>5. \A m \in net : m.nonce # r
  BY <1>1 DEF IdsOK
<1>6. e.stage \in {"open", "done"} /\ (Live(e) => e = s /\ s.stage = "open")
  BY DEF Live
<1>7. nSessionID' >= nSessionID /\ (Live(e) => nSessionID' = nSessionID + 1)
  BY <1>1, <1>6 DEF Live
<1>8. ASSUME NEW q \in Requests, Live(sess'[q])
      PROVE  IF q = r THEN sess'[q].id = nSessionID ELSE sess'[q].id < nSessionID
  BY <1>1, <1>2, <1>6, <1>8 DEF IdsOK
<1>9. VotedBy(s) = {} \/ ~Live(e)
  BY <1>6, EmptySet DEF VotedBy, Live
<1>10. ASSUME NEW m \in net', Own(m)', m \in net PROVE Own(m)
  BY <1>10 DEF Own
<1>11. ASSUME NEW m \in net', Own(m)', m \notin net PROVE Live(e)
  BY <1>4, <1>11 DEF Own, Queries, Endorsed, Live
<1>12. IdsOK'
  <2>1. (\A q \in Requests : Live(sess[q]) => sess[q].id < nSessionID)'
    <3>. SUFFICES ASSUME NEW q \in Requests, Live(sess'[q])
                  PROVE  sess'[q].id < nSessionID'
      BY DEF Live
    <3>1. CASE q = r
      BY <1>1, <1>2, <1>7, <1>8, <3>1
    <3>2. CASE q # r
      <4>1. sess'[q].id < nSessionID /\ sess'[q].id \in Nat /\ nSessionID' \in Nat
        BY <1>1, <1>2, <1>8, <3>2 DEF TypeOK
      <4>. QED  BY <1>1, <1>7, <4>1
    <3>. QED  BY <3>1, <3>2
  <2>2. (\A p, q \in Requests :
           Live(sess[p]) /\ Live(sess[q]) /\ sess[p].id = sess[q].id => p = q)'
    <3>. SUFFICES ASSUME NEW p \in Requests, NEW q \in Requests,
                         Live(sess'[p]), Live(sess'[q]), sess'[p].id = sess'[q].id
                  PROVE  p = q
      BY DEF Live
    <3>1. CASE p # r /\ q # r
      BY <1>1, <1>2, <3>1 DEF IdsOK
    <3>2. CASE p = r \/ q = r
      BY <1>1, <1>8, <3>2
    <3>. QED  BY <3>1, <3>2
  <2>3. (\A m \in net : sess[m.nonce].stage # "none")'
    BY <1>1, <1>2, <1>4, <1>6 DEF IdsOK
  <2>4. ASSUME NEW m \in net', Own(m)' PROVE m.id < nSessionID'
    <3>1. CASE m \in net
      <4>1. m.id < nSessionID
        BY <1>1, <1>10, <2>4, <3>1 DEF IdsOK
      <4>2. nSessionID' \in Nat
        BY DEF TypeOK
      <4>. QED  BY <1>1, <1>7, <3>1, <4>1, <4>2
    <3>2. CASE m \notin net
      BY <1>1, <1>4, <1>7, <1>11, <2>4, <3>2
    <3>. QED  BY <3>1, <3>2
  <2>5. ASSUME NEW m \in net', NEW q \in Requests, Own(m)', Live(sess'[q]),
               sess'[q].kind = m.kind, sess'[q].id = m.id
        PROVE  m.nonce = q
    <3>1. CASE m \in net
      <4>1. m.id < nSessionID
        BY <1>1, <1>10, <2>5, <3>1 DEF IdsOK
      <4>2. q # r
        BY <1>1, <1>8, <2>5, <3>1, <4>1
      <4>. QED  BY <1>1, <1>2, <1>10, <2>5, <3>1, <4>2 DEF IdsOK
    <3>2. CASE m \notin net
      BY <1>1, <1>4, <1>8, <2>5, <3>2
    <3>. QED  BY <3>1, <3>2
  <2>. QED  BY <2>1, <2>2, <2>3, <2>4, <2>5 DEF IdsOK, Own, Live
<1>13. SessionsOK'
  <2>. SUFFICES ASSUME NEW q \in Requests, Live(sess'[q])
                PROVE  /\ sess'[q].kind \in Endorsed => VotesOK(q, sess'[q])
                       /\ sess'[q].stage = "complete" => Full(sess'[q])
    BY DEF SessionsOK, Live, VotesOK, VotedBy, Full
  <2>1. CASE q # r
    BY <1>1, <1>2, <2>1 DEF SessionsOK
  <2>2. CASE q = r
    <3>1. Live(e) /\ sess'[q] = s /\ s.stage = "open"
      BY <1>2, <1>6, <2>2
    <3>2. VotedBy(s) = {} /\ ToSet(s.votes) = {} /\ Len(s.votes) = 0
          /\ Cardinality(VotedBy(s)) = 0
      BY <1>9, <3>1, EmptySet, FS_EmptySet DEF Live
    <3>3. s.kind \in Endorsed => VotesOK(r, s)
      BY <3>1, <3>2 DEF VotesOK, Live
    <3>. QED  BY <2>2, <3>1, <3>3
  <2>. QED  BY <2>1, <2>2
<1>14. MessagesOK'
  <2>1. ASSUME NEW m \in net', NEW n \in net', Asking(m), Asking(n), m.nonce = n.nonce, m.h = n.h
        PROVE  m = n
    BY <1>1, <1>4, <1>5, <2>1 DEF MessagesOK
  <2>2. \A m \in net' : Submitting(m) => m \in net /\ m.nonce # r
    BY <1>4, <1>5 DEF Submitting
  <2>3. ASSUME NEW m \in net', Asking(m), Live(sess'[m.nonce]), sess'[m.nonce].kind \in Endorsed
        PROVE  m.h \in sess'[m.nonce].arrHandle /\ m.h \notin VotedBy(sess'[m.nonce])
    <3>1. CASE m \in net
      BY <1>1, <1>2, <1>5, <2>3, <3>1 DEF MessagesOK
    <3>2. CASE m \notin net
      <4>1. m.nonce = r /\ m.h \in hs
        BY <1>4, <3>2
      <4>2. Live(e) /\ sess'[m.nonce] = s /\ s.arrHandle = hs
        BY <1>2, <1>6, <2>3, <4>1 DEF Live
      <4>. QED  BY <1>9, <4>1, <4>2
    <3>. QED  BY <3>1, <3>2
  <2>4. ASSUME NEW m \in net', Submitting(m), Live(sess'[m.nonce])
        PROVE  sess'[m.nonce].stage = "open" /\ Full(sess'[m.nonce])
    BY <1>1, <1>2, <2>2, <2>4 DEF MessagesOK
  <2>5. ASSUME NEW m \in net', NEW n \in net', Submitting(m), Submitting(n), m.nonce = n.nonce
        PROVE  m = n
    BY <1>1, <2>2, <2>5 DEF MessagesOK
  <2>. QED
    BY <2>1, <2>3, <2>4, <2>5 DEF MessagesOK, Asking, Submitting, Live, Full, VotedBy
<1>15. HistoryOK'
  <2>1. /\ \A t \in submits : t.req \in Requests /\ t.req # r
        /\ \A c \in cancels : c.req \in Requests /\ c.req # r
    BY <1>1 DEF IInv, TypeOK, Submits, HistoryOK
  <2>2. \A t \in submits : /\ sess'[t.req].stage # "none"
                           /\ Live(sess'[t.req]) => Full(sess'[t.req])
    BY <1>1, <1>2, <2>1 DEF HistoryOK
  <2>3. \A c \in cancels : /\ sess'[c.req].stage = "done"
                           /\ c.es # Unset => c.es.req = c.req
    BY <1>1, <1>2, <2>1 DEF HistoryOK
  <2>4. failedSends' = {} => \A t \in submits, c \in cancels : t.req # c.req
    BY <1>1 DEF HistoryOK
  <2>. QED  BY <2>2, <2>3, <2>4 DEF HistoryOK, Live, Full, VotedBy
<1>. QED
  BY <1>1, <1>12, <1>13, <1>14, <1>15 DEF IInv, OwnEndorsement

-----------------------------------------------------------------------------
(* An endorsement is counted.                                              *)

(* The session that counted it is as it should be; with the last vote, it  *)
(* has the votes of all and the session of the elected endorser.           *)
LEMMA CountedOK ==
  ASSUME IInv, NEW m \in net, m.type = "endorsed", m.kind \in Endorsed,
         NEW r \in Find(m.kind, m.id), m.nonce = r,
         m.res \in Contents, Agrees(sess[r], m.res)
  PROVE  LET c == Counted(sess[r], m) IN
         /\ VotesOK(r, c)
         /\ VotedBy(c) = VotedBy(sess[r]) \cup {m.h}
         /\ Enough(c) => Full(c) /\ c.nEsSessionID = [h |-> c.submitEs, req |-> r]
<1>. DEFINE s == sess[r]
            c == Counted(s, m)
            v == [h |-> m.h, req |-> m.nonce, content |-> m.res]
            e == [h |-> m.h, req |-> m.nonce]
<1>1. /\ m \in Message /\ r \in Requests /\ s \in Session /\ Live(s)
      /\ s.kind \in Endorsed /\ m.h \in Handlers
  BY FoundType, MessageType DEF IInv
<1>2. /\ c \in Session /\ v \in Votes
      /\ c.kind = s.kind /\ c.arrHandle = s.arrHandle /\ c.submitEs = s.submitEs
      /\ c.content = m.res \/ (c.content = s.content /\ s.content # Empty)
      /\ c.votes = Append(s.votes, v)
      /\ c.nEsSessionID = IF m.h = s.submitEs THEN e ELSE s.nEsSessionID
  BY <1>1, CountedType
<1>3. m.h \in s.arrHandle /\ m.h \notin VotedBy(s)
  BY Incoming
<1>4. VotesOK(r, s)
  BY <1>1 DEF IInv, SessionsOK
<1>5. v.h = m.h /\ v.req = r /\ v.content = m.res
  OBVIOUS
<1>6. e # Unset /\ e = [h |-> m.h, req |-> r]
  BY <1>1, UnsetAssumption DEF EsSessions
<1>7. s.content \in {Empty, m.res}
  BY DEF Agrees
<1>8. s.votes \in Seq(Votes) /\ Len(s.votes) \in Nat
  BY <1>1 DEF Session
<1>. HIDE DEF c, v, s, e
<1>9. /\ Len(c.votes) = Len(s.votes) + 1
      /\ ToSet(c.votes) = ToSet(s.votes) \cup {v}
  BY <1>2, <1>8, AppendSet
<1>10. VotedBy(c) = VotedBy(s) \cup {m.h}
  BY <1>5, <1>9 DEF VotedBy
<1>11. IsFiniteSet(s.arrHandle) /\ IsFiniteSet(VotedBy(s))
  BY <1>1, <1>4, VotedFinite DEF VotesOK
<1>12. Len(c.votes) = Cardinality(VotedBy(c))
  <2>1. Cardinality(VotedBy(c)) = Cardinality(VotedBy(s)) + 1
    BY <1>3, <1>10, <1>11, FS_AddElement
  <2>. QED  BY <1>4, <1>9, <2>1 DEF VotesOK
<1>13. VotedBy(c) \subseteq c.arrHandle
  BY <1>2, <1>3, <1>4, <1>10 DEF VotesOK
<1>14. \A w \in ToSet(c.votes) : w.req = r /\ w.content \in {Empty, c.content}
  <2>. SUFFICES ASSUME NEW w \in ToSet(c.votes)
                PROVE  w.req = r /\ w.content \in {Empty, c.content}
    OBVIOUS
  <2>1. CASE w = v
    BY <1>2, <1>5, <1>7, <2>1
  <2>2. CASE w \in ToSet(s.votes)
    BY <1>2, <1>4, <1>7, <2>2 DEF VotesOK
  <2>. QED  BY <1>9, <2>1, <2>2
<1>15. c.nEsSessionID \in {Unset, [h |-> c.submitEs, req |-> r]}
  BY <1>2, <1>4, <1>6 DEF VotesOK
<1>16. c.submitEs \in VotedBy(c) => c.nEsSessionID # Unset
  BY <1>2, <1>4, <1>6, <1>10 DEF VotesOK
<1>17. VotesOK(r, c)
  BY <1>2, <1>4, <1>12, <1>13, <1>14, <1>15, <1>16 DEF VotesOK
<1>18. ASSUME Enough(c) PROVE VotedBy(c) = c.arrHandle
  <2>1. Cardinality(VotedBy(c)) <= Cardinality(c.arrHandle)
    BY <1>2, <1>11, <1>13, FS_Subset
  <2>2. Cardinality(c.arrHandle) = EndorseCount /\ Len(c.votes) \in Nat
    BY <1>8, <1>9, <1>17 DEF VotesOK
  <2>3. Len(c.votes) >= EndorseCount
    BY <1>18 DEF Enough
  <2>4. Cardinality(VotedBy(c)) = Cardinality(c.arrHandle)
    BY <1>12, <2>1, <2>2, <2>3, CountAssumption
  <2>. QED  BY <1>2, <1>11, <1>13, <2>4, FS_Subset
<1>19. ASSUME Enough(c)
       PROVE  Full(c) /\ c.nEsSessionID = [h |-> c.submitEs, req |-> r]
  BY <1>1, <1>2, <1>15, <1>16, <1>17, <1>18, <1>19 DEF Full, VotesOK
<1>. QED
  BY <1>10, <1>17, <1>19 DEF c, s

LEMMA TakesStep ==
  ASSUME IInv, TypeOK', NEW m \in net, m.type = "endorsed", m.kind \in Endorsed,
         NEW r \in Find(m.kind, m.id), Takes(m, r),
         UNCHANGED <<nSessionID, failedSends>>
  PROVE  IInv'
<1>. DEFINE s == sess[r]
            c == Counted(s, m)
<1>1. /\ m \in Message /\ r \in Requests /\ s \in Session /\ Live(s)
      /\ s.kind = m.kind /\ s.id = m.id /\ s.kind \in Kinds
  BY FoundType DEF IInv
<1>2. /\ m.nonce = r /\ m.res \in Contents /\ Agrees(s, m.res)
      /\ sess' = [sess EXCEPT ![r] = c] /\ UNCHANGED cancels
      /\ NoSubmit(m) \/ (Enough(c) /\ Submit(m, r, c))
  BY DEF Takes
<1>3. /\ c \in Session /\ c.stage = s.stage /\ c.kind = s.kind /\ c.id = s.id
      /\ c.arrHandle = s.arrHandle /\ c.submitEs = s.submitEs
  BY <1>1, <1>2, CountedType
<1>4. /\ m.h \in s.arrHandle /\ m.h \notin VotedBy(s) /\ s.stage = "open"
      /\ \A t \in submits : t.req # r
      /\ \A n \in net : Submitting(n) => n.nonce # r
  BY <1>2, Incoming
<1>5. /\ VotesOK(r, c) /\ VotedBy(c) = VotedBy(s) \cup {m.h}
      /\ Enough(c) => Full(c) /\ c.nEsSessionID = [h |-> c.submitEs, req |-> r]
  BY <1>2, CountedOK
<1>6. c.submitEs \in Handlers
  BY <1>3, <1>5 DEF VotesOK, Session
<1>7. /\ SubmitReq(r, c).type = "submit" /\ SubmitReq(r, c).id = c.id
      /\ SubmitReq(r, c).nonce = r /\ SubmitReq(r, c).kind = c.kind
  BY <1>1, <1>3, <1>6, SubmitReqType
<1>. HIDE DEF s, c
<1>8. \A n \in net' : (n \in net /\ n # m) \/ (n = SubmitReq(r, c) /\ Enough(c))
  BY <1>2 DEF NoSubmit, Submit
<1>9. ASSUME NEW n \in net', n \notin net
      PROVE  /\ n.type = "submit" /\ n.id = c.id /\ n.nonce = r /\ n.kind = c.kind
             /\ n = SubmitReq(r, c) /\ Full(c)
  BY <1>5, <1>7, <1>8, <1>9
<1>10. /\ sess \in [Requests -> Session] /\ nSessionID \in Nat
       /\ IdsOK /\ SessionsOK /\ MessagesOK /\ HistoryOK /\ OwnEndorsement
       /\ \A n \in net : n \in Message /\ n.nonce \in Requests
  BY MessageType DEF IInv, TypeOK
<1>11. \A q \in Requests : sess'[q] = IF q = r THEN c ELSE sess[q]
  BY <1>1, <1>2, <1>10
<1>12. \A q \in Requests : /\ Live(sess'[q]) = Live(sess[q])
                           /\ sess'[q].stage = sess[q].stage
                           /\ sess'[q].kind = sess[q].kind /\ sess'[q].id = sess[q].id
  BY <1>3, <1>11 DEF Live, s
<1>13. \A n \in net' : n.nonce \in Requests
  BY <1>1, <1>9, <1>10
<1>14. IdsOK'
  <2>1. (\A q \in Requests : Live(sess[q]) => sess[q].id < nSessionID)'
    BY <1>10, <1>12 DEF IdsOK
  <2>2. (\A p, q \in Requests :
           Live(sess[p]) /\ Live(sess[q]) /\ sess[p].id = sess[q].id => p = q)'
    BY <1>10, <1>12 DEF IdsOK
  <2>3. (\A n \in net : sess[n.nonce].stage # "none")'
    BY <1>1, <1>9, <1>10, <1>12, <1>13 DEF IdsOK, Live, s
  <2>4. (\A n \in net : Own(n) => n.id < nSessionID)'
    BY <1>1, <1>3, <1>9, <1>10 DEF IdsOK, Own, s
  <2>5. (\A n \in net, q \in Requests :
           Own(n) /\ Live(sess[q]) /\ sess[q].kind = n.kind /\ sess[q].id = n.id
             => n.nonce = q)'
    BY <1>1, <1>3, <1>9, <1>10, <1>12 DEF IdsOK, Own, s
  <2>. QED  BY <2>1, <2>2, <2>3, <2>4, <2>5 DEF IdsOK
<1>15. SessionsOK'
  <2>. SUFFICES ASSUME NEW q \in Requests, Live(sess'[q])
                PROVE  /\ sess'[q].kind \in Endorsed => VotesOK(q, sess'[q])
                       /\ sess'[q].stage = "complete" => Full(sess'[q])
    BY DEF SessionsOK, Live, VotesOK, VotedBy, Full
  <2>1. CASE q # r
    BY <1>10, <1>11, <2>1 DEF SessionsOK
  <2>2. CASE q = r
    BY <1>3, <1>4, <1>5, <1>11, <2>2
  <2>. QED  BY <2>1, <2>2
<1>16. MessagesOK'
  <2>1. \A n \in net' : Asking(n) => n \in net /\ n # m
    BY <1>7, <1>8 DEF Asking
  <2>2. \A n \in net' : Asking(n) /\ n.nonce = r => n.h # m.h
    BY <1>2, <1>10, <2>1 DEF MessagesOK, Asking
  <2>3. ASSUME NEW n \in net', NEW o \in net', Asking(n), Asking(o), n.nonce = o.nonce, n.h = o.h
        PROVE  n = o
    BY <1>10, <2>1, <2>3 DEF MessagesOK
  <2>4. ASSUME NEW n \in net', NEW o \in net', Submitting(n), Submitting(o), n.nonce = o.nonce
        PROVE  n = o
    BY <1>4, <1>9, <1>10, <2>4 DEF MessagesOK
  <2>5. ASSUME NEW n \in net', Asking(n), Live(sess'[n.nonce]), sess'[n.nonce].kind \in Endorsed
        PROVE  n.h \in sess'[n.nonce].arrHandle /\ n.h \notin VotedBy(sess'[n.nonce])
    <3>1. n.h \in sess[n.nonce].arrHandle /\ n.h \notin VotedBy(sess[n.nonce])
      BY <1>10, <1>12, <2>1, <2>5 DEF MessagesOK
    <3>2. CASE n.nonce = r
      <4>1. sess'[n.nonce] = c /\ sess[n.nonce] = s
        BY <1>1, <1>11, <3>2 DEF s
      <4>. QED  BY <1>3, <1>5, <2>2, <2>5, <3>1, <3>2, <4>1
    <3>3. CASE n.nonce # r
      BY <1>11, <1>13, <3>1, <3>3
    <3>. QED  BY <3>2, <3>3
  <2>6. ASSUME NEW n \in net', Submitting(n), Live(sess'[n.nonce])
        PROVE  sess'[n.nonce].stage = "open" /\ Full(sess'[n.nonce])
    <3>1. CASE n \in net
      BY <1>4, <1>10, <1>11, <1>12, <2>6, <3>1 DEF MessagesOK
    <3>2. CASE n \notin net
      BY <1>1, <1>3, <1>4, <1>9, <1>11, <3>2
    <3>. QED  BY <3>1, <3>2
  <2>. QED
    BY <2>3, <2>4, <2>5, <2>6 DEF MessagesOK, Asking, Submitting, Live, Full, VotedBy
<1>17. /\ \A t \in submits : t.req \in Requests /\ t.req # r
       /\ \A d \in cancels : d.req \in Requests /\ d.req # r
  BY <1>1, <1>4, <1>10 DEF IInv, TypeOK, Submits, HistoryOK, Live, s
<1>18. ASSUME NEW t \in submits', t \notin submits
       PROVE  /\ t.req = r /\ t.h = c.submitEs /\ t.es = [h |-> c.submitEs, req |-> r]
              /\ t.picked = VotedBy(c) /\ t.votes = ToSet(c.votes) /\ Full(c)
  <2>1. /\ Enough(c)
        /\ t = [req |-> r, h |-> c.submitEs, es |-> c.nEsSessionID,
                picked |-> c.arrHandle, votes |-> ToSet(c.votes)]
    BY <1>2, <1>18 DEF NoSubmit, Submit
  <2>. QED  BY <1>5, <2>1 DEF Full
<1>19. HistoryOK'
  <2>1. \A t \in submits' : /\ sess'[t.req].stage # "none"
                            /\ Live(sess'[t.req]) => Full(sess'[t.req])
    BY <1>1, <1>3, <1>4, <1>10, <1>11, <1>17, <1>18 DEF HistoryOK
  <2>2. \A d \in cancels' : /\ sess'[d.req].stage = "done"
                            /\ d.es # Unset => d.es.req = d.req
    BY <1>2, <1>10, <1>11, <1>17 DEF HistoryOK
  <2>3. failedSends' = {} => \A t \in submits', d \in cancels' : t.req # d.req
    BY <1>2, <1>10, <1>17, <1>18 DEF HistoryOK
  <2>. QED  BY <2>1, <2>2, <2>3 DEF HistoryOK, Live, Full, VotedBy
<1>20. OwnEndorsement'
  <2>. SUFFICES ASSUME NEW t \in submits', t \notin submits
                PROVE  /\ t.es = [h |-> t.h, req |-> t.req]
                       /\ \A h \in t.picked : \E v \in t.votes : v.h = h /\ v.req = t.req
                       /\ \A v, w \in t.votes :
                            v.content = w.content \/ Empty \in {v.content, w.content}
    BY <1>10 DEF OwnEndorsement
  <2>1. t.es = [h |-> t.h, req |-> t.req]
    BY <1>18
  <2>2. \A v \in t.votes : v.req = t.req /\ v.content \in {Empty, c.content}
    BY <1>5, <1>18 DEF VotesOK
  <2>3. \A h \in t.picked : \E v \in t.votes : v.h = h
    BY <1>18 DEF VotedBy
  <2>. QED  BY <2>1, <2>2, <2>3
<1>. QED
  BY <1>14, <1>15, <1>16, <1>19, <1>20 DEF IInv

-----------------------------------------------------------------------------
(* The endorsers: a message is replaced by one of the same request.        *)

LEMMA ReplaceStep ==
  ASSUME IInv, TypeOK', NEW m \in net, NEW a,
         net' = (net \ {m}) \cup {a},
         a.h = m.h, a.id = m.id, a.nonce = m.nonce, a.kind = m.kind,
         (Asking(m) /\ Asking(a) /\ ~Submitting(a)) \/
         (Submitting(m) /\ Submitting(a) /\ ~Asking(a)),
         UNCHANGED <<nSessionID, sess, submits, cancels, failedSends>>
  PROVE  IInv'
<1>1. IdsOK /\ SessionsOK /\ MessagesOK /\ HistoryOK /\ OwnEndorsement
  BY DEF IInv
<1>2. \A n \in net' : n = a \/ (n \in net /\ n # m)
  OBVIOUS
<1>3. Own(a) = Own(m) /\ \A n : Own(n)' = Own(n)
  BY DEF Own
<1>4. IdsOK'
  <2>1. (\A n \in net : sess[n.nonce].stage # "none")'
    BY <1>1, <1>2 DEF IdsOK
  <2>2. (\A n \in net : Own(n) => n.id < nSessionID)'
    BY <1>1, <1>2, <1>3 DEF IdsOK
  <2>3. (\A n \in net, r \in Requests :
           Own(n) /\ Live(sess[r]) /\ sess[r].kind = n.kind /\ sess[r].id = n.id
             => n.nonce = r)'
    BY <1>1, <1>2, <1>3 DEF IdsOK, Live
  <2>. QED  BY <1>1, <2>1, <2>2, <2>3 DEF IdsOK, Live
<1>5. MessagesOK'
  <2>1. ASSUME NEW n \in net', NEW o \in net', Asking(n), Asking(o), n.nonce = o.nonce, n.h = o.h
        PROVE  n = o
    BY <1>1, <1>2, <2>1 DEF MessagesOK
  <2>2. ASSUME NEW n \in net', NEW o \in net', Submitting(n), Submitting(o), n.nonce = o.nonce
        PROVE  n = o
    BY <1>1, <1>2, <2>2 DEF MessagesOK
  <2>3. ASSUME NEW n \in net', Asking(n), Live(sess[n.nonce]), sess[n.nonce].kind \in Endorsed
        PROVE  n.h \in sess[n.nonce].arrHandle /\ n.h \notin VotedBy(sess[n.nonce])
    BY <1>1, <1>2, <2>3 DEF MessagesOK
  <2>4. ASSUME NEW n \in net', Submitting(n), Live(sess[n.nonce])
        PROVE  sess[n.nonce].stage = "open" /\ Full(sess[n.nonce])
    BY <1>1, <1>2, <2>4 DEF MessagesOK
  <2>. QED
    BY <2>1, <2>2, <2>3, <2>4 DEF MessagesOK, Asking, Submitting, Live, Full, VotedBy
<1>6. SessionsOK' /\ HistoryOK' /\ OwnEndorsement'
  BY <1>1 DEF SessionsOK, HistoryOK, OwnEndorsement, VotesOK, VotedBy, Full, Live
<1>. QED  BY <1>4, <1>5, <1>6 DEF IInv

-----------------------------------------------------------------------------
(* What the user hears.                                                    *)

Heard(r) ==
  \/ sess'[r].stage = "none" /\ sess[r].stage = "none" /\ out'[r] = out[r]
  \/ sess'[r].stage = sess[r].stage /\ sess'[r].kind = sess[r].kind /\ out'[r] = out[r]
  \/ sess[r].stage = "none" /\ sess'[r].stage = "open" /\ out'[r] = out[r]
  \/ /\ sess[r].stage = "none" /\ sess'[r].stage = "done"
     /\ \/ \E code \in Codes : code # "NONCE" /\ out'[r] = Append(out[r], code)
        \/ out'[r] = <<"NETWORK", "NETWORK">> /\ failedSends' # {}
  \/ /\ sess[r].stage = "open" \/ (sess[r].stage = "complete" /\ failedSends # {})
     /\ sess'[r].stage = "done" \/ (sess[r].stage = "open" /\ sess'[r].stage = "complete")
     /\ sess'[r].kind = sess[r].kind
     /\ \E code \in Codes : /\ sess[r].kind \in Queries => code # "NONCE"
                            /\ out'[r] = Append(out[r], code)
  \/ /\ Live(sess[r]) /\ sess'[r].stage = "done" /\ sess'[r].kind = sess[r].kind
     /\ out'[r] = out[r]

LEMMA HeardStep ==
  ASSUME TypeOK, OutOK, failedSends \subseteq failedSends', \A r \in Requests : Heard(r)
  PROVE  OutOK'
<1>. SUFFICES ASSUME NEW r \in Requests
              PROVE  /\ sess'[r].stage \in {"none", "open"} => out'[r] = <<>>
                     /\ sess'[r].stage = "complete" => Len(out'[r]) = 1
                     /\ Len(out'[r]) <= (IF failedSends' = {} THEN 1 ELSE 2)
                     /\ sess'[r].kind \in Queries => "NONCE" \notin ToSet(out'[r])
  BY DEF OutOK
<1>1. /\ out[r] \in Seq(Codes) /\ Len(out[r]) \in Nat
      /\ sess[r].stage \in {"none", "open"} => out[r] = <<>>
      /\ sess[r].stage = "complete" => Len(out[r]) = 1
      /\ Len(out[r]) <= (IF failedSends = {} THEN 1 ELSE 2)
      /\ sess[r].kind \in Queries => "NONCE" \notin ToSet(out[r])
  BY DEF TypeOK, OutOK
<1>2. failedSends' = {} => failedSends = {}
  OBVIOUS
<1>3. Heard(r)
  OBVIOUS
<1>4. \A code \in Codes : /\ Len(Append(out[r], code)) = Len(out[r]) + 1
                          /\ ToSet(Append(out[r], code)) = ToSet(out[r]) \cup {code}
  BY <1>1, AppendSet
<1>5. /\ sess[r].stage \in {"none", "open"} => Len(out[r]) = 0 /\ ToSet(out[r]) = {}
  BY <1>1, EmptySet
<1>6. CASE sess'[r].stage = "none" /\ sess[r].stage = "none" /\ out'[r] = out[r]
  BY <1>1, <1>2, <1>5, <1>6
<1>7. CASE sess'[r].stage = sess[r].stage /\ sess'[r].kind = sess[r].kind /\ out'[r] = out[r]
  BY <1>1, <1>2, <1>7
<1>8. CASE sess[r].stage = "none" /\ sess'[r].stage = "open" /\ out'[r] = out[r]
  BY <1>1, <1>5, <1>8
<1>9. ASSUME sess[r].stage = "none", sess'[r].stage = "done",
             NEW code \in Codes, code # "NONCE", out'[r] = Append(out[r], code)
      PROVE  /\ Len(out'[r]) = 1 /\ "NONCE" \notin ToSet(out'[r])
  BY <1>4, <1>5, <1>9
<1>10. CASE /\ sess[r].stage = "none" /\ sess'[r].stage = "done"
            /\ out'[r] = <<"NETWORK", "NETWORK">> /\ failedSends' # {}
  <2>1. Len(out'[r]) = 2 /\ "NONCE" \notin ToSet(out'[r])
    <3>1. Len(<<"NETWORK", "NETWORK">>) = 2
      OBVIOUS
    <3>2. ToSet(<<"NETWORK", "NETWORK">>) = {"NETWORK"}
      BY DEF ToSet
    <3>. QED  BY <1>10, <3>1, <3>2
  <2>. QED  BY <1>10, <2>1
<1>11. ASSUME sess[r].stage = "open" \/ (sess[r].stage = "complete" /\ failedSends # {}),
              sess'[r].stage = "done" \/ (sess[r].stage = "open" /\ sess'[r].stage = "complete"),
              sess'[r].kind = sess[r].kind,
              NEW code \in Codes, sess[r].kind \in Queries => code # "NONCE",
              out'[r] = Append(out[r], code)
       PROVE  /\ sess'[r].stage \in {"done", "complete"}
              /\ sess'[r].stage = "complete" => Len(out'[r]) = 1
              /\ Len(out'[r]) = 1 \/ (Len(out'[r]) = 2 /\ failedSends' # {})
              /\ sess'[r].kind \in Queries => "NONCE" \notin ToSet(out'[r])
  BY <1>1, <1>2, <1>4, <1>5, <1>11
<1>12. CASE /\ Live(sess[r]) /\ sess'[r].stage = "done" /\ sess'[r].kind = sess[r].kind
            /\ out'[r] = out[r]
  BY <1>1, <1>2, <1>12
<1>. QED
  BY <1>3, <1>6, <1>7, <1>8, <1>9, <1>10, <1>11, <1>12 DEF Heard

-----------------------------------------------------------------------------
(* Every step keeps the invariant, and answers as it should.               *)

LEMMA StepAsks ==
  ASSUME IInv, TypeOK', NEW r \in Requests, NEW kind \in Kinds,
         \/ OnReqRefused(r, kind) \/ OnReqSent(r, kind) \/ OnReqSendFailed(r, kind)
         \/ OnQuerySent(r, kind) \/ OnQuerySendFailed(r, kind)
  PROVE  IInv' /\ failedSends \subseteq failedSends' /\ \A q \in Requests : Heard(q)
<1>0. /\ nSessionID \in Nat /\ connected \subseteq Handlers
      /\ out \in [Requests -> Seq(Codes)] /\ sess \in [Requests -> Session]
  BY DEF IInv, TypeOK
<1>1. CASE OnReqRefused(r, kind)
  <2>1. /\ sess' = [sess EXCEPT ![r] = Released(NoneOf(kind))] /\ sess[r].stage = "none"
        /\ \E code \in Refusals(kind) : Reply(r, code)
        /\ UNCHANGED <<nSessionID, net, submits, cancels, failedSends>>
    BY <1>1 DEF OnReqRefused, NoneOf, CanAsk, history
  <2>2. Released(NoneOf(kind)).stage = "done"
    BY NoneOfType
  <2>3. \A q \in Requests : Settled(q)
    BY <1>0, <2>1, <2>2 DEF Settled
  <2>4. PICK code \in {"NETWORK", "SYSTEM"} : out' = [out EXCEPT ![r] = Append(@, code)]
    BY <2>1, RefusalTypes DEF Reply
  <2>5. \A q \in Requests : Heard(q)
    BY <1>0, <2>1, <2>2, <2>4 DEF Heard, Codes
  <2>. QED  BY <2>1, <2>3, <2>5, QuietStep
<1>2. ASSUME NEW hs \in SUBSET Handlers, NEW wait \in BOOLEAN, NEW elected \in hs,
             kind \in Endorsed => Cardinality(hs) = EndorseCount,
             sess' = [sess EXCEPT ![r] = NewSession(kind, wait, hs, elected)],
             net' = net \cup {Request(r, NewSession(kind, wait, hs, elected), x) : x \in hs},
             sess[r].stage = "none",
             nSessionID' = nSessionID + 1, UNCHANGED <<history, out>>
      PROVE  IInv' /\ failedSends \subseteq failedSends' /\ \A q \in Requests : Heard(q)
  <2>. DEFINE s == NewSession(kind, wait, hs, elected)
  <2>1. /\ s \in Session /\ s.stage = "open" /\ s.kind = kind /\ s.id = nSessionID
        /\ s.arrHandle = hs /\ s.submitEs = elected /\ s.nEsSessionID = Unset
        /\ s.votes = <<>>
    BY <1>0, NewSessionType
  <2>. HIDE DEF s
  <2>2. /\ sess' = [sess EXCEPT ![r] = s] /\ net' = net \cup {Request(r, s, x) : x \in hs}
        /\ UNCHANGED <<submits, cancels, failedSends, out>>
    BY <1>2 DEF s, history
  <2>3. IInv'
    <3>1. /\ s.kind \in Endorsed => Cardinality(hs) = EndorseCount
          /\ s.submitEs \in hs /\ s.kind \in Kinds
          /\ sess[r].stage = "none" /\ nSessionID' = nSessionID + 1
      BY <1>2, <2>1
    <3>. QED  BY <2>1, <2>2, <3>1, SentStep
  <2>4. \A q \in Requests : Heard(q)
    BY <1>0, <1>2, <2>1, <2>2 DEF Heard
  <2>. QED  BY <2>2, <2>3, <2>4
<1>3. CASE OnReqSent(r, kind)
  <2>0. PICK hs \in Dealings(EndorseCount), wait \in BOOLEAN : \E elected \in hs :
          /\ sess' = [sess EXCEPT ![r] = NewSession(kind, wait, hs, elected)]
          /\ net' = net \cup {Request(r, NewSession(kind, wait, hs, elected), x) : x \in hs}
    BY <1>3 DEF OnReqSent
  <2>1. PICK elected \in hs :
          /\ sess' = [sess EXCEPT ![r] = NewSession(kind, wait, hs, elected)]
          /\ net' = net \cup {Request(r, NewSession(kind, wait, hs, elected), x) : x \in hs}
    BY <2>0
  <2>2. hs \in SUBSET Handlers /\ Cardinality(hs) = EndorseCount
    BY <1>0 DEF Dealings
  <2>3. nSessionID' = nSessionID + 1 /\ UNCHANGED <<history, out>> /\ sess[r].stage = "none"
    BY <1>3 DEF OnReqSent, CanAsk
  <2>4. kind \in Endorsed => Cardinality(hs) = EndorseCount
    BY <2>2
  <2>. QED  BY <1>2, <2>1, <2>2, <2>3, <2>4, ZenonT(60)
<1>4. CASE OnQuerySent(r, kind)
  <2>1. PICK h \in connected :
          /\ sess' = [sess EXCEPT ![r] = NewSession(kind, FALSE, {h}, h)]
          /\ net' = net \cup {Request(r, NewSession(kind, FALSE, {h}, h), h)}
    BY <1>4 DEF OnQuerySent
  <2>2. {Request(r, NewSession(kind, FALSE, {h}, h), h)} =
        {Request(r, NewSession(kind, FALSE, {h}, h), x) : x \in {h}}
    OBVIOUS
  <2>3. {h} \in SUBSET Handlers
    BY <1>0
  <2>4. nSessionID' = nSessionID + 1 /\ UNCHANGED <<history, out>> /\ sess[r].stage = "none"
        /\ kind \notin Endorsed
    BY <1>4 DEF OnQuerySent, CanAsk, Queries, Endorsed
  <2>. QED  BY <1>2, <2>1, <2>2, <2>3, <2>4
<1>5. CASE OnReqSendFailed(r, kind)
  <2>1. PICK n \in 0 .. EndorseCount - 1 : \E hs \in Dealings(n), f \in SendFails :
          /\ hs \cup {f} \in Dealings(n + 1)
          /\ sess' = [sess EXCEPT ![r] = Released(NewSession(kind, FALSE, hs, f))]
          /\ net' = net \cup {Request(r, NewSession(kind, FALSE, hs, f), x) : x \in hs}
    BY <1>5 DEF OnReqSendFailed
  <2>2. PICK hs \in Dealings(n), f \in SendFails :
          /\ hs \cup {f} \in Dealings(n + 1)
          /\ sess' = [sess EXCEPT ![r] = Released(NewSession(kind, FALSE, hs, f))]
          /\ net' = net \cup {Request(r, NewSession(kind, FALSE, hs, f), x) : x \in hs}
    BY <2>1
  <2>3. hs \in SUBSET Handlers /\ f \in Handlers
    BY <1>0, <2>2 DEF Dealings
  <2>. DEFINE s == NewSession(kind, FALSE, hs, f)
              e == Released(s)
  <2>4. s \in Session /\ s.kind = kind /\ s.id = nSessionID
    <3>1. FALSE \in BOOLEAN /\ nSessionID \in Nat /\ hs \in SUBSET Handlers /\ f \in Handlers
      BY <1>0, <2>3
    <3>. HIDE DEF s
    <3>2. NewSession(kind, FALSE, hs, f) \in Session
      BY <3>1, NewSessionType
    <3>3. /\ NewSession(kind, FALSE, hs, f).kind = kind
          /\ NewSession(kind, FALSE, hs, f).id = nSessionID
      BY DEF NewSession, NoSession
    <3>. QED  BY <3>2, <3>3 DEF s
  <2>. HIDE DEF s
  <2>5. e \in Session /\ e.stage = "done"
    BY <2>4, ReleasedType
  <2>. HIDE DEF e
  <2>6. /\ sess' = [sess EXCEPT ![r] = e] /\ net' = net \cup {Request(r, s, x) : x \in hs}
    BY <2>2 DEF s, e
  <2>7. /\ sess[r].stage = "none" /\ kind \in Endorsed
        /\ out' = [out EXCEPT ![r] = <<"NETWORK", "NETWORK">>]
        /\ failedSends' = failedSends \cup {r} /\ UNCHANGED <<nSessionID, submits, cancels>>
    BY <1>5 DEF OnReqSendFailed, CanAsk
  <2>8. failedSends' # {} /\ failedSends \subseteq failedSends'
    BY <2>7
  <2>9. IInv'
    BY <2>3, <2>4, <2>5, <2>6, <2>7, <2>8, SentStep
  <2>10. \A q \in Requests : Heard(q)
    BY <1>0, <2>5, <2>6, <2>7, <2>8 DEF Heard
  <2>. QED  BY <2>8, <2>9, <2>10
<1>6. CASE OnQuerySendFailed(r, kind)
  <2>1. /\ sess[r].stage = "none"
        /\ UNCHANGED <<nSessionID, net, submits, cancels, failedSends>>
    BY <1>6 DEF OnQuerySendFailed, CanAsk, history
  <2>2. CASE Reply(r, "NETWORK") /\ sess' = [sess EXCEPT ![r] = Released(NoneOf(kind))]
    <3>1. Released(NoneOf(kind)).stage = "done"
      BY NoneOfType
    <3>2. \A q \in Requests : Settled(q)
      BY <1>0, <2>1, <2>2, <3>1 DEF Settled
    <3>3. \A q \in Requests : Heard(q)
      BY <1>0, <2>1, <2>2, <3>1 DEF Heard, Reply, Codes
    <3>. QED  BY <2>1, <3>2, <3>3, QuietStep
  <2>3. CASE UNCHANGED <<sess, out>>
    <3>1. \A q \in Requests : Settled(q) /\ Heard(q)
      BY <2>3 DEF Settled, Heard
    <3>. QED  BY <2>1, <3>1, QuietStep
  <2>. QED  BY <1>6, <2>2, <2>3 DEF OnQuerySendFailed, NoneOf
<1>. QED  BY <1>1, <1>3, <1>4, <1>5, <1>6

LEMMA StepEndorsement ==
  ASSUME IInv, TypeOK', NEW m \in net, OnEndorsement(m)
  PROVE  IInv' /\ failedSends \subseteq failedSends' /\ \A q \in Requests : Heard(q)
<1>0. /\ TypeOK /\ m.type = "endorsed" /\ IdsOK
      /\ UNCHANGED <<nSessionID, failedSends>>
      /\ out \in [Requests -> Seq(Codes)] /\ sess \in [Requests -> Session]
  BY DEF IInv, TypeOK, OnEndorsement
<1>1. ASSUME NEW r \in Find(m.kind, m.id),
             \/ m.kind = "regist" /\ OnRegistUserRsp(m, r)
             \/ m.kind = "propose" /\ OnSubmitProposalRsp(m, r)
      PROVE  IInv' /\ \A q \in Requests : Heard(q)
  <2>1. /\ m \in Message /\ r \in Requests /\ sess[r] \in Session /\ Live(sess[r])
        /\ sess[r].kind = m.kind /\ sess[r].id = m.id
        /\ m.kind \in Endorsed /\ m.kind \notin Queries
    BY <1>0, <1>1, FoundType DEF Endorsed, Queries
  <2>2. CASE Takes(m, r)
    <3>1. IInv'
      BY <1>0, <2>1, <2>2, TakesStep
    <3>2. /\ sess' = [sess EXCEPT ![r] = Counted(sess[r], m)] /\ UNCHANGED out
          /\ m.res \in Contents /\ Agrees(sess[r], m.res)
      BY <2>2 DEF Takes
    <3>3. Counted(sess[r], m).stage = sess[r].stage /\ Counted(sess[r], m).kind = sess[r].kind
      BY <1>0, <2>1, <3>2, CountedType
    <3>4. \A q \in Requests : Heard(q)
      BY <1>0, <3>2, <3>3 DEF Heard
    <3>. QED  BY <3>1, <3>4
  <2>3. ASSUME NEW code \in Codes, NEW s \in {sess[r], Counted(sess[r], m)},
               Refuses(m, r, s, code)
        PROVE  IInv' /\ \A q \in Requests : Heard(q)
    <3>1. /\ sess' = [sess EXCEPT ![r] = Released(sess[r])]
          /\ out' = [out EXCEPT ![r] = Append(@, code)]
          /\ net' \subseteq net /\ UNCHANGED submits
          /\ cancels' \subseteq cancels \cup
               {[req |-> r, h |-> s.submitEs, es |-> s.nEsSessionID]}
      BY <2>3 DEF Refuses, EndorsementFails, NoSubmit, Reply
    <3>2. Released(sess[r]).stage = "done" /\ Released(sess[r]).kind = sess[r].kind
      BY <1>0, <2>1, KindType
    <3>3. \A q \in Requests : Settled(q)
      BY <1>0, <3>1, <3>2 DEF Settled
    <3>4. failedSends = {} => m.nonce = r
      BY <1>0, <2>1 DEF IdsOK, Own
    <3>5. failedSends = {} => sess[r].stage = "open" /\ \A t \in submits : t.req # r
      BY <1>0, <2>1, <3>4, Incoming
    <3>6. \A q \in Requests : Heard(q)
      BY <1>0, <2>1, <3>1, <3>2, <3>5 DEF Heard, Live
    <3>7. s.nEsSessionID # Unset => s.nEsSessionID.req = r
      <4>1. VotesOK(r, s)
        <5>1. VotesOK(r, sess[r])
          BY <2>1 DEF IInv, SessionsOK
        <5>2. CASE s # sess[r]
          BY <1>0, <2>1, <2>3, <5>2, CountedOK DEF Refuses
        <5>. QED  BY <5>1, <5>2
      <4>. QED  BY <4>1 DEF VotesOK
    <3>8. ASSUME NEW c \in cancels' \ cancels PROVE Cancelled(r, c)
      <4>1. c = [req |-> r, h |-> s.submitEs, es |-> s.nEsSessionID]
        BY <3>1, <3>8
      <4>2. c.req = r /\ c.es = s.nEsSessionID
        BY <4>1
      <4>. QED  BY <1>0, <2>1, <3>1, <3>2, <3>5, <3>7, <4>2 DEF Cancelled
    <3>9. IInv'
      BY <1>0, <2>1, <3>1, <3>3, <3>8, QuietStep
    <3>. QED  BY <3>6, <3>9
  <2>. QED  BY <1>0, <1>1, <2>2, <2>3, TakesOrRefuses
<1>2. CASE NoSubmit(m) /\ UNCHANGED <<sess, cancels, out>>
  <2>1. \A q \in Requests : Settled(q) /\ Heard(q)
    BY <1>2 DEF Settled, Heard
  <2>. QED  BY <1>0, <1>2, <2>1, QuietStep DEF NoSubmit
<1>. QED  BY <1>0, <1>1, <1>2 DEF OnEndorsement

LEMMA StepAnswers ==
  ASSUME IInv, TypeOK', NEW m \in net,
         \/ OnSubmitted(m) \/ OnQueryRsp(m) \/ EndorserAnswers(m) \/ EndorserSubmits(m)
  PROVE  IInv' /\ failedSends \subseteq failedSends' /\ \A q \in Requests : Heard(q)
<1>0. /\ TypeOK /\ m \in Message /\ m.nonce \in Requests
      /\ out \in [Requests -> Seq(Codes)] /\ sess \in [Requests -> Session]
      /\ IdsOK /\ SessionsOK /\ MessagesOK
  BY MessageType DEF IInv, TypeOK
<1>1. CASE OnSubmitted(m)
  <2>1. /\ net' = net \ {m} /\ m.type = "submitted"
        /\ UNCHANGED <<nSessionID, submits, cancels, failedSends>>
    BY <1>1 DEF OnSubmitted, history
  <2>2. CASE UNCHANGED <<sess, out>>
    <3>1. \A q \in Requests : Settled(q) /\ Heard(q)
      BY <2>2 DEF Settled, Heard
    <3>. QED  BY <2>1, <3>1, QuietStep
  <2>3. ASSUME NEW r \in Find(m.kind, m.id), m.kind \in Endorsed,
               Opened(m, r) = "OK", Reply(r, "OK"),
               NEW e \in {[sess[r] EXCEPT !.stage = "complete"], Released(sess[r])},
               sess' = [sess EXCEPT ![r] = e]
        PROVE  IInv' /\ \A q \in Requests : Heard(q)
    <3>1. /\ r \in Requests /\ sess[r] \in Session /\ Live(sess[r]) /\ sess[r].kind = m.kind
      BY <1>0, FoundType
    <3>2. m.nonce = r
      BY <1>0, <2>1, <2>3, <3>1, OpenedType
    <3>3. /\ sess[r].stage = "open" /\ Full(sess[r])
          /\ \A n \in net' : Submitting(n) => n.nonce # r
      BY <1>0, <2>1, <3>1, <3>2 DEF MessagesOK, Submitting
    <3>4. /\ e.kind = sess[r].kind
          /\ e.stage = "done" \/ (e.stage = "complete" /\ SameSession(sess[r], e))
      <4>1. CASE e = Released(sess[r])
        BY <1>0, <3>1, <4>1, KindType
      <4>2. CASE e = [sess[r] EXCEPT !.stage = "complete"]
        BY <3>1, <4>2, CompletedType DEF SameSession
      <4>. QED  BY <2>3, <4>1, <4>2
    <3>5. \A q \in Requests : Settled(q)
      BY <1>0, <2>3, <3>1, <3>3, <3>4 DEF Settled, Completes
    <3>6. \A q \in Requests : Heard(q)
      BY <1>0, <2>3, <3>1, <3>3, <3>4 DEF Heard, Reply, Codes
    <3>7. IInv'
      BY <2>1, <3>5, QuietStep
    <3>. QED  BY <3>6, <3>7
  <2>4. ASSUME NEW r \in Find(m.kind, m.id), m.kind \in Endorsed,
               OnSubmitRegistRsp(m, r) \/ OnSubmitProposalTransRsp(m, r)
        PROVE  IInv' /\ failedSends \subseteq failedSends' /\ \A q \in Requests : Heard(q)
    BY <2>1, <2>2, <2>3, <2>4, AfterSubmit
  <2>. QED  BY <1>1, <2>2, <2>4 DEF OnSubmitted, Endorsed
<1>2. CASE OnQueryRsp(m)
  <2>1. /\ net' = net \ {m} /\ m.type = "info"
        /\ UNCHANGED <<nSessionID, submits, cancels, failedSends>>
    BY <1>2 DEF OnQueryRsp, history
  <2>2. CASE UNCHANGED <<sess, out>>
    <3>1. \A q \in Requests : Settled(q) /\ Heard(q)
      BY <2>2 DEF Settled, Heard
    <3>. QED  BY <2>1, <3>1, QuietStep
  <2>3. ASSUME NEW r \in Find(m.kind, m.id), OnQueryUserRsp(m, r) \/ OnQueryTransRsp(m, r)
        PROVE  IInv' /\ \A q \in Requests : Heard(q)
    <3>1. /\ r \in Requests /\ sess[r] \in Session /\ Live(sess[r])
          /\ sess[r].kind = m.kind /\ sess[r].id = m.id
      BY <1>0, FoundType
    <3>2. /\ sess' = [sess EXCEPT ![r] = Released(sess[r])] /\ m.kind \in Queries
          /\ \E code \in Codes : Reply(r, code) /\ (code = "NONCE" => m.nonce # r)
      BY <1>0, <2>1, <2>3, <3>1, AfterQuery
    <3>3. m.nonce = r
      BY <1>0, <3>1, <3>2 DEF IdsOK, Own
    <3>4. sess[r].stage = "open"
      BY <1>0, <3>1, <3>2 DEF SessionsOK, Full, Live, Queries, Endorsed
    <3>5. Released(sess[r]).stage = "done" /\ Released(sess[r]).kind = sess[r].kind
      BY <1>0, <3>1, KindType
    <3>6. \A q \in Requests : Settled(q)
      BY <1>0, <3>2, <3>5 DEF Settled
    <3>7. \A q \in Requests : Heard(q)
      BY <1>0, <3>1, <3>2, <3>3, <3>4, <3>5 DEF Heard, Reply
    <3>8. IInv'
      BY <2>1, <3>6, QuietStep
    <3>. QED  BY <3>7, <3>8
  <2>. QED  BY <1>2, <2>1, <2>2, <2>3 DEF OnQueryRsp
<1>3. ASSUME UNCHANGED <<nSessionID, sess, history, out>>, NEW res \in Contents \cup Codes,
             NEW type \in {"endorsed", "submitted", "info"},
             net' = (net \ {m}) \cup {Answer(m, type, res)},
             m.type = IF type = "submitted" THEN "submit" ELSE "ask"
      PROVE  IInv' /\ failedSends \subseteq failedSends' /\ \A q \in Requests : Heard(q)
  <2>. DEFINE a == Answer(m, type, res)
  <2>1. a.type = type /\ a.id = m.id /\ a.nonce = m.nonce /\ a.h = m.h /\ a.kind = m.kind
    BY DEF Answer
  <2>. HIDE DEF a
  <2>2. (Asking(m) /\ Asking(a) /\ ~Submitting(a)) \/
        (Submitting(m) /\ Submitting(a) /\ ~Asking(a))
    BY <1>3, <2>1 DEF Asking, Submitting
  <2>3. net' = (net \ {m}) \cup {a} /\ UNCHANGED <<nSessionID, sess, submits, cancels, failedSends>>
    BY <1>3 DEF a, history
  <2>4. IInv'
    BY <2>1, <2>2, <2>3, ReplaceStep
  <2>5. \A q \in Requests : Heard(q)
    BY <1>3 DEF Heard
  <2>. QED  BY <2>3, <2>4, <2>5
<1>4. CASE EndorserAnswers(m)
  <2>1. PICK res \in Contents \cup {"SYSTEM", "NETWORK", "REFUSED"} :
          net' = (net \ {m}) \cup
                 {Answer(m, IF m.kind \in Queries THEN "info" ELSE "endorsed", res)}
    BY <1>4 DEF EndorserAnswers
  <2>2. res \in Contents \cup Codes
    BY DEF Codes
  <2>3. m.type = "ask" /\ UNCHANGED <<nSessionID, sess, history, out>>
    BY <1>4 DEF EndorserAnswers
  <2>. QED  BY <1>3, <2>1, <2>2, <2>3
<1>5. CASE EndorserSubmits(m)
  <2>1. PICK res \in {"OK", "SYSTEM"} : net' = (net \ {m}) \cup {Answer(m, "submitted", res)}
    BY <1>5 DEF EndorserSubmits
  <2>2. res \in Contents \cup Codes
    BY DEF Codes
  <2>3. m.type = "submit" /\ UNCHANGED <<nSessionID, sess, history, out>>
    BY <1>5 DEF EndorserSubmits
  <2>. QED  BY <1>3, <2>1, <2>2, <2>3
<1>. QED  BY <1>1, <1>2, <1>4, <1>5

(* Timers and lost connections end sessions; an open one is answered.      *)
LEMMA StepEnd ==
  ASSUME IInv, TypeOK', NEW ended \in SUBSET Requests, NEW code \in Codes, code # "NONCE",
         \A r \in ended : Live(sess[r]), EndWith(ended, code), net' \subseteq net,
         UNCHANGED <<nSessionID, history>>
  PROVE  IInv' /\ failedSends \subseteq failedSends' /\ \A q \in Requests : Heard(q)
<1>1. /\ \A q \in Requests :
           /\ sess'[q] = IF q \in ended THEN Released(sess[q]) ELSE sess[q]
           /\ out'[q] = IF q \in ended /\ sess[q].stage = "open"
                        THEN Append(out[q], code) ELSE out[q]
  BY DEF EndWith
<1>2. \A q \in Requests : /\ Released(sess[q]).stage = "done"
                          /\ Released(sess[q]).kind = sess[q].kind
  BY KindType DEF IInv
<1>3. \A q \in Requests : Settled(q)
  BY <1>1, <1>2 DEF Settled
<1>4. ASSUME NEW q \in Requests PROVE Heard(q)
  <2>1. CASE q \notin ended
    BY <1>1, <2>1 DEF Heard
  <2>2. CASE q \in ended
    BY <1>1, <1>2, <2>2 DEF Heard, Live
  <2>. QED  BY <2>1, <2>2
<1>5. UNCHANGED <<submits, cancels, failedSends>>
  BY DEF history
<1>. QED  BY <1>3, <1>4, <1>5, QuietStep

LEMMA StepRest ==
  ASSUME IInv, TypeOK',
         \/ OnInit \/ OnInitBcUserSdk \/ OnExit
         \/ \E r \in Requests : OnTimeOut(r)
         \/ \E h \in Handlers : OnConnectedNodify(h) \/ OnNetworkError(h)
         \/ UNCHANGED vars
  PROVE  IInv' /\ failedSends \subseteq failedSends' /\ \A q \in Requests : Heard(q)
<1>0. "TIMEOUT" \in Codes /\ "NETWORK" \in Codes
  BY DEF Codes
<1>1. ASSUME UNCHANGED <<nSessionID, sess, net, history, out>>
      PROVE  IInv' /\ failedSends \subseteq failedSends' /\ \A q \in Requests : Heard(q)
  <2>1. \A q \in Requests : Settled(q) /\ Heard(q)
    BY <1>1 DEF Settled, Heard
  <2>. QED  BY <1>1, <2>1, QuietStep DEF history
<1>2. CASE OnInit
  BY <1>1, <1>2 DEF OnInit
<1>3. CASE OnInitBcUserSdk
  BY <1>1, <1>3 DEF OnInitBcUserSdk
<1>4. CASE OnExit
  <2>1. /\ sess' = [r \in Requests |-> IF sess[r].stage = "none" THEN NoSession
                                       ELSE Released(sess[r])]
        /\ net' = {} /\ UNCHANGED <<nSessionID, submits, cancels, failedSends, out>>
    BY <1>4 DEF OnExit, history
  <2>2. \A q \in Requests : /\ Released(sess[q]).stage = "done"
                            /\ Released(sess[q]).kind = sess[q].kind
                            /\ sess[q].stage \in {"none", "open", "complete", "done"}
    BY KindType DEF IInv, Session
  <2>3. \A q \in Requests : Settled(q)
    BY <2>1, <2>2, NoSessionType DEF Settled
  <2>4. \A q \in Requests : Heard(q)
    BY <2>1, <2>2, NoSessionType DEF Heard, Live
  <2>. QED  BY <2>1, <2>3, <2>4, QuietStep
<1>5. ASSUME NEW r \in Requests, OnTimeOut(r)
      PROVE  IInv' /\ failedSends \subseteq failedSends' /\ \A q \in Requests : Heard(q)
  <2>1. /\ Live(sess[r]) /\ EndWith({r}, "TIMEOUT") /\ UNCHANGED <<nSessionID, net, history>>
    BY <1>5 DEF OnTimeOut, Live
  <2>. QED  BY <1>0, <2>1, StepEnd
<1>6. ASSUME NEW h \in Handlers, OnConnectedNodify(h)
      PROVE  IInv' /\ failedSends \subseteq failedSends' /\ \A q \in Requests : Heard(q)
  BY <1>1, <1>6 DEF OnConnectedNodify
<1>7. ASSUME NEW h \in Handlers, OnNetworkError(h)
      PROVE  IInv' /\ failedSends \subseteq failedSends' /\ \A q \in Requests : Heard(q)
  <2>1. /\ BrokenBy(h) \in SUBSET Requests /\ \A r \in BrokenBy(h) : Live(sess[r])
        /\ EndWith(BrokenBy(h), "NETWORK") /\ net' \subseteq net
        /\ UNCHANGED <<nSessionID, history>>
    BY <1>7 DEF OnNetworkError, BrokenBy, Live
  <2>. QED  BY <1>0, <2>1, StepEnd
<1>8. CASE UNCHANGED vars
  BY <1>1, <1>8 DEF vars
<1>. QED  BY <1>2, <1>3, <1>4, <1>5, <1>6, <1>7, <1>8

LEMMA CryptInit == Init => IInv /\ OutOK
<1>. SUFFICES ASSUME Init PROVE IInv /\ OutOK
  OBVIOUS
<1>1. /\ TypeOK /\ \A r \in Requests : sess[r] = NoSession /\ out[r] = <<>>
      /\ net = {} /\ submits = {} /\ cancels = {}
  BY TypeInit DEF Init
<1>2. \A r \in Requests : sess[r].stage = "none" /\ sess[r].kind = "regist"
  BY <1>1, NoSessionType
<1>3. Len(<<>>) <= 1 /\ Len(<<>>) <= 2
  BY EmptySet
<1>4. OutOK
  BY <1>1, <1>2, <1>3, EmptySet DEF OutOK, Queries
<1>. QED
  BY <1>1, <1>2, <1>4 DEF IInv, IdsOK, SessionsOK, MessagesOK, HistoryOK, OwnEndorsement, Live

LEMMA CryptNext == IInv /\ OutOK /\ [Next]_vars => IInv' /\ OutOK'
<1>. SUFFICES ASSUME IInv, OutOK, [Next]_vars PROVE IInv' /\ OutOK'
  OBVIOUS
<1>1. TypeOK /\ TypeOK'
  BY TypeNext DEF IInv
<1>2. IInv' /\ failedSends \subseteq failedSends' /\ \A q \in Requests : Heard(q)
  BY <1>1, StepAsks, StepEndorsement, StepAnswers, StepRest DEF Next, UserAsks
<1>. QED  BY <1>1, <1>2, HeardStep

LEMMA CryptInvariant == Spec => [](IInv /\ OutOK)
BY CryptInit, CryptNext, PTL DEF Spec

-----------------------------------------------------------------------------
(* The service and its callback.                                           *)

LEMMA ReadyNext == ReadyInv /\ [Next]_vars => ReadyInv'
<1>. SUFFICES ASSUME ReadyInv, [Next]_vars PROVE ReadyInv'
  OBVIOUS
<1>. USE DEF ReadyInv, SaysReady
<1>1. CASE UNCHANGED <<sdk, connected>> /\ (svc' = svc \/ svc' \in {"crashed", "exited"})
  BY <1>1 DEF sdk
<1>2. CASE OnInit
  <2>1. /\ svc = "idle" /\ svc' \in {"up", "exited"}
        /\ UNCHANGED <<callback, bReady, told, connected>>
    BY <1>2 DEF OnInit, sdk
  <2>. QED  BY <2>1
<1>3. CASE OnInitBcUserSdk
  BY <1>3 DEF OnInitBcUserSdk
<1>4. CASE OnExit
  BY <1>4 DEF OnExit
<1>5. ASSUME NEW h \in Handlers, OnConnectedNodify(h) PROVE ReadyInv'
  BY <1>5 DEF OnConnectedNodify
<1>6. ASSUME NEW h \in Handlers, OnNetworkError(h) PROVE ReadyInv'
  BY <1>6 DEF OnNetworkError
<1>7. CASE UserAsks
  <2>1. UNCHANGED <<sdk, connected>> /\ (svc' = svc \/ svc' = "crashed")
    BY <1>7 DEF UserAsks, OnReqRefused, OnReqSent, OnReqSendFailed, OnQuerySent,
                OnQuerySendFailed
  <2>. QED  BY <1>1, <2>1
<1>8. ASSUME NEW m \in net, OnEndorsement(m) PROVE ReadyInv'
  <2>1. UNCHANGED <<sdk, connected>> /\ (svc' = svc \/ svc' = "crashed")
    BY <1>8 DEF OnEndorsement
  <2>. QED  BY <1>1, <2>1
<1>9. ASSUME NEW m \in net,
             \/ OnSubmitted(m) \/ OnQueryRsp(m) \/ EndorserAnswers(m) \/ EndorserSubmits(m)
      PROVE  ReadyInv'
  BY <1>1, <1>9 DEF OnSubmitted, OnQueryRsp, EndorserAnswers, EndorserSubmits
<1>10. ASSUME NEW r \in Requests, OnTimeOut(r) PROVE ReadyInv'
  BY <1>1, <1>10 DEF OnTimeOut
<1>11. CASE UNCHANGED vars
  BY <1>1, <1>11 DEF vars
<1>. QED
  BY <1>2, <1>3, <1>4, <1>5, <1>6, <1>7, <1>8, <1>9, <1>10, <1>11 DEF Next

-----------------------------------------------------------------------------
(* The promise of UserCall, as long as no send failed half-way.            *)

Asked == {r \in Requests : sess[r].stage # "none"}
Up == svc \in {"idle", "up"}
Promise == Call!Next \/ UNCHANGED Call!vars

(* The same requests were made.                                            *)
SameAsked == \A q \in Requests : sess'[q].stage = "none" <=> sess[q].stage = "none"

LEMMA UnheardStep ==
  ASSUME SameAsked, UNCHANGED out, Up' = Up
  PROVE  Promise
<1>1. Asked' = Asked
  BY DEF SameAsked, Asked
<1>. QED  BY <1>1 DEF Promise, Call!vars, Asked, Up

LEMMA StopStep ==
  ASSUME SameAsked, UNCHANGED out, Up, ~Up'
  PROVE  Promise
<1>1. Asked' = Asked
  BY DEF SameAsked, Asked
<1>2. Call!Stop
  BY <1>1 DEF Call!Stop, Asked, Up
<1>. QED  BY <1>2 DEF Promise, Call!Next

(* A request is taken, or answered at once.                                *)
LEMMA AskStep ==
  ASSUME OutOK, NEW r \in Requests, Up, Up', sess[r].stage = "none",
         sess'[r].stage # "none", \A q \in Requests \ {r} : sess'[q] = sess[q],
         \/ UNCHANGED out
         \/ \E code \in Codes \ {"OK"} : out' = [out EXCEPT ![r] = Append(@, code)]
  PROVE  Promise
<1>1. r \notin Asked /\ Asked' = Asked \cup {r}
  BY DEF Asked
<1>2. out[r] = <<>>
  BY DEF OutOK
<1>3. \A code \in Codes : Append(<<>>, code) = <<code>>
  OBVIOUS
<1>4. \/ UNCHANGED out
      \/ \E code \in Codes \ {"OK"} : out' = [out EXCEPT ![r] = <<code>>]
  BY <1>2, <1>3
<1>5. Call!Ask(r)
  BY <1>1, <1>4 DEF Call!Ask, Asked, Up
<1>. QED  BY <1>5 DEF Promise, Call!Next

(* Open requests, any number at once, are answered.                        *)
LEMMA AnswerStep ==
  ASSUME TypeOK, OutOK, Up, Up', SameAsked, NEW R \in SUBSET Requests,
         \A r \in R : sess[r].stage = "open", NEW code \in Codes,
         out' = [r \in Requests |-> IF r \in R THEN Append(out[r], code) ELSE out[r]]
  PROVE  Promise
<1>1. \A r \in R : out[r] = <<>> /\ r \in Asked
  BY DEF OutOK, Asked
<1>2. Append(<<>>, code) = <<code>> /\ code \in Codes
  OBVIOUS
<1>3. out' = [r \in Requests |-> IF r \in R THEN <<code>> ELSE out[r]]
  BY <1>1, <1>2
<1>4. Asked' = Asked
  BY DEF SameAsked, Asked
<1>5. CASE R = {}
  <2>1. out' = out
    BY <1>3, <1>5 DEF TypeOK
  <2>2. Up' = Up
    BY SMT DEF Up
  <2>. QED  BY <2>1, <2>2, UnheardStep
<1>6. CASE R # {}
  <2>1. R \subseteq Call!Unanswered
    BY <1>1 DEF Call!Unanswered, Asked
  <2>2. Call!AnswerAll(R)
    BY <1>2, <1>3, <1>4, <2>1 DEF Call!AnswerAll, Asked, Up
  <2>3. PICK r \in R : TRUE
    BY <1>6
  <2>4. Call!Answer(r)
    BY <2>1, <2>2, <2>3 DEF Call!Answer
  <2>. QED  BY <2>4 DEF Promise, Call!Next
<1>. QED  BY <1>5, <1>6

(* One open request is answered, and its session changed.                  *)
LEMMA AnswerOne ==
  ASSUME TypeOK, OutOK, Up, Up', NEW r \in Requests, sess[r].stage = "open",
         NEW s, s.stage # "none", sess' = [sess EXCEPT ![r] = s],
         NEW code \in Codes, Reply(r, code)
  PROVE  Promise
<1>1. SameAsked
  BY DEF SameAsked, TypeOK
<1>2. out' = [q \in Requests |-> IF q \in {r} THEN Append(out[q], code) ELSE out[q]]
  BY DEF Reply, TypeOK
<1>3. \A q \in {r} : sess[q].stage = "open"
  OBVIOUS
<1>. QED  BY <1>1, <1>2, <1>3, AnswerStep

(* Timers and lost connections: nobody is asked twice.                     *)
LEMMA AnswerEnded ==
  ASSUME TypeOK, OutOK, Up, Up', NEW ended \in SUBSET Requests, NEW code \in Codes,
         \A r \in ended : Live(sess[r]), EndWith(ended, code)
  PROVE  Promise
<1>. DEFINE R == {r \in ended : sess[r].stage = "open"}
<1>1. SameAsked
  BY KindType DEF SameAsked, EndWith, Live
<1>2. out' = [r \in Requests |-> IF r \in R THEN Append(out[r], code) ELSE out[r]]
  BY DEF EndWith
<1>3. R \in SUBSET Requests /\ \A r \in R : sess[r].stage = "open"
  OBVIOUS
<1>. HIDE DEF R
<1>. QED  BY <1>1, <1>2, <1>3, AnswerStep

LEMMA AsksKept ==
  ASSUME TypeOK, TypeOK', OutOK, failedSends' = {}, NEW r \in Requests, NEW kind \in Kinds,
         \/ OnReqRefused(r, kind) \/ OnReqSent(r, kind) \/ OnReqSendFailed(r, kind)
         \/ OnQuerySent(r, kind) \/ OnQuerySendFailed(r, kind)
  PROVE  Promise
<1>1. sess \in [Requests -> Session] /\ Up /\ sess[r].stage = "none"
  BY DEF TypeOK, OnReqRefused, OnReqSent, OnReqSendFailed, OnQuerySent,
         OnQuerySendFailed, CanAsk, Up
<1>2. ASSUME NEW code \in {"NETWORK", "SYSTEM"}, Reply(r, code),
             sess' = [sess EXCEPT ![r] = Released(NoneOf(kind))], UNCHANGED svc
      PROVE  Promise
  <2>1. code \in Codes \ {"OK"}
    BY DEF Codes
  <2>2. sess'[r].stage # "none" /\ \A q \in Requests \ {r} : sess'[q] = sess[q]
    BY <1>1, <1>2, NoneOfType
  <2>. QED  BY <1>1, <1>2, <2>1, <2>2, AskStep DEF Reply, Up
<1>3. ASSUME NEW s, s.stage = "open", sess' = [sess EXCEPT ![r] = s],
             UNCHANGED <<svc, out>>
      PROVE  Promise
  <2>1. sess'[r].stage # "none" /\ \A q \in Requests \ {r} : sess'[q] = sess[q]
    BY <1>1, <1>3
  <2>. QED  BY <1>1, <1>3, <2>1, AskStep DEF Up
<1>4. CASE OnReqRefused(r, kind)
  <2>1. PICK code \in Refusals(kind) : Reply(r, code)
    BY <1>4 DEF OnReqRefused
  <2>. QED  BY <1>2, <1>4, <2>1, RefusalTypes DEF OnReqRefused, NoneOf
<1>5. CASE OnReqSent(r, kind)
  <2>1. PICK hs \in SUBSET connected, wait \in BOOLEAN, elected \in connected :
          sess' = [sess EXCEPT ![r] = NewSession(kind, wait, hs, elected)]
    BY <1>5 DEF OnReqSent, Dealings
  <2>2. NewSession(kind, wait, hs, elected).stage = "open"
    BY NewSessionType DEF TypeOK
  <2>3. UNCHANGED <<svc, out>>
    BY <1>5 DEF OnReqSent
  <2>. QED  BY <1>3, <2>1, <2>2, <2>3
<1>6. CASE OnReqSendFailed(r, kind)
  BY <1>6 DEF OnReqSendFailed
<1>7. CASE OnQuerySent(r, kind)
  <2>1. PICK h \in connected : sess' = [sess EXCEPT ![r] = NewSession(kind, FALSE, {h}, h)]
    BY <1>7 DEF OnQuerySent
  <2>2. NewSession(kind, FALSE, {h}, h).stage = "open"
    BY DEF NewSession, NoSession
  <2>3. UNCHANGED <<svc, out>>
    BY <1>7 DEF OnQuerySent
  <2>. QED  BY <1>3, <2>1, <2>2, <2>3
<1>8. CASE OnQuerySendFailed(r, kind)
  <2>1. CASE Reply(r, "NETWORK") /\ UNCHANGED svc /\
             sess' = [sess EXCEPT ![r] = Released(NoneOf(kind))]
    BY <1>2, <2>1
  <2>2. CASE svc' = "crashed" /\ UNCHANGED <<sess, out>>
    BY <1>1, <2>2, StopStep DEF SameAsked, Up
  <2>. QED  BY <1>8, <2>1, <2>2 DEF OnQuerySendFailed, NoneOf
<1>. QED  BY <1>4, <1>5, <1>6, <1>7, <1>8

LEMMA EndorsementKept ==
  ASSUME IInv, OutOK, failedSends' = {}, NEW m \in net, OnEndorsement(m)
  PROVE  Promise
<1>0. /\ TypeOK /\ m.type = "endorsed" /\ IdsOK /\ Up /\ failedSends = {}
      /\ sess \in [Requests -> Session]
  BY DEF IInv, TypeOK, OnEndorsement, Up
<1>1. ASSUME UNCHANGED <<sess, out>>, svc' \in {"up", "crashed"} PROVE Promise
  <2>1. SameAsked /\ UNCHANGED out
    BY <1>1 DEF SameAsked
  <2>2. CASE svc' = "up"
    BY <1>0, <2>1, <2>2, UnheardStep DEF Up
  <2>3. CASE svc' = "crashed"
    BY <1>0, <2>1, <2>3, StopStep DEF Up
  <2>. QED  BY <1>1, <2>2, <2>3
<1>2. ASSUME NEW r \in Find(m.kind, m.id), UNCHANGED svc,
             \/ m.kind = "regist" /\ OnRegistUserRsp(m, r)
             \/ m.kind = "propose" /\ OnSubmitProposalRsp(m, r)
      PROVE  Promise
  <2>1. /\ m \in Message /\ r \in Requests /\ sess[r] \in Session /\ Live(sess[r])
        /\ sess[r].kind = m.kind /\ sess[r].id = m.id /\ m.kind \in Endorsed
    BY <1>0, <1>2, FoundType DEF Endorsed
  <2>2. Up' = Up /\ Up'
    BY <1>0, <1>2 DEF Up
  <2>3. CASE Takes(m, r)
    <3>1. /\ sess' = [sess EXCEPT ![r] = Counted(sess[r], m)] /\ UNCHANGED out
          /\ Counted(sess[r], m).stage = sess[r].stage
      BY <1>0, <2>1, <2>3, CountedType DEF Takes
    <3>2. SameAsked
      BY <1>0, <2>1, <3>1 DEF SameAsked
    <3>. QED  BY <2>2, <3>1, <3>2, UnheardStep
  <2>4. ASSUME NEW code \in Codes, NEW s, Refuses(m, r, s, code) PROVE Promise
    <3>1. m.nonce = r
      BY <1>0, <2>1 DEF IdsOK, Own
    <3>2. sess[r].stage = "open"
      BY <1>0, <2>1, <3>1, Incoming
    <3>3. sess' = [sess EXCEPT ![r] = Released(sess[r])] /\ Reply(r, code)
      BY <2>4 DEF Refuses, EndorsementFails
    <3>4. Released(sess[r]).stage # "none"
      BY <1>0, <2>1, KindType
    <3>. QED  BY <1>0, <2>1, <2>2, <3>2, <3>3, <3>4, AnswerOne
  <2>. QED  BY <1>0, <1>2, <2>3, <2>4, TakesOrRefuses
<1>. QED  BY <1>0, <1>1, <1>2 DEF OnEndorsement, Up

LEMMA AnswersKept ==
  ASSUME IInv, OutOK, NEW m \in net,
         \/ OnSubmitted(m) \/ OnQueryRsp(m) \/ EndorserAnswers(m) \/ EndorserSubmits(m)
  PROVE  Promise
<1>0. /\ TypeOK /\ m \in Message /\ sess \in [Requests -> Session]
      /\ IdsOK /\ SessionsOK /\ MessagesOK
  BY DEF IInv, TypeOK
<1>1. svc = "up" /\ UNCHANGED svc /\ Up /\ Up' /\ Up' = Up
  BY DEF OnSubmitted, OnQueryRsp, EndorserAnswers, EndorserSubmits, Up
<1>2. CASE UNCHANGED <<sess, out>>
  BY <1>1, <1>2, UnheardStep DEF SameAsked
<1>3. ASSUME NEW r \in Find(m.kind, m.id), m.type = "submitted", m.kind \in Endorsed,
             OnSubmitRegistRsp(m, r) \/ OnSubmitProposalTransRsp(m, r)
      PROVE  Promise
  <2>1. /\ r \in Requests /\ sess[r] \in Session /\ Live(sess[r])
    BY <1>0, FoundType
  <2>2. ASSUME Opened(m, r) = "OK", Reply(r, "OK"),
               NEW e \in {[sess[r] EXCEPT !.stage = "complete"], Released(sess[r])},
               sess' = [sess EXCEPT ![r] = e]
        PROVE  Promise
    <3>1. m.nonce = r
      BY <1>0, <1>3, <2>1, <2>2, OpenedType
    <3>2. sess[r].stage = "open"
      BY <1>0, <1>3, <2>1, <3>1 DEF MessagesOK, Submitting
    <3>3. e.stage # "none"
      BY <1>0, <2>1, <2>2, KindType, CompletedType
    <3>. QED  BY <1>0, <1>1, <2>1, <2>2, <3>2, <3>3, AnswerOne DEF Codes
  <2>. QED  BY <1>2, <1>3, <2>2, AfterSubmit
<1>4. ASSUME NEW r \in Find(m.kind, m.id), m.type = "info",
             OnQueryUserRsp(m, r) \/ OnQueryTransRsp(m, r)
      PROVE  Promise
  <2>1. /\ r \in Requests /\ sess[r] \in Session /\ Live(sess[r]) /\ sess[r].kind = m.kind
    BY <1>0, FoundType
  <2>2. /\ sess' = [sess EXCEPT ![r] = Released(sess[r])] /\ m.kind \in Queries
        /\ \E code \in Codes : Reply(r, code) /\ (code = "NONCE" => m.nonce # r)
    BY <1>0, <1>4, <2>1, AfterQuery
  <2>3. sess[r].stage = "open"
    BY <1>0, <2>1, <2>2 DEF SessionsOK, Full, Live, Queries, Endorsed
  <2>4. Released(sess[r]).stage # "none"
    BY <1>0, <2>1, KindType
  <2>. QED  BY <1>0, <1>1, <2>1, <2>2, <2>3, <2>4, AnswerOne
<1>5. CASE OnSubmitted(m)
  BY <1>2, <1>3, <1>5 DEF OnSubmitted, Endorsed
<1>6. CASE OnQueryRsp(m)
  BY <1>2, <1>4, <1>6 DEF OnQueryRsp
<1>7. CASE EndorserAnswers(m) \/ EndorserSubmits(m)
  BY <1>2, <1>7 DEF EndorserAnswers, EndorserSubmits
<1>. QED  BY <1>5, <1>6, <1>7

LEMMA RestKept ==
  ASSUME TypeOK, OutOK,
         \/ OnInit \/ OnInitBcUserSdk \/ OnExit
         \/ \E r \in Requests : OnTimeOut(r)
         \/ \E h \in Handlers : OnConnectedNodify(h) \/ OnNetworkError(h)
         \/ UNCHANGED vars
  PROVE  Promise
<1>1. ASSUME UNCHANGED <<sess, out>>, Up' = Up PROVE Promise
  BY <1>1, UnheardStep DEF SameAsked
<1>2. CASE OnInit
  <2>1. SameAsked /\ UNCHANGED out /\ Up
    BY <1>2 DEF OnInit, SameAsked, Up
  <2>2. CASE svc' = "up"
    BY <2>1, <2>2, UnheardStep DEF Up
  <2>3. CASE svc' = "exited"
    BY <2>1, <2>3, StopStep DEF Up
  <2>. QED  BY <1>2, <2>2, <2>3 DEF OnInit
<1>3. CASE OnInitBcUserSdk
  BY <1>1, <1>3 DEF OnInitBcUserSdk, Up
<1>4. CASE OnExit
  <2>1. SameAsked
    BY <1>4, KindType, NoSessionType DEF OnExit, SameAsked
  <2>2. UNCHANGED out /\ Up /\ ~Up'
    BY <1>4 DEF OnExit, Up
  <2>. QED  BY <2>1, <2>2, StopStep
<1>5. ASSUME NEW r \in Requests, OnTimeOut(r) PROVE Promise
  <2>1. /\ Live(sess[r]) /\ EndWith({r}, "TIMEOUT") /\ Up /\ Up' /\ "TIMEOUT" \in Codes
    BY <1>5 DEF OnTimeOut, Live, Up, Codes
  <2>. QED  BY <2>1, AnswerEnded
<1>6. ASSUME NEW h \in Handlers, OnConnectedNodify(h) PROVE Promise
  BY <1>1, <1>6 DEF OnConnectedNodify, Up
<1>7. ASSUME NEW h \in Handlers, OnNetworkError(h) PROVE Promise
  <2>1. /\ BrokenBy(h) \in SUBSET Requests /\ \A r \in BrokenBy(h) : Live(sess[r])
        /\ EndWith(BrokenBy(h), "NETWORK") /\ Up /\ Up' /\ "NETWORK" \in Codes
    BY <1>7 DEF OnNetworkError, BrokenBy, Live, Up, Codes
  <2>. QED  BY <2>1, AnswerEnded
<1>8. CASE UNCHANGED vars
  BY <1>1, <1>8 DEF vars, Up
<1>. QED  BY <1>2, <1>3, <1>4, <1>5, <1>6, <1>7, <1>8

LEMMA PromiseNext ==
  IInv /\ OutOK /\ IInv' /\ [Next]_vars =>
    [failedSends' = {} => UNCHANGED Call!vars \/ Call!Next]_vars
<1>. SUFFICES ASSUME IInv, OutOK, IInv', failedSends' = {}, [Next]_vars PROVE Promise
  BY DEF Promise
<1>1. TypeOK /\ TypeOK'
  BY DEF IInv
<1>. QED
  BY <1>1, AsksKept, EndorsementKept, AnswersKept, RestKept DEF Next, UserAsks

LEMMA PromiseInit == Init => Call!Init
<1>. SUFFICES ASSUME Init PROVE Call!Init
  OBVIOUS
<1>1. \A r \in Requests : sess[r].stage = "none"
  BY NoSessionType DEF Init
<1>. QED  BY <1>1 DEF Init, Call!Init

-----------------------------------------------------------------------------
(* Theorems.                                                               *)

(* A submit names the session that the elected endorser opened for this    *)
(* request, each endorser asked voted for it, and no two non-empty votes   *)
(* differ, for any number of endorsers, whatever sends fail and whatever   *)
(* ids are used twice: the nonce decides (lines 364-421 and 622-671).      *)
THEOREM CryptOwnEndorsement == Spec => []OwnEndorsement
<1>1. IInv => OwnEndorsement
  BY DEF IInv
<1>. QED  BY <1>1, CryptInvariant, PTL

(* Unless an id was used twice after a failed send, no endorser session is *)
(* both submitted and cancelled (lines 405-488 and 652-722).               *)
THEOREM CryptSubmitOrCancel == Spec => []SubmitOrCancel
<1>1. IInv => SubmitOrCancel
  <2>. SUFFICES ASSUME IInv, failedSends = {}, NEW s \in submits, NEW c \in cancels,
                       s.es = c.es, s.es # Unset
                PROVE  FALSE
    BY DEF SubmitOrCancel
  <2>1. s.es = [h |-> s.h, req |-> s.req]
    BY DEF IInv, OwnEndorsement
  <2>2. s.es.req = s.req
    BY <2>1
  <2>3. c.es.req = c.req /\ s.req # c.req
    BY DEF IInv, HistoryOK
  <2>. QED  BY <2>2, <2>3
<1>. QED  BY <1>1, CryptInvariant, PTL

(* Every request has at most one answer, or two after a send that failed   *)
(* half-way, and no query is answered with what another one asked: lines   *)
(* 181-278 and 816-937.                                                    *)
THEOREM CryptSessionsSound == Spec => []SessionsSound
<1>1. IInv /\ OutOK => SessionsSound
  BY DEF IInv, OutOK, SessionsSound, OneAnswer, QueriesHearOwn
<1>. QED  BY <1>1, CryptInvariant, PTL

(* The application is told of the first peer and of the loss of the last,  *)
(* whenever it registers its callback: lines 939-954, 1095-1133, 1228-1233.*)
THEOREM CryptSaysReady == Spec => []SaysReady
<1>1. Init => ReadyInv
  BY DEF Init, ReadyInv, SaysReady
<1>2. ReadyInv => SaysReady
  BY DEF ReadyInv
<1>. QED  BY <1>1, <1>2, ReadyNext, PTL DEF Spec

(* The answers that users get are those that UserCall promises, the same   *)
(* specification that CVbhClientService implements, as long as no send     *)
(* failed half-way: lines 181-278, 405-488 and 1135-1239.                  *)
THEOREM CryptPromiseKept == Spec => KeepsPromise
BY CryptInvariant, PromiseInit, PromiseNext, PTL DEF Spec, KeepsPromise
=============================================================================
