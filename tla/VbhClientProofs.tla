-------------------------- MODULE VbhClientProofs --------------------------
(***************************************************************************)
(* Theorems about VbhClient that need no assumption on its constants: the  *)
(* types, and that a session which owes an answer uses live connections.   *)
(***************************************************************************)
EXTENDS VbhClient, TLAPS

(* The elected endorser is one of those that the request was sent to.      *)
ElectedOK ==
  \A r \in Requests :
    sess[r].stage = "endorsing" => sess[r].submitEs \in sess[r].arrHandle

TypeInv == TypeOK /\ ElectedOK

-----------------------------------------------------------------------------
(* Types of the helpers.                                                   *)

LEMMA FreedType ==
  ASSUME NEW s \in Session
  PROVE  /\ Freed(s) \in Session
         /\ Freed(s).stage = "done"
         /\ Freed(s).id = s.id /\ Freed(s).wait = s.wait /\ Freed(s).kind = s.kind
BY DEF Session, Freed, NoSession, Kinds

LEMMA NoSessionType ==
  NoSession \in Session /\ NoSession.stage = "none"
BY DEF Session, NoSession, Kinds

LEMMA NewSessionType ==
  ASSUME NEW kind \in Kinds, NEW wait \in BOOLEAN, NEW hs \in SUBSET Handlers,
         NEW h \in Handlers, nSessionID \in Nat
  PROVE  /\ NewSession(kind, wait, hs, h) \in Session
         /\ NewSession(kind, wait, hs, h).stage = "endorsing"
         /\ NewSession(kind, wait, hs, h).id = nSessionID
         /\ NewSession(kind, wait, hs, h).arrHandle = hs
         /\ NewSession(kind, wait, hs, h).submitEs = h
         /\ NewSession(kind, wait, hs, h).nEsSessionID = Unset
         /\ NewSession(kind, wait, hs, h).nSucceedRspNum = 0
         /\ NewSession(kind, wait, hs, h).content = Empty
         /\ NewSession(kind, wait, hs, h).votes = {}
         /\ NewSession(kind, wait, hs, h).wait = wait
         /\ NewSession(kind, wait, hs, h).kind = kind
BY DEF Session, NewSession, NoSession, Kinds

LEMMA CountedType ==
  ASSUME NEW s \in Session, NEW m \in Message, m.type = "endorsed", Agrees(s, m)
  PROVE  /\ Counted(s, m) \in Session
         /\ Counted(s, m).stage = s.stage
         /\ Counted(s, m).kind = s.kind
         /\ Counted(s, m).wait = s.wait
         /\ Counted(s, m).id = s.id
         /\ Counted(s, m).arrHandle = s.arrHandle
         /\ Counted(s, m).submitEs = s.submitEs
         /\ Counted(s, m).nSucceedRspNum = s.nSucceedRspNum + 1
         /\ Counted(s, m).content = m.res
         /\ Counted(s, m).votes =
              s.votes \cup {[h |-> m.h, req |-> m.req, content |-> m.res]}
         /\ Counted(s, m).nEsSessionID =
              IF m.h = s.submitEs THEN [h |-> m.h, req |-> m.req] ELSE s.nEsSessionID
<1>1. m.h \in Handlers /\ m.req \in Requests
  BY DEF Message
<1>2. m.res \in Contents /\ s.content \in {Empty, m.res}
  BY DEF Agrees
<1>3. [h |-> m.h, req |-> m.req, content |-> m.res] \in Votes
  BY <1>1, <1>2 DEF Votes
<1>4. [h |-> m.h, req |-> m.req] \in EsSessions
  BY <1>1 DEF EsSessions
<1>. DEFINE n == s.nSucceedRspNum + 1
            es == IF m.h = s.submitEs THEN [h |-> m.h, req |-> m.req]
                  ELSE s.nEsSessionID
            vs == s.votes \cup {[h |-> m.h, req |-> m.req, content |-> m.res]}
            c == m.res
<1>5. n \in Nat /\ vs \in SUBSET Votes /\ c \in Contents
      /\ es \in EsSessions \cup {Unset}
  BY <1>2, <1>3, <1>4 DEF Session
<1>6. s.content = Empty \/ s.content = c
  BY <1>2
<1>. HIDE DEF n, es, vs, c
<1>7. Counted(s, m) =
        [s EXCEPT !.content = c, !.nSucceedRspNum = n, !.nEsSessionID = es,
                  !.votes = vs]
  BY <1>6 DEF Counted, n, es, vs, c, Session
<1>8. [s EXCEPT !.content = c, !.nSucceedRspNum = n, !.nEsSessionID = es,
                !.votes = vs] \in Session
  BY <1>5 DEF Session
<1>. QED
  BY <1>5, <1>7, <1>8 DEF Session, n, es, vs, c

LEMMA AfterSubmitType ==
  ASSUME NEW s \in Session, s.submitEs \in Handlers, NEW code
  PROVE  /\ AfterSubmit(s, code) \in Session
         /\ AfterSubmit(s, code).id = s.id
         /\ AfterSubmit(s, code).kind = s.kind
         /\ AfterSubmit(s, code).wait = s.wait
         /\ AfterSubmit(s, code).stage \in {"orphan", "waiting", "done"}
         /\ code # "OK" => /\ AfterSubmit(s, code).stage = "orphan"
                           /\ AfterSubmit(s, code).arrHandle = s.arrHandle
         /\ code = "OK" => AfterSubmit(s, code).stage \in {"waiting", "done"}
         /\ AfterSubmit(s, code).stage = "waiting" => s.wait
<1>1. CASE code # "OK"
  <2>1. AfterSubmit(s, code) = [s EXCEPT !.stage = "orphan"]
    BY <1>1 DEF AfterSubmit
  <2>. QED  BY <1>1, <2>1 DEF Session
<1>2. CASE code = "OK" /\ s.wait
  <2>1. AfterSubmit(s, code) =
          [Freed(s) EXCEPT !.stage = "waiting", !.arrHandle = {s.submitEs},
                           !.submitEs = s.submitEs]
    BY <1>2 DEF AfterSubmit
  <2>2. /\ Freed(s) \in Session
        /\ Freed(s).id = s.id /\ Freed(s).wait = s.wait /\ Freed(s).kind = s.kind
    BY FreedType
  <2>. DEFINE f == Freed(s)
              a == [f EXCEPT !.stage = "waiting", !.arrHandle = {s.submitEs},
                             !.submitEs = s.submitEs]
  <2>. HIDE DEF f
  <2>3. f \in Session /\ f.id = s.id /\ f.wait = s.wait /\ f.kind = s.kind
    BY <2>2 DEF f
  <2>4. a \in Session
    BY <2>3 DEF Session
  <2>5. a.id = f.id /\ a.wait = f.wait /\ a.kind = f.kind /\ a.stage = "waiting"
    BY <2>3 DEF Session
  <2>6. AfterSubmit(s, code) = a
    BY <2>1 DEF f
  <2>. QED  BY <1>2, <2>3, <2>4, <2>5, <2>6
<1>3. CASE code = "OK" /\ ~s.wait
  <2>1. AfterSubmit(s, code) = Freed(s)
    BY <1>3 DEF AfterSubmit
  <2>. QED  BY <1>3, <2>1, FreedType
<1>. QED  BY <1>1, <1>2, <1>3

LEMMA EndorseReqType ==
  ASSUME NEW r \in Requests, NEW s \in Session, NEW h \in Handlers
  PROVE  /\ EndorseReq(r, s, h) \in Message
         /\ EndorseReq(r, s, h).type = "endorse"
         /\ EndorseReq(r, s, h).id = s.id
         /\ EndorseReq(r, s, h).req = r
         /\ EndorseReq(r, s, h).h = h
BY DEF EndorseReq, Message, Session

LEMMA EndorseRspType ==
  ASSUME NEW m \in Message, m.type = "endorse", NEW res \in Contents \cup Failures
  PROVE  /\ EndorseRsp(m, res) \in Message
         /\ EndorseRsp(m, res).type = "endorsed"
         /\ EndorseRsp(m, res).id = m.id
         /\ EndorseRsp(m, res).req = m.req
         /\ EndorseRsp(m, res).h = m.h
BY DEF EndorseRsp, Message

LEMMA SubmitReqType ==
  ASSUME NEW s \in Session, s.submitEs \in Handlers
  PROVE  /\ SubmitReq(s) \in Message
         /\ SubmitReq(s).type = "submit"
         /\ SubmitReq(s).id = s.id
         /\ SubmitReq(s).es = s.nEsSessionID
BY DEF SubmitReq, Message, Session

LEMMA SubmitRspType ==
  ASSUME NEW m \in Message, m.type = "submit", m.es # Unset,
         NEW code \in {"OK", "SYSTEM"}
  PROVE  /\ SubmitRsp(m, code) \in Message
         /\ SubmitRsp(m, code).type = "submitted"
         /\ SubmitRsp(m, code).id = m.id
         /\ SubmitRsp(m, code).req = m.es.req
         /\ TransNotify(m) \in Message
         /\ TransNotify(m).type = "notify"
         /\ TransNotify(m).id = m.id
         /\ TransNotify(m).req = m.es.req
BY DEF SubmitRsp, TransNotify, Message, EsSessions

(* One session changes.                                                    *)
LEMMA OneSession ==
  ASSUME TypeInv, NEW r \in Requests, NEW s \in Session,
         s.stage = "endorsing" => s.submitEs \in s.arrHandle,
         sess' = [sess EXCEPT ![r] = s]
  PROVE  sess' \in [Requests -> Session] /\ ElectedOK'
BY DEF TypeInv, TypeOK, ElectedOK

LEMMA ReplyType ==
  ASSUME TypeInv, NEW r \in Requests, NEW code \in Answers, Reply(r, code)
  PROVE  out' \in [Requests -> Seq(Answers)]
BY DEF TypeInv, TypeOK, Reply

SubmitRecords ==
  [req : Requests, h : Handlers, es : EsSessions \cup {Unset},
   picked : SUBSET Handlers, votes : SUBSET Votes]
CancelRecords == [req : Requests, h : Handlers, es : EsSessions \cup {Unset}]

LEMMA RecordTypes ==
  ASSUME NEW r \in Requests, NEW s \in Session, s.submitEs \in Handlers
  PROVE  SubmitRecord(r, s) \in SubmitRecords /\ CancelRecord(r, s) \in CancelRecords
BY DEF SubmitRecord, CancelRecord, SubmitRecords, CancelRecords, Session

LEMMA SentTypes ==
  ASSUME NEW r \in Requests, NEW s \in Session, NEW hs \in SUBSET Handlers
  PROVE  {EndorseReq(r, s, x) : x \in hs} \subseteq Message
BY EndorseReqType

-----------------------------------------------------------------------------
(* Every step keeps the types.                                             *)

LEMMA TypeInit == Init => TypeInv
<1>. SUFFICES ASSUME Init PROVE TypeInv
  OBVIOUS
<1>1. sess \in [Requests -> Session]
  BY NoSessionType DEF Init
<1>. QED
  BY <1>1, NoSessionType DEF Init, TypeInv, TypeOK, ElectedOK

LEMMA TypeAsks == TypeInv /\ UserAsks => TypeInv'
<1>. SUFFICES ASSUME TypeInv,
                     NEW r \in Requests, NEW kind \in Kinds, NEW wait \in BOOLEAN,
                     \/ OnReqRefused(kind, r, wait)
                     \/ OnReqSent(kind, r, wait)
                     \/ OnReqSendFailed(kind, r, wait)
              PROVE  TypeInv'
  BY DEF UserAsks
<1>0. /\ nSessionID \in Nat /\ connected \subseteq Handlers /\ net \subseteq Message
      /\ out \in [Requests -> Seq(Answers)]
  BY DEF TypeInv, TypeOK
<1>1. CASE OnReqRefused(kind, r, wait)
  <2>. DEFINE s0 == [NoSession EXCEPT !.kind = kind, !.wait = wait]
  <2>1. s0 \in Session
    BY NoSessionType DEF Session
  <2>2. Freed(s0) \in Session /\ Freed(s0).stage = "done"
    BY <2>1, FreedType
  <2>3. sess' = [sess EXCEPT ![r] = Freed(s0)]
    BY <1>1 DEF OnReqRefused
  <2>. HIDE DEF s0
  <2>4. sess' \in [Requests -> Session] /\ ElectedOK'
    BY <2>2, <2>3, OneSession
  <2>5. out' \in [Requests -> Seq(Answers)]
    BY <1>1, ReplyType DEF OnReqRefused, Answers
  <2>. QED
    BY <1>1, <2>4, <2>5 DEF OnReqRefused, TypeInv, TypeOK
<1>2. CASE OnReqSent(kind, r, wait)
  <2>1. PICK hs \in SUBSET connected, h \in connected :
          /\ h \in hs
          /\ sess' = [sess EXCEPT ![r] = NewSession(kind, wait, hs, h)]
          /\ net' = net \cup {EndorseReq(r, NewSession(kind, wait, hs, h), x) : x \in hs}
    BY <1>2 DEF OnReqSent
  <2>. DEFINE s == NewSession(kind, wait, hs, h)
  <2>0. hs \in SUBSET Handlers /\ h \in Handlers
    BY <1>0
  <2>. HIDE DEF s
  <2>2. s \in Session /\ s.submitEs = h /\ s.arrHandle = hs
    <3>1. s \in Session
      BY <1>0, <2>0, NewSessionType DEF s
    <3>2. s.submitEs = h /\ s.arrHandle = hs
      BY DEF s, NewSession, NoSession
    <3>. QED  BY <3>1, <3>2
  <2>3. sess' \in [Requests -> Session] /\ ElectedOK'
    BY <2>1, <2>2, OneSession DEF s
  <2>4. net' \subseteq Message
    BY <1>0, <2>0, <2>1, <2>2, SentTypes DEF s
  <2>. QED
    BY <1>2, <2>3, <2>4 DEF OnReqSent, TypeInv, TypeOK
<1>3. CASE OnReqSendFailed(kind, r, wait)
  <2>1. PICK hs \in SUBSET connected, f \in SendFails \cap connected :
          /\ sess' = [sess EXCEPT ![r] = Freed(NewSession(kind, wait, hs, f))]
          /\ net' = net \cup {EndorseReq(r, NewSession(kind, wait, hs, f), x) : x \in hs}
    BY <1>3 DEF OnReqSendFailed
  <2>. DEFINE s == NewSession(kind, wait, hs, f)
  <2>0. hs \in SUBSET Handlers /\ f \in Handlers
    BY <1>0
  <2>2. s \in Session
    BY <1>0, <2>0, NewSessionType
  <2>3. Freed(s) \in Session /\ Freed(s).stage = "done"
    BY <2>2, FreedType
  <2>4. sess' \in [Requests -> Session] /\ ElectedOK'
    BY <2>1, <2>3, OneSession
  <2>5. net' \subseteq Message
    BY <1>0, <2>1, <2>2, SentTypes
  <2>. DEFINE a == IF kind = "regist" THEN <<"NETWORK", "NETWORK">> ELSE <<"NETWORK">>
  <2>6. a \in Seq(Answers)
    <3>1. <<"NETWORK">> \in Seq(Answers)
      BY DEF Answers
    <3>2. <<"NETWORK", "NETWORK">> \in Seq(Answers)
      BY DEF Answers
    <3>. QED  BY <3>1, <3>2
  <2>8. out' = [out EXCEPT ![r] = a]
    BY <1>3 DEF OnReqSendFailed
  <2>. HIDE DEF a
  <2>7. out' \in [Requests -> Seq(Answers)]
    BY <1>0, <2>6, <2>8
  <2>. QED
    BY <1>3, <2>4, <2>5, <2>7 DEF OnReqSendFailed, TypeInv, TypeOK
<1>. QED
  BY <1>1, <1>2, <1>3

(* What the handlers of answers start from.                                *)
LEMMA FoundType ==
  ASSUME TypeInv, NEW m \in net, NEW r \in Find(m.kind, m.id, "endorsing")
  PROVE  /\ m \in Message /\ r \in Requests
         /\ sess[r] \in Session /\ sess[r].stage = "endorsing"
         /\ sess[r].submitEs \in sess[r].arrHandle
         /\ sess[r].submitEs \in Handlers
         /\ sess[r].id = m.id
<1>1. m \in Message /\ r \in Requests /\ sess[r] \in Session
      /\ sess[r].stage = "endorsing" /\ sess[r].id = m.id
  BY DEF TypeInv, TypeOK, Find
<1>2. sess[r].submitEs \in sess[r].arrHandle
  BY <1>1 DEF TypeInv, ElectedOK
<1>3. sess[r].arrHandle \subseteq Handlers
  BY <1>1 DEF Session
<1>. QED  BY <1>1, <1>2, <1>3

LEMMA TypeEndorsed ==
  ASSUME TypeInv, NEW m \in net, m.type = "endorsed",
         NEW r \in Find(m.kind, m.id, "endorsing"),
         \/ OnEndorsementCounted(m, r) \/ OnEndorsed(m, r)
         \/ OnEndorsedSendFailed(m, r) \/ OnEndorsementFailed(m, r)
         \/ OnEndorsementDiffers(m, r)
  PROVE  TypeInv'
<1>. DEFINE s == sess[r]
            c == Counted(s, m)
<1>0. /\ m \in Message /\ r \in Requests /\ s \in Session
      /\ s.submitEs \in s.arrHandle /\ s.submitEs \in Handlers
  BY FoundType
<1>1. /\ net \subseteq Message /\ nSessionID \in Nat /\ connected \subseteq Handlers
      /\ svc \in {"up", "crashed", "exited"}
      /\ submits \subseteq SubmitRecords /\ cancels \subseteq CancelRecords
      /\ nSubmits \in [Requests -> Nat]
      /\ out \in [Requests -> Seq(Answers)]
  BY DEF TypeInv, TypeOK, SubmitRecords, CancelRecords
<1>2. Freed(s) \in Session /\ Freed(s).stage = "done"
  BY <1>0, FreedType
<1>3. Agrees(s, m) => /\ c \in Session
                      /\ c.submitEs \in c.arrHandle /\ c.submitEs \in Handlers
  BY <1>0, CountedType
<1>4. /\ SubmitReq(s) \in Message
      /\ SubmitRecord(r, s) \in SubmitRecords
      /\ CancelRecord(r, s) \in CancelRecords
  BY <1>0, SubmitReqType, RecordTypes
<1>. HIDE DEF s, c
<1>5. CASE OnEndorsementCounted(m, r)
  <2>1. sess' = [sess EXCEPT ![r] = c] /\ Agrees(s, m)
    BY <1>5 DEF OnEndorsementCounted, s, c
  <2>2. sess' \in [Requests -> Session] /\ ElectedOK'
    BY <1>0, <1>3, <2>1, OneSession
  <2>. QED
    BY <1>1, <1>5, <2>2 DEF OnEndorsementCounted, TypeInv, TypeOK,
                            SubmitRecords, CancelRecords
<1>6. CASE OnEndorsed(m, r)
  <2>1. /\ sess' = [sess EXCEPT ![r] = c] /\ Agrees(s, m)
        /\ net' = (net \ {m}) \cup {SubmitReq(c)}
        /\ submits' = submits \cup {SubmitRecord(r, c)}
        /\ nSubmits' \in [Requests -> Nat]
    BY <1>0, <1>1, <1>6 DEF OnEndorsed, Submit, s, c
  <2>2. sess' \in [Requests -> Session] /\ ElectedOK'
    BY <1>0, <1>3, <2>1, OneSession
  <2>3. SubmitReq(c) \in Message /\ SubmitRecord(r, c) \in SubmitRecords
    BY <1>0, <1>3, <2>1, SubmitReqType, RecordTypes
  <2>4. net' \subseteq Message /\ submits' \subseteq SubmitRecords
    BY <1>1, <2>1, <2>3
  <2>. QED
    BY <1>1, <1>6, <2>1, <2>2, <2>4 DEF OnEndorsed, TypeInv, TypeOK,
                                  SubmitRecords, CancelRecords
<1>7. CASE OnEndorsedSendFailed(m, r)
  <2>1. sess' = [sess EXCEPT ![r] = Freed(s)]
    BY <1>7 DEF OnEndorsedSendFailed, s
  <2>2. sess' \in [Requests -> Session] /\ ElectedOK'
    BY <1>0, <1>2, <2>1, OneSession
  <2>3. out' \in [Requests -> Seq(Answers)]
    BY <1>0, <1>7, ReplyType DEF OnEndorsedSendFailed, Answers
  <2>. QED
    BY <1>1, <1>7, <2>2, <2>3 DEF OnEndorsedSendFailed, TypeInv, TypeOK,
                                  SubmitRecords, CancelRecords
<1>8. CASE OnEndorsementFailed(m, r)
  <2>1. /\ sess' = [sess EXCEPT ![r] = Freed(s)]
        /\ cancels' \subseteq cancels \cup {CancelRecord(r, s)}
    BY <1>8 DEF OnEndorsementFailed, s
  <2>2. sess' \in [Requests -> Session] /\ ElectedOK'
    BY <1>0, <1>2, <2>1, OneSession
  <2>3. out' \in [Requests -> Seq(Answers)]
    BY <1>0, <1>8, ReplyType DEF OnEndorsementFailed, Answers, Failures
  <2>4. cancels' \subseteq CancelRecords
    BY <1>1, <1>4, <2>1
  <2>. QED
    BY <1>1, <1>8, <2>2, <2>3, <2>4 DEF OnEndorsementFailed, TypeInv, TypeOK,
                                        SubmitRecords, CancelRecords
<1>9. CASE OnEndorsementDiffers(m, r)
  <2>1. /\ sess' = [sess EXCEPT ![r] = Freed(s)]
        /\ net' \subseteq net \cup {SubmitReq(s)}
        /\ submits' \subseteq submits \cup {SubmitRecord(r, s)}
        /\ cancels' \subseteq cancels \cup {CancelRecord(r, s)}
        /\ Reply(r, "SYSTEM") \/ Reply(r, "NETWORK")
    BY <1>9 DEF OnEndorsementDiffers, Submit, s
  <2>2. sess' \in [Requests -> Session] /\ ElectedOK'
    BY <1>0, <1>2, <2>1, OneSession
  <2>3. out' \in [Requests -> Seq(Answers)]
    BY <1>0, <2>1, ReplyType DEF Answers
  <2>4. /\ net' \subseteq Message /\ submits' \subseteq SubmitRecords
        /\ cancels' \subseteq CancelRecords
    BY <1>1, <1>4, <2>1
  <2>5. nSubmits' \in [Requests -> Nat]
    <3>1. Submit(r, s) \/ UNCHANGED nSubmits
      BY <1>9 DEF OnEndorsementDiffers, s
    <3>2. nSubmits' = [nSubmits EXCEPT ![r] = @ + 1] \/ UNCHANGED nSubmits
      BY <3>1 DEF Submit
    <3>3. r \in Requests /\ nSubmits \in [Requests -> Nat]
      BY <1>0, <1>1
    <3>. QED  BY <3>2, <3>3
  <2>. QED
    BY <1>1, <1>9, <2>2, <2>3, <2>4, <2>5 DEF OnEndorsementDiffers, TypeInv, TypeOK,
                                        SubmitRecords, CancelRecords
<1>. QED
  BY <1>5, <1>6, <1>7, <1>8, <1>9

LEMMA TypeMessages ==
  ASSUME TypeInv, NEW m \in net,
         \/ OnEsCltRsp(m) \/ OnSubmitEsCltRsp(m) \/ OnSubscribeNotify(m)
         \/ EndorserAnswers(m) \/ EndorserSubmits(m)
  PROVE  TypeInv'
<1>1. /\ net \subseteq Message /\ nSessionID \in Nat /\ connected \subseteq Handlers
      /\ svc \in {"up", "crashed", "exited"}
      /\ submits \subseteq SubmitRecords /\ cancels \subseteq CancelRecords
      /\ nSubmits \in [Requests -> Nat]
      /\ out \in [Requests -> Seq(Answers)] /\ sess \in [Requests -> Session]
      /\ m \in Message
  BY DEF TypeInv, TypeOK, SubmitRecords, CancelRecords
<1>2. CASE OnEsCltRsp(m)
  <2>1. CASE OnLateEndorsement(m)
    BY <2>1 DEF OnLateEndorsement, TypeInv, TypeOK, ElectedOK
  <2>. QED
    BY <1>2, <2>1, TypeEndorsed DEF OnEsCltRsp
<1>3. CASE OnSubmitEsCltRsp(m)
  <2>1. CASE Find(m.kind, m.id, "endorsing") = {}
    BY <1>3, <2>1 DEF OnSubmitEsCltRsp, TypeInv, TypeOK, ElectedOK
  <2>2. CASE Find(m.kind, m.id, "endorsing") # {}
    <3>1. PICK r \in Find(m.kind, m.id, "endorsing") :
            /\ sess' = [sess EXCEPT ![r] = AfterSubmit(sess[r], m.code)]
            /\ Reply(r, "OK") \/ UNCHANGED out
      BY <1>3, <2>2 DEF OnSubmitEsCltRsp
    <3>2. r \in Requests /\ sess[r] \in Session /\ sess[r].submitEs \in Handlers
      BY FoundType
    <3>3. /\ AfterSubmit(sess[r], m.code) \in Session
          /\ AfterSubmit(sess[r], m.code).stage # "endorsing"
      BY <3>2, AfterSubmitType
    <3>4. sess' \in [Requests -> Session] /\ ElectedOK'
      BY <3>1, <3>2, <3>3, OneSession
    <3>5. out' \in [Requests -> Seq(Answers)]
      BY <1>1, <3>1, <3>2, ReplyType DEF Answers
    <3>. QED
      BY <1>1, <1>3, <3>4, <3>5 DEF OnSubmitEsCltRsp, TypeInv, TypeOK,
                                    SubmitRecords, CancelRecords
  <2>. QED  BY <2>1, <2>2
<1>4. CASE OnSubscribeNotify(m)
  <2>1. CASE Find(m.kind, m.id, "waiting") = {}
    BY <1>4, <2>1 DEF OnSubscribeNotify, TypeInv, TypeOK, ElectedOK
  <2>2. CASE Find(m.kind, m.id, "waiting") # {}
    <3>1. PICK r \in Find(m.kind, m.id, "waiting") :
            sess' = [sess EXCEPT ![r] = Freed(sess[r])] /\ Reply(r, "NOTIFY")
      BY <1>4, <2>2 DEF OnSubscribeNotify
    <3>2. r \in Requests /\ sess[r] \in Session
      BY <1>1 DEF Find
    <3>3. Freed(sess[r]) \in Session /\ Freed(sess[r]).stage = "done"
      BY <3>2, FreedType
    <3>4. sess' \in [Requests -> Session] /\ ElectedOK'
      BY <3>1, <3>2, <3>3, OneSession
    <3>5. out' \in [Requests -> Seq(Answers)]
      BY <3>1, <3>2, ReplyType DEF Answers
    <3>. QED
      BY <1>1, <1>4, <3>4, <3>5 DEF OnSubscribeNotify, TypeInv, TypeOK,
                                    SubmitRecords, CancelRecords
  <2>. QED  BY <2>1, <2>2
<1>5. CASE EndorserAnswers(m)
  <2>1. PICK res \in Contents \cup Failures :
          net' = (net \ {m}) \cup {EndorseRsp(m, res)}
    BY <1>5 DEF EndorserAnswers
  <2>2. net' \subseteq Message
    BY <1>1, <1>5, <2>1, EndorseRspType DEF EndorserAnswers
  <2>. QED
    BY <1>5, <2>2 DEF EndorserAnswers, TypeInv, TypeOK, ElectedOK
<1>6. CASE EndorserSubmits(m)
  <2>1. CASE m.es = Unset
    BY <1>6, <2>1 DEF EndorserSubmits, TypeInv, TypeOK, ElectedOK
  <2>2. CASE m.es # Unset
    <3>1. /\ SubmitRsp(m, "OK") \in Message /\ SubmitRsp(m, "SYSTEM") \in Message
          /\ TransNotify(m) \in Message
      BY <1>1, <1>6, <2>2, SubmitRspType DEF EndorserSubmits
    <3>2. net' \subseteq net \cup {SubmitRsp(m, "OK"), SubmitRsp(m, "SYSTEM"),
                                  TransNotify(m)}
      BY <1>6, <2>2 DEF EndorserSubmits
    <3>3. net' \subseteq Message
      BY <1>1, <3>1, <3>2
    <3>. QED
      BY <1>6, <3>3 DEF EndorserSubmits, TypeInv, TypeOK, ElectedOK
  <2>. QED  BY <2>1, <2>2
<1>. QED
  BY <1>2, <1>3, <1>4, <1>5, <1>6

(* Several sessions are freed at once.                                     *)
LEMMA ManyFreed ==
  ASSUME TypeInv, NEW R \in SUBSET Requests,
         sess' = [r \in Requests |-> IF r \in R THEN Freed(sess[r]) ELSE sess[r]]
  PROVE  sess' \in [Requests -> Session] /\ ElectedOK'
<1>1. \A r \in Requests : /\ sess[r] \in Session /\ Freed(sess[r]) \in Session
                         /\ Freed(sess[r]).stage = "done"
  BY FreedType DEF TypeInv, TypeOK
<1>2. sess' \in [Requests -> Session]
  BY <1>1
<1>. QED
  BY <1>1, <1>2 DEF TypeInv, ElectedOK

LEMMA TypeEvents ==
  ASSUME TypeInv,
         \/ \E r \in Requests : OnTimeOut(r)
         \/ \E h \in Handlers : OnConnectedNodify(h) \/ OnNetworkError(h)
         \/ OnExit
  PROVE  TypeInv'
<1>1. /\ net \subseteq Message /\ connected \subseteq Handlers
      /\ out \in [Requests -> Seq(Answers)] /\ sess \in [Requests -> Session]
  BY DEF TypeInv, TypeOK
<1>2. ASSUME NEW r \in Requests, OnTimeOut(r) PROVE TypeInv'
  <2>1. sess' = [sess EXCEPT ![r] = Freed(sess[r])] /\ Reply(r, "TIMEOUT")
    BY <1>2 DEF OnTimeOut
  <2>2. Freed(sess[r]) \in Session /\ Freed(sess[r]).stage = "done"
    BY <1>1, FreedType
  <2>3. sess' \in [Requests -> Session] /\ ElectedOK'
    BY <2>1, <2>2, OneSession
  <2>4. out' \in [Requests -> Seq(Answers)]
    BY <2>1, ReplyType DEF Answers
  <2>. QED
    BY <1>2, <2>3, <2>4 DEF OnTimeOut, TypeInv, TypeOK
<1>3. ASSUME NEW h \in Handlers, OnConnectedNodify(h) PROVE TypeInv'
  BY <1>3 DEF OnConnectedNodify, TypeInv, TypeOK, ElectedOK
<1>4. ASSUME NEW h \in Handlers, OnNetworkError(h) PROVE TypeInv'
  <2>1. /\ sess' = [r \in Requests |-> IF r \in BrokenBy(h) THEN Freed(sess[r])
                                      ELSE sess[r]]
        /\ out' = [r \in Requests |-> IF r \in BrokenBy(h)
                                     THEN Append(out[r], "NETWORK") ELSE out[r]]
    BY <1>4 DEF OnNetworkError
  <2>2. BrokenBy(h) \in SUBSET Requests
    BY DEF BrokenBy
  <2>3. sess' \in [Requests -> Session] /\ ElectedOK'
    BY <2>1, <2>2, ManyFreed
  <2>4. \A r \in Requests : Append(out[r], "NETWORK") \in Seq(Answers)
    BY <1>1 DEF Answers
  <2>5. out' \in [Requests -> Seq(Answers)]
    BY <1>1, <2>1, <2>4
  <2>. QED
    BY <1>4, <2>3, <2>5 DEF OnNetworkError, TypeInv, TypeOK
<1>5. CASE OnExit
  <2>1. \A r \in Requests : /\ NoSession \in Session /\ NoSession.stage = "none"
                           /\ Freed(sess[r]) \in Session
                           /\ Freed(sess[r]).stage = "done"
    BY <1>1, FreedType, NoSessionType
  <2>2. sess' = [r \in Requests |-> IF sess[r].stage = "none" THEN NoSession
                                   ELSE Freed(sess[r])]
    BY <1>5 DEF OnExit
  <2>3. sess' \in [Requests -> Session] /\ ElectedOK'
    BY <2>1, <2>2 DEF ElectedOK
  <2>. QED
    BY <1>5, <2>3 DEF OnExit, TypeInv, TypeOK
<1>. QED
  BY <1>2, <1>3, <1>4, <1>5

LEMMA TypeNext == TypeInv /\ [Next]_vars => TypeInv'
<1>1. TypeInv /\ Next => TypeInv'
  BY TypeAsks, TypeMessages, TypeEvents DEF Next
<1>2. TypeInv /\ UNCHANGED vars => TypeInv'
  BY DEF vars, TypeInv, TypeOK, ElectedOK
<1>. QED  BY <1>1, <1>2

(* Every variable keeps its type, and the endorser elected to submit is    *)
(* one of those asked: lines 729-745 and 845-861 of the service.           *)
THEOREM TypeCorrect == Spec => []TypeOK
<1>1. Spec => []TypeInv
  BY TypeInit, TypeNext, PTL DEF Spec
<1>2. TypeInv => TypeOK
  BY DEF TypeInv
<1>. QED  BY <1>1, <1>2, PTL

-----------------------------------------------------------------------------
(* Live connections.                                                       *)

LinksInv == TypeInv /\ LinksConnected

LEMMA LinksNext == LinksInv /\ [Next]_vars => LinksInv'
<1>. SUFFICES ASSUME LinksInv, [Next]_vars PROVE LinksConnected'
  BY TypeNext DEF LinksInv
<1>1. /\ TypeInv /\ LinksConnected /\ TypeInv'
      /\ sess \in [Requests -> Session] /\ sess' \in [Requests -> Session]
      /\ nSessionID \in Nat /\ connected \subseteq Handlers
  BY TypeNext DEF LinksInv, TypeInv, TypeOK
<1>2. \A q \in Requests : Freed(sess[q]).stage = "done"
  BY <1>1, FreedType
(* Every step but OnNetworkError and OnExit keeps the connections and      *)
(* changes one session at most.                                            *)
<1>3. ASSUME NEW r \in Requests, NEW s \in Session,
             s.stage \in {"endorsing", "orphan"} => s.arrHandle \subseteq connected,
             sess' = [sess EXCEPT ![r] = s], UNCHANGED connected
      PROVE  LinksConnected'
  BY <1>1, <1>3 DEF LinksConnected
<1>4. CASE UserAsks
  <2>. SUFFICES ASSUME NEW r \in Requests, NEW kind \in Kinds, NEW wait \in BOOLEAN,
                       \/ OnReqRefused(kind, r, wait)
                       \/ OnReqSent(kind, r, wait)
                       \/ OnReqSendFailed(kind, r, wait)
                PROVE  LinksConnected'
    BY <1>4 DEF UserAsks
  <2>1. CASE OnReqRefused(kind, r, wait)
    <3>1. sess' = [sess EXCEPT ![r] = Freed([NoSession EXCEPT !.kind = kind, !.wait = wait])]
          /\ UNCHANGED connected
      BY <2>1 DEF OnReqRefused
    <3>2. sess'[r].stage = "done"
      BY <1>1, <3>1 DEF Freed, NoSession
    <3>. QED  BY <1>1, <3>1, <3>2 DEF LinksConnected
  <2>2. CASE OnReqSent(kind, r, wait)
    <3>1. PICK hs \in SUBSET connected, h \in connected :
            sess' = [sess EXCEPT ![r] = NewSession(kind, wait, hs, h)]
      BY <2>2 DEF OnReqSent
    <3>2. NewSession(kind, wait, hs, h).arrHandle = hs
      BY DEF NewSession, NoSession
    <3>3. UNCHANGED connected
      BY <2>2 DEF OnReqSent
    <3>. QED  BY <1>1, <3>1, <3>2, <3>3 DEF LinksConnected
  <2>3. CASE OnReqSendFailed(kind, r, wait)
    <3>1. PICK hs \in SUBSET connected, f \in connected :
            sess' = [sess EXCEPT ![r] = Freed(NewSession(kind, wait, hs, f))]
      BY <2>3 DEF OnReqSendFailed
    <3>2. UNCHANGED connected
      BY <2>3 DEF OnReqSendFailed
    <3>3. Freed(NewSession(kind, wait, hs, f)).stage = "done"
      BY DEF Freed, NoSession
    <3>. QED  BY <1>1, <3>1, <3>2, <3>3 DEF LinksConnected
  <2>. QED  BY <2>1, <2>2, <2>3
<1>5. ASSUME NEW m \in net, OnEsCltRsp(m) PROVE LinksConnected'
  <2>1. CASE OnLateEndorsement(m)
    BY <1>1, <2>1 DEF OnLateEndorsement, LinksConnected
  <2>2. ASSUME NEW r \in Find(m.kind, m.id, "endorsing"),
               \/ OnEndorsementCounted(m, r) \/ OnEndorsed(m, r)
        PROVE  LinksConnected'
    <3>1. /\ m \in Message /\ r \in Requests /\ sess[r] \in Session
          /\ sess[r].stage = "endorsing"
      BY <1>1, FoundType
    <3>2. /\ Agrees(sess[r], m) /\ UNCHANGED connected
          /\ sess' = [sess EXCEPT ![r] = Counted(sess[r], m)]
      BY <2>2 DEF OnEndorsementCounted, OnEndorsed
    <3>3. /\ Counted(sess[r], m) \in Session
          /\ Counted(sess[r], m).arrHandle = sess[r].arrHandle
      BY <1>5, <3>1, <3>2, CountedType DEF OnEsCltRsp
    <3>4. Counted(sess[r], m).arrHandle \subseteq connected
      BY <1>1, <3>1, <3>3 DEF LinksConnected
    <3>. QED  BY <1>3, <3>1, <3>2, <3>3, <3>4
  <2>3. ASSUME NEW r \in Find(m.kind, m.id, "endorsing"),
               \/ OnEndorsedSendFailed(m, r) \/ OnEndorsementFailed(m, r)
               \/ OnEndorsementDiffers(m, r)
        PROVE  LinksConnected'
    <3>1. sess' = [sess EXCEPT ![r] = Freed(sess[r])] /\ UNCHANGED connected
      BY <2>3 DEF OnEndorsedSendFailed, OnEndorsementFailed, OnEndorsementDiffers
    <3>. QED  BY <1>1, <1>2, <3>1 DEF LinksConnected
  <2>. QED
    BY <1>5, <2>1, <2>2, <2>3 DEF OnEsCltRsp
<1>6. ASSUME NEW m \in net, OnSubmitEsCltRsp(m) PROVE LinksConnected'
  <2>1. CASE Find(m.kind, m.id, "endorsing") = {}
    BY <1>1, <1>6, <2>1 DEF OnSubmitEsCltRsp, LinksConnected
  <2>2. CASE Find(m.kind, m.id, "endorsing") # {}
    <3>1. PICK r \in Find(m.kind, m.id, "endorsing") :
            sess' = [sess EXCEPT ![r] = AfterSubmit(sess[r], m.code)]
      BY <1>6, <2>2 DEF OnSubmitEsCltRsp
    <3>2. /\ r \in Requests /\ sess[r] \in Session /\ sess[r].submitEs \in Handlers
          /\ sess[r].stage = "endorsing"
      BY <1>1, FoundType
    <3>3. /\ AfterSubmit(sess[r], m.code) \in Session
          /\ AfterSubmit(sess[r], m.code).stage \in {"endorsing", "orphan"} =>
               AfterSubmit(sess[r], m.code).arrHandle = sess[r].arrHandle
      BY <3>2, AfterSubmitType
    <3>4. sess[r].arrHandle \subseteq connected
      BY <1>1, <3>2 DEF LinksConnected
    <3>5. UNCHANGED connected
      BY <1>6 DEF OnSubmitEsCltRsp
    <3>. QED  BY <1>3, <3>1, <3>2, <3>3, <3>4, <3>5
  <2>. QED  BY <2>1, <2>2
<1>7. ASSUME NEW m \in net, OnSubscribeNotify(m) PROVE LinksConnected'
  BY <1>1, <1>2, <1>7 DEF OnSubscribeNotify, LinksConnected
<1>8. ASSUME NEW m \in net, EndorserAnswers(m) \/ EndorserSubmits(m)
      PROVE  LinksConnected'
  BY <1>1, <1>8 DEF EndorserAnswers, EndorserSubmits, LinksConnected
<1>9. ASSUME NEW r \in Requests, OnTimeOut(r) PROVE LinksConnected'
  BY <1>1, <1>2, <1>9 DEF OnTimeOut, LinksConnected
<1>10. ASSUME NEW h \in Handlers, OnConnectedNodify(h) PROVE LinksConnected'
  BY <1>1, <1>10 DEF OnConnectedNodify, LinksConnected
<1>11. ASSUME NEW h \in Handlers, OnNetworkError(h) PROVE LinksConnected'
  <2>1. /\ connected' = connected \ {h}
        /\ \A q \in Requests : sess'[q] = IF q \in BrokenBy(h) THEN Freed(sess[q])
                                         ELSE sess[q]
    BY <1>11 DEF OnNetworkError
  <2>2. ASSUME NEW q \in Requests, sess'[q].stage \in {"endorsing", "orphan"}
        PROVE  sess'[q].arrHandle \subseteq connected'
    <3>1. q \notin BrokenBy(h) /\ sess'[q] = sess[q]
      BY <1>2, <2>1, <2>2
    <3>2. h \notin sess[q].arrHandle
      BY <2>2, <3>1 DEF BrokenBy
    <3>. QED  BY <1>1, <2>1, <2>2, <3>1, <3>2 DEF LinksConnected
  <2>. QED  BY <2>2 DEF LinksConnected
<1>12. CASE OnExit
  <2>1. \A q \in Requests : sess'[q].stage \in {"none", "done"}
    BY <1>2, <1>12, NoSessionType DEF OnExit
  <2>. QED  BY <2>1 DEF LinksConnected
<1>13. CASE UNCHANGED vars
  BY <1>1, <1>13 DEF vars, LinksConnected
<1>. QED
  BY <1>4, <1>5, <1>6, <1>7, <1>8, <1>9, <1>10, <1>11, <1>12, <1>13 DEF Next

(* Whatever is sent, lost or answered, no session that still owes an       *)
(* answer is linked to a connection that is gone: OnNetworkError, lines    *)
(* 1177-1189, reaches all of them.                                         *)
THEOREM LinksAlwaysConnected == Spec => []LinksConnected
<1>1. Init => LinksInv
  BY TypeInit, NoSessionType DEF LinksInv, LinksConnected, Init
<1>2. Spec => []LinksInv
  BY <1>1, LinksNext, PTL DEF Spec
<1>3. LinksInv => LinksConnected
  BY DEF LinksInv
<1>. QED  BY <1>2, <1>3, PTL

-----------------------------------------------------------------------------
(* The votes of a session.                                                 *)

(* Each has the stored content, or was counted while that was empty.       *)
OneStored(s) == \A v \in s.votes : v.content \in {s.content, Empty}

MixInv ==
  /\ TypeInv
  /\ \A r \in Requests : OneStored(sess[r])
  /\ NoMixedEndorsement

LEMMA MixNext == MixInv /\ [Next]_vars => MixInv'
<1>. SUFFICES ASSUME MixInv, [Next]_vars PROVE MixInv'
  OBVIOUS
<1>1. /\ TypeInv /\ TypeInv' /\ sess \in [Requests -> Session]
      /\ \A r \in Requests : OneStored(sess[r])
  BY TypeNext DEF MixInv, TypeInv, TypeOK
<1>2. \A q \in Requests : OneStored(Freed(sess[q]))
  BY DEF OneStored, Freed, NoSession
(* A step that counts no vote: every session is as it was or has no votes. *)
<1>3. ASSUME \A r \in Requests : sess'[r].votes = {} \/ (/\ sess'[r].votes = sess[r].votes
                                                      /\ sess'[r].content = sess[r].content),
             \A t \in submits' \ submits : \E r \in Requests : t.votes = sess[r].votes
      PROVE  MixInv'
  <2>1. \A r \in Requests : OneStored(sess[r])'
    BY <1>1, <1>3 DEF OneStored
  <2>2. NoMixedEndorsement'
    BY <1>1, <1>3 DEF MixInv, NoMixedEndorsement, OneStored
  <2>. QED  BY <1>1, <2>1, <2>2 DEF MixInv
<1>4. CASE UserAsks
  <2>1. PICK r \in Requests, kind \in Kinds, wait \in BOOLEAN :
          \/ OnReqRefused(kind, r, wait) \/ OnReqSent(kind, r, wait)
          \/ OnReqSendFailed(kind, r, wait)
    BY <1>4 DEF UserAsks
  <2>2. \A s : Freed(s).votes = {}
    BY DEF Freed, NoSession
  <2>3. \A hs, h : NewSession(kind, wait, hs, h).votes = {}
    BY DEF NewSession, NoSession
  <2>4. \A q \in Requests : sess'[q].votes = {} \/ sess'[q] = sess[q]
    <3>1. ASSUME OnReqRefused(kind, r, wait)
          PROVE  \E s : sess' = [sess EXCEPT ![r] = Freed(s)]
      BY <3>1 DEF OnReqRefused
    <3>2. ASSUME OnReqSent(kind, r, wait)
          PROVE  \E hs, h : sess' = [sess EXCEPT ![r] = NewSession(kind, wait, hs, h)]
      BY <3>2 DEF OnReqSent
    <3>3. ASSUME OnReqSendFailed(kind, r, wait)
          PROVE  \E s : sess' = [sess EXCEPT ![r] = Freed(s)]
      BY <3>3 DEF OnReqSendFailed
    <3>. QED  BY <1>1, <2>1, <2>2, <2>3, <3>1, <3>2, <3>3
  <2>5. UNCHANGED submits
    BY <2>1 DEF OnReqRefused, OnReqSent, OnReqSendFailed
  <2>. QED  BY <1>3, <2>4, <2>5
<1>5. ASSUME NEW m \in net, OnEsCltRsp(m) PROVE MixInv'
  <2>1. CASE OnLateEndorsement(m)
    BY <1>3, <2>1 DEF OnLateEndorsement
  <2>2. ASSUME NEW r \in Find(m.kind, m.id, "endorsing"),
               \/ OnEndorsementCounted(m, r) \/ OnEndorsed(m, r)
        PROVE  MixInv'
    <3>. DEFINE s == sess[r]
                c == Counted(s, m)
    <3>1. m \in Message /\ r \in Requests /\ s \in Session
      BY <1>1, FoundType
    <3>2. /\ Agrees(s, m) /\ sess' = [sess EXCEPT ![r] = c]
          /\ submits' \subseteq submits \cup {SubmitRecord(r, c)}
      BY <2>2 DEF OnEndorsementCounted, OnEndorsed, Submit
    <3>3. /\ c.content = m.res
          /\ c.votes = s.votes \cup {[h |-> m.h, req |-> m.req, content |-> m.res]}
      BY <1>5, <3>1, <3>2, CountedType DEF OnEsCltRsp
    <3>4. s.content \in {Empty, m.res} /\ OneStored(s)
      BY <1>1, <3>1, <3>2 DEF Agrees
    <3>. HIDE DEF s, c
    <3>5. OneStored(c)
      BY <3>3, <3>4 DEF OneStored
    <3>6. \A q \in Requests : OneStored(sess[q])'
      BY <1>1, <3>1, <3>2, <3>5 DEF OneStored
    <3>7. SubmitRecord(r, c).votes = c.votes
      BY DEF SubmitRecord
    <3>8. NoMixedEndorsement'
      BY <3>2, <3>5, <3>7 DEF MixInv, NoMixedEndorsement, OneStored
    <3>. QED  BY <1>1, <3>6, <3>8 DEF MixInv
  <2>3. ASSUME NEW r \in Find(m.kind, m.id, "endorsing"),
               \/ OnEndorsedSendFailed(m, r) \/ OnEndorsementFailed(m, r)
               \/ OnEndorsementDiffers(m, r)
        PROVE  MixInv'
    <3>1. /\ sess' = [sess EXCEPT ![r] = Freed(sess[r])] /\ r \in Requests
          /\ submits' \subseteq submits \cup {SubmitRecord(r, sess[r])}
      BY <2>3 DEF OnEndorsedSendFailed, OnEndorsementFailed, OnEndorsementDiffers, Find, Submit
    <3>2. Freed(sess[r]).votes = {} /\ SubmitRecord(r, sess[r]).votes = sess[r].votes
      BY DEF Freed, NoSession, SubmitRecord
    <3>. QED  BY <1>1, <1>3, <3>1, <3>2
  <2>. QED  BY <1>5, <2>1, <2>2, <2>3 DEF OnEsCltRsp
<1>6. ASSUME NEW m \in net, OnSubmitEsCltRsp(m) PROVE MixInv'
  <2>1. ASSUME NEW r \in Find(m.kind, m.id, "endorsing"),
               sess' = [sess EXCEPT ![r] = AfterSubmit(sess[r], m.code)]
        PROVE  \/ sess'[r].votes = {}
               \/ sess'[r].votes = sess[r].votes /\ sess'[r].content = sess[r].content
    <3>1. r \in Requests /\ sess[r] \in Session
      BY <1>1, FoundType
    <3>2. CASE m.code # "OK"
      BY <1>1, <2>1, <3>1, <3>2 DEF AfterSubmit, Session
    <3>3. CASE m.code = "OK"
      <4>1. AfterSubmit(sess[r], m.code).votes = Freed(sess[r]).votes
        BY <3>3 DEF AfterSubmit, Freed, NoSession
      <4>. QED  BY <1>1, <2>1, <3>1, <4>1 DEF Freed, NoSession
    <3>. QED  BY <3>2, <3>3
  <2>2. UNCHANGED submits
    BY <1>6 DEF OnSubmitEsCltRsp
  <2>3. \A r \in Find(m.kind, m.id, "endorsing") : r \in Requests
    BY DEF Find
  <2>. QED  BY <1>1, <1>3, <1>6, <2>1, <2>2, <2>3 DEF OnSubmitEsCltRsp
<1>7. \A q \in Requests : Freed(sess[q]).votes = {}
  BY DEF Freed, NoSession
<1>8. ASSUME NEW m \in net, OnSubscribeNotify(m) PROVE MixInv'
  BY <1>1, <1>3, <1>7, <1>8 DEF OnSubscribeNotify
<1>9. ASSUME NEW m \in net, EndorserAnswers(m) \/ EndorserSubmits(m) PROVE MixInv'
  BY <1>3, <1>9 DEF EndorserAnswers, EndorserSubmits
<1>10. ASSUME NEW r \in Requests, OnTimeOut(r) PROVE MixInv'
  BY <1>1, <1>3, <1>7, <1>10 DEF OnTimeOut
<1>11. ASSUME NEW h \in Handlers, OnConnectedNodify(h) PROVE MixInv'
  BY <1>3, <1>11 DEF OnConnectedNodify
<1>12. ASSUME NEW h \in Handlers, OnNetworkError(h) PROVE MixInv'
  BY <1>1, <1>3, <1>7, <1>12 DEF OnNetworkError
<1>13. CASE OnExit
  <2>1. NoSession.votes = {}
    BY DEF NoSession
  <2>. QED  BY <1>1, <1>3, <1>7, <1>13, <2>1 DEF OnExit
<1>14. CASE UNCHANGED vars
  BY <1>3, <1>14 DEF vars
<1>. QED
  BY <1>4, <1>5, <1>6, <1>8, <1>9, <1>10, <1>11, <1>12, <1>13, <1>14 DEF Next

(* Two endorsements that differ never lead to a submit, even when ids are  *)
(* used again and contents are empty: lines 354-370 and 529-545.           *)
THEOREM NeverMixed == Spec => []NoMixedEndorsement
<1>1. Init => MixInv
  <2>1. OneStored(NoSession)
    BY DEF OneStored, NoSession
  <2>. QED  BY <2>1, TypeInit DEF Init, MixInv, NoMixedEndorsement
<1>2. Spec => []MixInv
  BY <1>1, MixNext, PTL DEF Spec
<1>3. MixInv => NoMixedEndorsement
  BY DEF MixInv
<1>. QED  BY <1>2, <1>3, PTL
=============================================================================
