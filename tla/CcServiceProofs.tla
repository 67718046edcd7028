--------------------------- MODULE CcServiceProofs ---------------------------
(***************************************************************************)
(* The chaincode service, proved for any number of requests, users and     *)
(* informations and any range of versions: types, one answer to each       *)
(* request, and what a chaincode reads and writes of informations.         *)
(***************************************************************************)
EXTENDS CcService, TLAPS

USE DEF Keys, Versions

(* How a version moves.                                                    *)
LEMMA VersionMoves ==
  ASSUME NEW v \in Versions
  PROVE  IncreaseVersion(v) \in Versions /\ IsVersionMatch(v, IncreaseVersion(v))
BY MaxAssumption, SMT DEF IncreaseVersion, IsVersionMatch

-----------------------------------------------------------------------------
(* Types.                                                                  *)

LEMMA EntryTypes ==
  /\ NoEntry \in Entry /\ [NoEntry EXCEPT !.asked = TRUE] \in Entry
  /\ NoSession \in Session
<1>1. NoEntry \in Entry /\ [NoEntry EXCEPT !.asked = TRUE] \in Entry
  <2>1. 0 \in Versions  BY MaxAssumption
  <2>2. Blank \in Data \cup {Blank, New}  OBVIOUS
  <2>3. NoEntry \in Entry  BY <2>1, <2>2 DEF Entry, NoEntry
  <2>4. QED BY <2>3 DEF Entry
<1>2. NoSession \in Session
  BY <1>1 DEF Session, NoSession
<1>3. QED BY <1>1, <1>2

LEMMA FreedTypes ==
  ASSUME NEW s \in Session, NEW b \in BOOLEAN
  PROVE  Freed(s, b) \in Session
<1>1. [k \in Keys |-> NoEntry] \in [Keys -> Entry]  BY EntryTypes
<1>2. QED BY <1>1 DEF Freed, Session, NoSession

LEMMA EntrySet ==
  ASSUME NEW s \in Session, NEW k \in Keys, NEW e \in Entry
  PROVE  [s EXCEPT !.lst[k] = e] \in Session
<1> DEFINE L == [s.lst EXCEPT ![k] = e]
<1>1. L \in [Keys -> Entry]  BY DEF Session
<1>2. [s EXCEPT !.lst = L] \in Session
  <2> HIDE DEF L
  <2> QED BY <1>1 DEF Session
<1>3. [s EXCEPT !.lst[k] = e] = [s EXCEPT !.lst = L]  BY DEF Session
<1>4. QED BY <1>2, <1>3

LEMMA AnswerTypes ==
  ASSUME replies \in [Requests -> Seq(Codes)], NEW r \in Requests,
         NEW c \in Codes, Answer(r, c)
  PROVE  replies' \in [Requests -> Seq(Codes)]
BY DEF Answer

(* Every variable keeps its type; in particular the versions that are      *)
(* handed out stay in range.                                               *)
LEMMA TypeInit == Init => TypeOK
<1> SUFFICES ASSUME Init PROVE TypeOK  OBVIOUS
<1>1. sess \in [Requests -> Session]  BY EntryTypes DEF Init
<1>2. ledger \in [Keys -> Versions]  BY MaxAssumption DEF Init
<1>3. QED BY <1>1, <1>2 DEF Init, TypeOK

LEMMA TypeStep ==
  ASSUME TypeOK, [Next]_vars
  PROVE  TypeOK'
<1> USE DEF TypeOK
<1>1. ASSUME NEW r \in Requests, NEW kind \in {"regist", "propose"}, OnRequest(r, kind)
      PROVE  TypeOK'
  <2>1. [NoSession EXCEPT !.stage = "live", !.kind = kind, !.id = nSessionID,
                          !.inMap = TRUE] \in Session
    <3>1. [k \in Keys |-> NoEntry] \in [Keys -> Entry]  BY EntryTypes
    <3>2. QED BY <3>1 DEF Session, NoSession
  <2>2. sess' \in [Requests -> Session]  BY <1>1, <2>1 DEF OnRequest
  <2>3. QED BY <1>1, <2>2 DEF OnRequest
<1>2. ASSUME NEW r \in Requests, ProcReturns(r) PROVE TypeOK'
  BY <1>2 DEF ProcReturns
<1>3. ASSUME NEW r \in Requests, ProcFails(r) PROVE TypeOK'
  <2>1. replies' \in [Requests -> Seq(Codes)]
    BY <1>3, AnswerTypes DEF ProcFails, Codes
  <2>2. Freed(sess[r], sess[r].kind = "regist") \in Session  BY FreedTypes
  <2>3. sess' \in [Requests -> Session]  BY <1>3, <2>2 DEF ProcFails
  <2>4. QED BY <1>3, <2>1, <2>3 DEF ProcFails
<1>4. ASSUME NEW r \in Requests, CallRefused(r) PROVE TypeOK'
  BY <1>4 DEF CallRefused
<1>5. ASSUME NEW r \in Requests, NEW k \in Keys, Get(r, k) PROVE TypeOK'
  <2>1. [sess[r] EXCEPT !.lst[k] = [NoEntry EXCEPT !.asked = TRUE]] \in Session
    BY EntrySet, EntryTypes
  <2>2. sess' \in [Requests -> Session]  BY <1>5, <2>1 DEF Get
  <2>3. sess[r].id \in Nat  BY DEF Session
  <2>4. net' \subseteq Message  BY <1>5, <2>3 DEF Get, Message
  <2>5. QED BY <1>5, <2>2, <2>4 DEF Get
<1>6. ASSUME NEW r \in Requests, NEW k \in Keys, GetListed(r, k) PROVE TypeOK'
  <2>1. sess[r].lst[k].value \in Data \cup {Blank, New}  BY DEF Session, Entry
  <2>2. QED BY <1>6, <2>1 DEF GetListed
<1>7. ASSUME NEW r \in Requests, NEW k \in Keys, Set(r, k) PROVE TypeOK'
  <2> DEFINE e == sess[r].lst[k]
             f == [e EXCEPT !.value = New, !.set = TRUE,
                            !.ver = IF e.set THEN e.ver ELSE IncreaseVersion(e.ver)]
  <2>1. e \in Entry  BY DEF Session
  <2>2. f \in Entry
    <3>1. IncreaseVersion(e.ver) \in Versions  BY <2>1, VersionMoves DEF Entry
    <3>2. QED BY <2>1, <3>1 DEF Entry
  <2>3. [sess[r] EXCEPT !.lst[k] = f] \in Session  BY <2>2, EntrySet
  <2>4. sess' = [sess EXCEPT ![r] = [sess[r] EXCEPT !.lst[k] = f]]
    BY <1>7 DEF Set
  <2>5. sess' \in [Requests -> Session]  BY <2>3, <2>4
  <2>6. QED BY <1>7, <2>5 DEF Set
<1>8. ASSUME NEW r \in Requests, NEW n \in News, Create(r, n) PROVE TypeOK'
  <2>0. [sess[r] EXCEPT !.created = @ \cup {n}] \in Session  BY DEF Session
  <2>1. sess' \in [Requests -> Session]  BY <1>8, <2>0 DEF Create
  <2>2. QED BY <1>8, <2>1 DEF Create
<1>9. ASSUME NEW r \in Requests, RegistUserRsp(r) PROVE TypeOK'
  <2>1. replies' \in [Requests -> Seq(Codes)]
    BY <1>9, AnswerTypes DEF RegistUserRsp, Codes
  <2>2. Freed(sess[r], FALSE) \in Session  BY FreedTypes
  <2>3. sess' \in [Requests -> Session]  BY <1>9, <2>2 DEF RegistUserRsp
  <2>4. QED BY <1>9, <2>1, <2>3 DEF RegistUserRsp
<1>10. ASSUME NEW r \in Requests, PorposalRsp(r) PROVE TypeOK'
  <2>1. replies' \in [Requests -> Seq(Codes)]
    BY <1>10, AnswerTypes DEF PorposalRsp, Codes
  <2>2. Freed(sess[r], FALSE) \in Session  BY FreedTypes
  <2>3. sess' \in [Requests -> Session]  BY <1>10, <2>2 DEF PorposalRsp
  <2>4. WriteSet(r) \subseteq Writes
    <3>1. \A k \in Keys : sess[r].lst[k] \in Entry  BY DEF Session
    <3>2. QED BY <3>1 DEF WriteSet, Writes, Entry
  <2>5. sess[r].created \subseteq News  BY DEF Session
  <2>6. wrote' \in [Requests -> [updates : SUBSET Writes, creates : SUBSET News]]
    <3> DEFINE w == [updates |-> WriteSet(r), creates |-> sess[r].created]
    <3>1. w \in [updates : SUBSET Writes, creates : SUBSET News]  BY <2>4, <2>5
    <3>2. wrote' = wrote \/ wrote' = [wrote EXCEPT ![r] = w]  BY <1>10 DEF PorposalRsp
    <3> HIDE DEF w
    <3>3. QED BY <3>1, <3>2
  <2>7. QED BY <1>10, <2>1, <2>3, <2>6 DEF PorposalRsp
<1>11. ASSUME NEW m \in net, OnQueryRsp(m) PROVE TypeOK'
  <2>1. m.k \in Keys /\ m.ver \in Versions  BY <1>11 DEF OnQueryRsp, Message
  <2>2. net' \subseteq Message  BY <1>11 DEF OnQueryRsp
  <2>3. CASE UNCHANGED <<sess, got>>  BY <1>11, <2>2, <2>3 DEF OnQueryRsp
  <2>4. ASSUME NEW r \in FindProposal(m.id), NEW k \in Listed(r, m),
               LET d == [of |-> m.k, ver |-> m.ver]
                   e == sess[r].lst[k]
               IN
               /\ sess' = [sess EXCEPT ![r].lst[k] =
                             [e EXCEPT !.ver = m.ver, !.value = d,
                                       !.read = TRUE, !.rver = m.ver]]
               /\ got' = [got EXCEPT ![r] = @ \cup {[k |-> k, value |-> d]}]
        PROVE  TypeOK'
    <3> DEFINE d == [of |-> m.k, ver |-> m.ver]
               f == [sess[r].lst[k] EXCEPT !.ver = m.ver, !.value = d,
                                           !.read = TRUE, !.rver = m.ver]
    <3>1. r \in Requests /\ k \in Keys  BY DEF FindProposal, Listed
    <3>2. d \in Data  BY <2>1 DEF Data
    <3>3. f \in Entry
      <4>1. sess[r].lst[k] \in Entry  BY <3>1 DEF Session
      <4> HIDE DEF d
      <4>2. QED BY <2>1, <3>2, <4>1 DEF Entry
    <3>4. [sess[r] EXCEPT !.lst[k] = f] \in Session  BY <3>1, <3>3, EntrySet
    <3>5. sess' = [sess EXCEPT ![r] = [sess[r] EXCEPT !.lst[k] = f]]  BY <2>4
    <3>6. sess' \in [Requests -> Session]  BY <3>1, <3>4, <3>5
    <3>7. got' \in [Requests -> SUBSET [k : Keys, value : Data \cup {Blank, New}]]
      BY <2>4, <3>1, <3>2
    <3>8. QED BY <1>11, <2>2, <3>6, <3>7 DEF OnQueryRsp
  <2>5. QED BY <1>11, <2>3, <2>4 DEF OnQueryRsp
<1>12. ASSUME NEW m \in net, OnQueryFailed(m) PROVE TypeOK'
  BY <1>12 DEF OnQueryFailed
<1>13. ASSUME NEW r \in Requests, OnTimeOut(r) PROVE TypeOK'
  <2>1. replies' \in [Requests -> Seq(Codes)]
    BY <1>13, AnswerTypes DEF OnTimeOut, Codes
  <2>2. Freed(sess[r], FALSE) \in Session  BY FreedTypes
  <2>3. sess' \in [Requests -> Session]  BY <1>13, <2>2 DEF OnTimeOut
  <2>4. QED BY <1>13, <2>1, <2>3 DEF OnTimeOut
<1>14. ASSUME OnExit PROVE TypeOK'
  <2>1. \A r \in Requests : Freed(sess[r], FALSE) \in Session  BY FreedTypes
  <2>2. sess' \in [Requests -> Session]  BY <1>14, <2>1, EntryTypes DEF OnExit
  <2>3. QED BY <1>14, <2>2 DEF OnExit
<1>15. ASSUME NEW m \in net, XcsAnswers(m) PROVE TypeOK'
  <2>1. m.id \in Nat /\ m.k \in Keys  BY DEF Message
  <2>2. net' \subseteq Message  BY <1>15, <2>1 DEF XcsAnswers, Message
  <2>3. QED BY <1>15, <2>2 DEF XcsAnswers
<1>16. ASSUME NEW k \in Keys, LedgerMoves(k) PROVE TypeOK'
  <2>1. IncreaseVersion(ledger[k]) \in Versions  BY VersionMoves
  <2>2. QED BY <1>16, <2>1 DEF LedgerMoves
<1>17. CASE UNCHANGED vars  BY <1>17 DEF vars
<1>18. QED
  BY <1>1, <1>2, <1>3, <1>4, <1>5, <1>6, <1>7, <1>8, <1>9, <1>10, <1>11, <1>12,
     <1>13, <1>14, <1>15, <1>16, <1>17 DEF Next, ChaincodeCalls

(* Types hold in every behaviour.                                          *)
THEOREM CcTypeCorrect == Spec => []TypeOK
<1>1. QED BY TypeInit, TypeStep, PTL DEF Spec

-----------------------------------------------------------------------------
(* Sessions: ids below the counter tell them apart, and what a map of      *)
(* proposals holds is alive.                                               *)

IdsOK ==
  /\ \A r \in Requests : sess[r].stage # "none" => sess[r].id < nSessionID
  /\ \A r, q \in Requests :
       sess[r].stage # "none" /\ sess[q].stage # "none" /\ sess[r].id = sess[q].id
       => r = q
  /\ \A m \in net : m.id < nSessionID
  /\ \A r \in Requests : sess[r].inMap =>
       /\ sess[r].stage # "none"
       /\ sess[r].kind = "propose" => sess[r].stage = "live"

(* A request that is freed keeps its id and its kind.                      *)
LEMMA FreedKeeps ==
  ASSUME NEW s \in Session, NEW b \in BOOLEAN
  PROVE  /\ Freed(s, b).stage = "done" /\ Freed(s, b).id = s.id
         /\ Freed(s, b).kind = s.kind /\ Freed(s, b).inMap = b
         /\ Freed(s, b).lst = [k \in Keys |-> NoEntry]
BY DEF Freed, NoSession

(* The fields by which sessions are found and told apart.                  *)
SameHeads ==
  \A r \in Requests :
    /\ sess'[r].stage = sess[r].stage /\ sess'[r].id = sess[r].id
    /\ sess'[r].kind = sess[r].kind /\ sess'[r].inMap = sess[r].inMap

LEMMA IdsOfHeads ==
  ASSUME TypeOK, IdsOK, SameHeads, nSessionID' = nSessionID,
         \A m \in net' : m.id < nSessionID
  PROVE  IdsOK'
BY DEF IdsOK, SameHeads

LEMMA IdsOfFreed ==
  ASSUME TypeOK, IdsOK, NEW r \in Requests, NEW b \in BOOLEAN,
         sess[r].stage # "none", b => sess[r].kind = "regist",
         sess' = [sess EXCEPT ![r] = Freed(sess[r], b)],
         UNCHANGED <<nSessionID, net>>
  PROVE  IdsOK'
<1>1. sess[r] \in Session  BY DEF TypeOK
<1>2. \A q \in Requests : q # r => sess'[q] = sess[q]  BY DEF TypeOK
<1>3. sess'[r] = Freed(sess[r], b)  BY DEF TypeOK
<1>4. QED BY <1>1, <1>2, <1>3, FreedKeeps DEF IdsOK

(* An answer of the ledger changes at most one entry of one session.       *)
LEMMA AnswerKeepsHeads ==
  ASSUME TypeOK, NEW m \in net, OnQueryRsp(m)
  PROVE  SameHeads
<1>1. CASE sess' = sess  BY <1>1 DEF SameHeads
<1>2. ASSUME NEW r \in Requests, NEW k \in Keys, NEW e,
             sess' = [sess EXCEPT ![r].lst[k] = e]
      PROVE  SameHeads
  BY <1>2 DEF SameHeads, TypeOK, Session
<1>3. FindProposal(m.id) \subseteq Requests
      /\ \A r \in Requests : Listed(r, m) \subseteq Keys
  BY DEF FindProposal, Listed
<1>4. CASE UNCHANGED <<sess, got>>  BY <1>1, <1>4
<1>5. ASSUME ~UNCHANGED <<sess, got>>
      PROVE \E r \in Requests : \E k \in Keys : \E e :
               sess' = [sess EXCEPT ![r].lst[k] = e]
  <2>1. PICK r \in FindProposal(m.id) : \E k \in Listed(r, m) :
          LET d == [of |-> m.k, ver |-> m.ver]
              e == sess[r].lst[k]
          IN  sess' = [sess EXCEPT ![r].lst[k] =
                         [e EXCEPT !.ver = m.ver, !.value = d,
                                   !.read = TRUE, !.rver = m.ver]]
    BY <1>5 DEF OnQueryRsp
  <2>2. PICK k \in Listed(r, m) :
          LET d == [of |-> m.k, ver |-> m.ver]
              e == sess[r].lst[k]
          IN  sess' = [sess EXCEPT ![r].lst[k] =
                         [e EXCEPT !.ver = m.ver, !.value = d,
                                   !.read = TRUE, !.rver = m.ver]]
    BY <2>1
  <2>3. QED BY <1>3, <2>2
<1>6. QED BY <1>2, <1>4, <1>5

LEMMA IdsStep ==
  ASSUME TypeOK, IdsOK, [Next]_vars
  PROVE  IdsOK'
<1>1. ASSUME NEW r \in Requests, NEW kind \in {"regist", "propose"}, OnRequest(r, kind)
      PROVE  IdsOK'
  <2>1. /\ sess'[r].stage = "live" /\ sess'[r].id = nSessionID
        /\ \A q \in Requests : q # r => sess'[q] = sess[q]
    BY <1>1 DEF OnRequest, TypeOK, NoSession
  <2>2. nSessionID \in Nat /\ \A q \in Requests : sess[q].id \in Nat
    BY DEF TypeOK, Session
  <2>3. \A m \in net : m.id \in Nat  BY DEF TypeOK, Message
  <2>4. nSessionID' = nSessionID + 1 /\ net' = net  BY <1>1 DEF OnRequest
  <2>5. QED BY <2>1, <2>2, <2>3, <2>4 DEF IdsOK
<1>2. ASSUME NEW r \in Requests, ProcReturns(r) PROVE IdsOK'
  BY <1>2 DEF ProcReturns, IdsOK
<1>3. ASSUME NEW r \in Requests, ProcFails(r) PROVE IdsOK'
  <2> DEFINE b == sess[r].kind = "regist"
  <2>1. sess' = [sess EXCEPT ![r] = Freed(sess[r], b)]  BY <1>3 DEF ProcFails
  <2>2. sess[r].stage # "none" /\ UNCHANGED <<nSessionID, net>>  BY <1>3 DEF ProcFails
  <2>3. b \in BOOLEAN /\ (b => sess[r].kind = "regist")  OBVIOUS
  <2> HIDE DEF b
  <2>4. QED BY <2>1, <2>2, <2>3, IdsOfFreed
<1>4. ASSUME NEW r \in Requests, CallRefused(r) PROVE IdsOK'
  BY <1>4 DEF CallRefused, IdsOK
<1>5. ASSUME NEW r \in Requests, NEW k \in Keys, Get(r, k) PROVE IdsOK'
  <2>1. SameHeads  BY <1>5 DEF Get, SameHeads, TypeOK, Session
  <2>2. sess[r].id < nSessionID  BY <1>5 DEF Get, Serves, IdsOK
  <2>3. \A m \in net' : m.id < nSessionID  BY <1>5, <2>2 DEF Get, IdsOK
  <2>4. QED BY <1>5, <2>1, <2>3, IdsOfHeads DEF Get
<1>6. ASSUME NEW r \in Requests, NEW k \in Keys, GetListed(r, k) PROVE IdsOK'
  BY <1>6 DEF GetListed, IdsOK
<1>7. ASSUME NEW r \in Requests, NEW k \in Keys, Set(r, k) PROVE IdsOK'
  <2>1. SameHeads  BY <1>7 DEF Set, SameHeads, TypeOK, Session
  <2>2. \A m \in net' : m.id < nSessionID  BY <1>7 DEF Set, IdsOK
  <2>3. QED BY <1>7, <2>1, <2>2, IdsOfHeads DEF Set
<1>8. ASSUME NEW r \in Requests, NEW n \in News, Create(r, n) PROVE IdsOK'
  <2>1. SameHeads  BY <1>8 DEF Create, SameHeads, TypeOK, Session
  <2>2. \A m \in net' : m.id < nSessionID  BY <1>8 DEF Create, IdsOK
  <2>3. QED BY <1>8, <2>1, <2>2, IdsOfHeads DEF Create
<1>9. ASSUME NEW r \in Requests, RegistUserRsp(r) PROVE IdsOK'
  <2>1. sess[r].stage # "none"  BY <1>9 DEF RegistUserRsp, Serves, IdsOK
  <2>2. QED BY <1>9, <2>1, IdsOfFreed DEF RegistUserRsp
<1>10. ASSUME NEW r \in Requests, PorposalRsp(r) PROVE IdsOK'
  <2>1. sess[r].stage # "none"  BY <1>10 DEF PorposalRsp, Serves, IdsOK
  <2>2. QED BY <1>10, <2>1, IdsOfFreed DEF PorposalRsp
<1>11. ASSUME NEW m \in net, OnQueryRsp(m) PROVE IdsOK'
  <2>1. SameHeads  BY <1>11, AnswerKeepsHeads
  <2>2. \A n \in net' : n.id < nSessionID  BY <1>11 DEF OnQueryRsp, IdsOK
  <2>3. QED BY <1>11, <2>1, <2>2, IdsOfHeads DEF OnQueryRsp
<1>12. ASSUME NEW m \in net, OnQueryFailed(m) PROVE IdsOK'
  BY <1>12 DEF OnQueryFailed, IdsOK
<1>13. ASSUME NEW r \in Requests, OnTimeOut(r) PROVE IdsOK'
  BY <1>13, IdsOfFreed DEF OnTimeOut
<1>14. ASSUME OnExit PROVE IdsOK'
  <2>1. \A r \in Requests : /\ sess'[r].stage # "none" => sess[r].stage # "none"
                            /\ sess'[r].stage # "none" => sess'[r].id = sess[r].id
                            /\ ~sess'[r].inMap
    <3> SUFFICES ASSUME NEW r \in Requests
                 PROVE  /\ sess'[r].stage # "none" => sess[r].stage # "none"
                        /\ sess'[r].stage # "none" => sess'[r].id = sess[r].id
                        /\ ~sess'[r].inMap
      OBVIOUS
    <3>1. sess[r] \in Session  BY DEF TypeOK
    <3>2. sess'[r] = IF sess[r].stage = "none" THEN NoSession ELSE Freed(sess[r], FALSE)
      BY <1>14 DEF OnExit
    <3>3. CASE sess[r].stage = "none"  BY <3>2, <3>3 DEF NoSession
    <3>4. CASE sess[r].stage # "none"
      <4>1. sess'[r] = Freed(sess[r], FALSE)  BY <3>2, <3>4
      <4>2. QED BY <3>1, <3>4, <4>1, FreedKeeps
    <3>5. QED BY <3>3, <3>4
  <2>2. UNCHANGED <<nSessionID, net>>  BY <1>14 DEF OnExit
  <2>3. QED BY <2>1, <2>2 DEF IdsOK
<1>15. ASSUME NEW m \in net, XcsAnswers(m) PROVE IdsOK'
  <2>1. \A n \in net' : n.id < nSessionID  BY <1>15 DEF XcsAnswers, IdsOK
  <2>2. QED BY <1>15, <2>1 DEF XcsAnswers, IdsOK
<1>16. ASSUME NEW k \in Keys, LedgerMoves(k) PROVE IdsOK'
  BY <1>16 DEF LedgerMoves, IdsOK
<1>17. CASE UNCHANGED vars  BY <1>17 DEF vars, IdsOK
<1>18. QED
  BY <1>1, <1>2, <1>3, <1>4, <1>5, <1>6, <1>7, <1>8, <1>9, <1>10, <1>11, <1>12,
     <1>13, <1>14, <1>15, <1>16, <1>17 DEF Next, ChaincodeCalls

-----------------------------------------------------------------------------
(* Answers.                                                                *)

(* What one more answer to a live session, which is freed, leaves.         *)
LEMMA AnsweredOnce ==
  ASSUME TypeOK, OneAnswer, NEW r \in Requests, NEW b \in BOOLEAN, NEW c \in Codes,
         sess[r].stage = "live", svc = "up",
         sess' = [sess EXCEPT ![r] = Freed(sess[r], b)], Answer(r, c)
  PROVE  OneAnswer'
<1>1. sess[r] \in Session  BY DEF TypeOK
<1>2. sess'[r].stage = "done"  BY <1>1, FreedKeeps DEF TypeOK
<1>3. replies[r] = <<>>  BY DEF OneAnswer
<1>4. replies'[r] = <<c>>  BY <1>3 DEF Answer, TypeOK
<1>5. \A q \in Requests : q # r => sess'[q] = sess[q] /\ replies'[q] = replies[q]
  BY DEF Answer, TypeOK
<1>6. Len(replies'[r]) <= 1 /\ replies'[r] # <<>>  BY <1>4
<1>7. \A q \in Requests : q # r =>
        /\ Len(replies'[q]) <= 1
        /\ sess'[q].stage # "done" => replies'[q] = <<>>
        /\ sess'[q].stage = "done" => replies'[q] # <<>>
  BY <1>5 DEF OneAnswer
<1>8. QED  BY <1>2, <1>6, <1>7 DEF OneAnswer

LEMMA AnsweredAsBefore ==
  ASSUME OneAnswer, svc = "up", UNCHANGED replies,
         \A r \in Requests : sess'[r].stage = "done" <=> sess[r].stage = "done"
  PROVE  OneAnswer'
BY DEF OneAnswer

LEMMA AnswersStep ==
  ASSUME Orderly, TypeOK, IdsOK, OneAnswer, [Next]_vars
  PROVE  OneAnswer'
<1>1. ASSUME NEW r \in Requests, NEW kind \in {"regist", "propose"}, OnRequest(r, kind)
      PROVE  OneAnswer'
  <2>1. /\ sess'[r].stage = "live" /\ sess[r].stage = "none"
        /\ \A q \in Requests : q # r => sess'[q] = sess[q]
    BY <1>1 DEF OnRequest, TypeOK, NoSession
  <2>2. \A q \in Requests : sess'[q].stage = "done" <=> sess[q].stage = "done"
    BY <2>1
  <2>3. svc = "up" /\ UNCHANGED replies  BY <1>1 DEF OnRequest
  <2>4. UNCHANGED svc  BY <1>1 DEF OnRequest
  <2>5. QED BY <2>2, <2>3, <2>4, AnsweredAsBefore
<1>2. ASSUME NEW r \in Requests, ProcReturns(r) PROVE OneAnswer'
  BY <1>2, AnsweredAsBefore DEF ProcReturns
<1>3. ASSUME NEW r \in Requests, ProcFails(r) PROVE OneAnswer'
  <2> DEFINE b == sess[r].kind = "regist"
  <2>1. sess' = [sess EXCEPT ![r] = Freed(sess[r], b)]  BY <1>3 DEF ProcFails
  <2>2. sess[r].stage = "live" /\ svc = "up" /\ Answer(r, "CC_REPORT")
    BY <1>3 DEF ProcFails
  <2>3. b \in BOOLEAN /\ "CC_REPORT" \in Codes  BY DEF Codes
  <2> HIDE DEF b
  <2>4. QED BY <2>1, <2>2, <2>3, AnsweredOnce
<1>4. ASSUME NEW r \in Requests, CallRefused(r) PROVE OneAnswer'
  BY <1>4, AnsweredAsBefore DEF CallRefused, Running
<1>5. ASSUME NEW r \in Requests, NEW k \in Keys, Get(r, k) PROVE OneAnswer'
  <2>1. SameHeads  BY <1>5 DEF Get, SameHeads, TypeOK, Session
  <2>2. QED BY <1>5, <2>1, AnsweredAsBefore DEF Get, Running, SameHeads
<1>6. ASSUME NEW r \in Requests, NEW k \in Keys, GetListed(r, k) PROVE OneAnswer'
  BY <1>6, AnsweredAsBefore DEF GetListed, Running
<1>7. ASSUME NEW r \in Requests, NEW k \in Keys, Set(r, k) PROVE OneAnswer'
  <2>1. SameHeads  BY <1>7 DEF Set, SameHeads, TypeOK, Session
  <2>2. QED BY <1>7, <2>1, AnsweredAsBefore DEF Set, Running, SameHeads
<1>8. ASSUME NEW r \in Requests, NEW n \in News, Create(r, n) PROVE OneAnswer'
  <2>1. SameHeads  BY <1>8 DEF Create, SameHeads, TypeOK, Session
  <2>2. QED BY <1>8, <2>1, AnsweredAsBefore DEF Create, Running, SameHeads
<1>9. ASSUME NEW r \in Requests, RegistUserRsp(r) PROVE OneAnswer'
  <2>1. PICK c \in {"ALLOW", "DENY", "ERROR"} : Answer(r, c)  BY <1>9 DEF RegistUserRsp
  <2>2. c \in Codes  BY DEF Codes
  <2>3. sess[r].stage = "live"  BY <1>9 DEF RegistUserRsp
  <2>4. QED BY <1>9, <2>1, <2>2, <2>3, AnsweredOnce DEF RegistUserRsp, Running
<1>10. ASSUME NEW r \in Requests, PorposalRsp(r) PROVE OneAnswer'
  <2>1. PICK c \in {"OK", "CC_REPORT"} : Answer(r, c)  BY <1>10 DEF PorposalRsp
  <2>2. c \in Codes  BY DEF Codes
  <2>3. sess[r].stage = "live"  BY <1>10 DEF PorposalRsp, Serves, IdsOK
  <2>4. QED BY <1>10, <2>1, <2>2, <2>3, AnsweredOnce DEF PorposalRsp, Running
<1>11. ASSUME NEW m \in net, OnQueryRsp(m) PROVE OneAnswer'
  <2>1. SameHeads  BY <1>11, AnswerKeepsHeads
  <2>2. QED BY <1>11, <2>1, AnsweredAsBefore DEF OnQueryRsp, SameHeads
<1>12. ASSUME NEW m \in net, OnQueryFailed(m) PROVE OneAnswer'
  BY <1>12, AnsweredAsBefore DEF OnQueryFailed
<1>13. ASSUME NEW r \in Requests, OnTimeOut(r) PROVE OneAnswer'
  <2>1. "TIMEOUT" \in Codes  BY DEF Codes
  <2>2. QED BY <1>13, <2>1, AnsweredOnce DEF OnTimeOut
<1>14. ASSUME OnExit PROVE OneAnswer'
  <2>1. \A r \in Requests :
          sess'[r].stage # "done" => sess[r].stage = "none"
    BY <1>14, FreedKeeps DEF OnExit, TypeOK
  <2>2. svc' # "up" /\ UNCHANGED replies  BY <1>14 DEF OnExit
  <2>3. QED BY <2>1, <2>2 DEF OneAnswer
<1>15. ASSUME NEW m \in net, XcsAnswers(m) PROVE OneAnswer'
  BY <1>15, AnsweredAsBefore DEF XcsAnswers
<1>16. ASSUME NEW k \in Keys, LedgerMoves(k) PROVE OneAnswer'
  BY <1>16, AnsweredAsBefore DEF LedgerMoves
<1>17. CASE UNCHANGED vars  BY <1>17 DEF vars, OneAnswer
<1>18. QED
  BY <1>1, <1>2, <1>3, <1>4, <1>5, <1>6, <1>7, <1>8, <1>9, <1>10, <1>11, <1>12,
     <1>13, <1>14, <1>15, <1>16, <1>17 DEF Next, ChaincodeCalls

LEMMA CcIdsAndAnswers == ASSUME Orderly PROVE Spec => [](IdsOK /\ OneAnswer)
<1>1. Init => IdsOK /\ OneAnswer
  <2> SUFFICES ASSUME Init PROVE IdsOK /\ OneAnswer  OBVIOUS
  <2>1. /\ \A r \in Requests : /\ sess[r].stage = "none" /\ ~sess[r].inMap
                              /\ replies[r] = <<>>
        /\ net = {}
    BY DEF Init, NoSession
  <2>2. QED BY <2>1 DEF IdsOK, OneAnswer
<1>2. TypeOK /\ IdsOK /\ OneAnswer /\ [Next]_vars => (TypeOK /\ IdsOK /\ OneAnswer)'
  BY TypeStep, IdsStep, AnswersStep
<1>3. QED BY TypeInit, <1>1, <1>2, PTL DEF Spec

(* Every request gets one answer, if the chaincode forgets those that it   *)
(* failed: whatever the order of return, answer, timer and exit.           *)
THEOREM CcOneAnswer == ASSUME Orderly PROVE Spec => []OneAnswer
<1>1. QED BY CcIdsAndAnswers, PTL

-----------------------------------------------------------------------------
(* The promise of UserCall to the endorser.                                *)

Asked == {r \in Requests : sess[r].stage # "none"}
Promise == Call!Next \/ UNCHANGED Call!vars

(* The same requests were made.                                            *)
SameAsked == \A q \in Requests : sess'[q].stage = "none" <=> sess[q].stage = "none"

LEMMA UnheardStep ==
  ASSUME SameAsked, UNCHANGED <<svc, replies>>
  PROVE  Promise
<1>1. Asked' = Asked  BY DEF SameAsked, Asked
<1>2. QED BY <1>1 DEF Promise, Call!vars, Asked

LEMMA OneIsAnswered ==
  ASSUME TypeOK, OneAnswer, svc = "up", svc' = "up", NEW r \in Requests,
         sess[r].stage = "live", NEW b \in BOOLEAN, NEW c \in Codes,
         sess' = [sess EXCEPT ![r] = Freed(sess[r], b)], Answer(r, c)
  PROVE  Promise
<1>1. sess[r] \in Session /\ replies[r] = <<>> /\ r \in Asked
  BY DEF TypeOK, OneAnswer, Asked
<1>2. sess'[r].stage = "done" /\ \A q \in Requests : q # r => sess'[q] = sess[q]
  BY <1>1, FreedKeeps DEF TypeOK
<1>3. Asked' = Asked  BY <1>1, <1>2 DEF Asked
<1>4. replies' = [q \in Requests |-> IF q \in {r} THEN <<c>> ELSE replies[q]]
  <2>1. Append(<<>>, c) = <<c>>  OBVIOUS
  <2>2. QED BY <1>1, <2>1 DEF Answer, TypeOK
<1>5. {r} \subseteq Call!Unanswered  BY <1>1 DEF Call!Unanswered, Asked
<1>6. Call!AnswerAll({r})  BY <1>3, <1>4, <1>5 DEF Call!AnswerAll, Asked
<1>7. Call!Answer(r)  BY <1>5, <1>6 DEF Call!Answer
<1>8. QED BY <1>7 DEF Promise, Call!Next

LEMMA PromiseStep ==
  ASSUME Orderly, TypeOK, IdsOK, OneAnswer, [Next]_vars
  PROVE  Promise
<1>1. ASSUME NEW r \in Requests, NEW kind \in {"regist", "propose"}, OnRequest(r, kind)
      PROVE  Promise
  <2>1. /\ sess'[r].stage = "live" /\ sess[r].stage = "none"
        /\ \A q \in Requests : q # r => sess'[q] = sess[q]
    BY <1>1 DEF OnRequest, TypeOK, NoSession
  <2>2. r \notin Asked /\ Asked' = Asked \cup {r}  BY <2>1 DEF Asked
  <2>3. Call!Ask(r)  BY <1>1, <2>2 DEF OnRequest, Call!Ask, Asked
  <2>4. QED BY <2>3 DEF Promise, Call!Next
<1>2. ASSUME SameHeads, UNCHANGED <<svc, replies>> PROVE Promise
  BY <1>2, UnheardStep DEF SameHeads, SameAsked
<1>3. ASSUME NEW r \in Requests, ProcReturns(r) PROVE Promise
  BY <1>2, <1>3 DEF ProcReturns, SameHeads
<1>4. ASSUME NEW r \in Requests, ProcFails(r) PROVE Promise
  <2> DEFINE b == sess[r].kind = "regist"
  <2>1. sess' = [sess EXCEPT ![r] = Freed(sess[r], b)]  BY <1>4 DEF ProcFails
  <2>2. sess[r].stage = "live" /\ svc = "up" /\ svc' = "up" /\ Answer(r, "CC_REPORT")
    BY <1>4 DEF ProcFails
  <2>3. b \in BOOLEAN /\ "CC_REPORT" \in Codes  BY DEF Codes
  <2> HIDE DEF b
  <2>4. QED BY <2>1, <2>2, <2>3, OneIsAnswered
<1>5. ASSUME NEW r \in Requests, CallRefused(r) PROVE Promise
  BY <1>2, <1>5 DEF CallRefused, SameHeads
<1>6. ASSUME NEW r \in Requests, NEW k \in Keys, Get(r, k) \/ GetListed(r, k) \/ Set(r, k)
      PROVE  Promise
  <2>1. SameHeads
    <3>1. CASE Get(r, k)  BY <3>1 DEF Get, SameHeads, TypeOK, Session
    <3>2. CASE GetListed(r, k)  BY <3>2 DEF GetListed, SameHeads
    <3>3. CASE Set(r, k)  BY <3>3 DEF Set, SameHeads, TypeOK, Session
    <3>4. QED BY <1>6, <3>1, <3>2, <3>3
  <2>2. QED BY <1>2, <1>6, <2>1 DEF Get, GetListed, Set
<1>7. ASSUME NEW r \in Requests, NEW n \in News, Create(r, n) PROVE Promise
  <2>1. SameHeads  BY <1>7 DEF Create, SameHeads, TypeOK, Session
  <2>2. QED BY <1>2, <1>7, <2>1 DEF Create
<1>8. ASSUME NEW r \in Requests, RegistUserRsp(r) PROVE Promise
  <2>1. PICK c \in {"ALLOW", "DENY", "ERROR"} : Answer(r, c)  BY <1>8 DEF RegistUserRsp
  <2>2. c \in Codes  BY DEF Codes
  <2>3. sess[r].stage = "live" /\ svc = "up" /\ svc' = "up"
    BY <1>8 DEF RegistUserRsp, Running
  <2>4. QED BY <1>8, <2>1, <2>2, <2>3, OneIsAnswered DEF RegistUserRsp
<1>9. ASSUME NEW r \in Requests, PorposalRsp(r) PROVE Promise
  <2>1. PICK c \in {"OK", "CC_REPORT"} : Answer(r, c)  BY <1>9 DEF PorposalRsp
  <2>2. c \in Codes  BY DEF Codes
  <2>3. sess[r].stage = "live"  BY <1>9 DEF PorposalRsp, Serves, IdsOK
  <2>4. QED BY <1>9, <2>1, <2>2, <2>3, OneIsAnswered DEF PorposalRsp, Running
<1>10. ASSUME NEW m \in net, OnQueryRsp(m) PROVE Promise
  <2>1. SameHeads  BY <1>10, AnswerKeepsHeads
  <2>2. QED BY <1>2, <1>10, <2>1 DEF OnQueryRsp
<1>11. ASSUME NEW m \in net, OnQueryFailed(m) \/ XcsAnswers(m) PROVE Promise
  BY <1>2, <1>11 DEF OnQueryFailed, XcsAnswers, SameHeads
<1>12. ASSUME NEW r \in Requests, OnTimeOut(r) PROVE Promise
  <2>1. "TIMEOUT" \in Codes  BY DEF Codes
  <2>2. QED BY <1>12, <2>1, OneIsAnswered DEF OnTimeOut
<1>13. CASE OnExit
  <2>1. \A r \in Requests : sess[r] \in Session  BY DEF TypeOK
  <2>2. Asked' = Asked  BY <1>13, <2>1, FreedKeeps DEF OnExit, Asked, NoSession
  <2>3. Call!Stop  BY <1>13, <2>2 DEF OnExit, Call!Stop, Asked
  <2>4. QED BY <2>3 DEF Promise, Call!Next
<1>14. ASSUME NEW k \in Keys, LedgerMoves(k) PROVE Promise
  BY <1>2, <1>14 DEF LedgerMoves, SameHeads
<1>15. CASE UNCHANGED vars  BY <1>2, <1>15 DEF vars, SameHeads
<1>16. QED
  BY <1>1, <1>3, <1>4, <1>5, <1>6, <1>7, <1>8, <1>9, <1>10, <1>11, <1>12, <1>13,
     <1>14, <1>15 DEF Next, ChaincodeCalls

(* The answers that an endorser gets are those that UserCall promises, the *)
(* specification that the client services implement: a request is taken,   *)
(* answered once, and the service stops without answering                  *)
(* (cc_service.cpp:86-134, 237-263, 585-741).                              *)
THEOREM CcPromiseKept == ASSUME Orderly PROVE Spec => Call!Spec
<1>1. Init => Call!Init
  <2> SUFFICES ASSUME Init PROVE Call!Init  OBVIOUS
  <2>1. \A r \in Requests : sess[r].stage = "none"  BY DEF Init, NoSession
  <2>2. QED BY <2>1 DEF Init, Call!Init
<1>2. IdsOK /\ TypeOK /\ OneAnswer /\ [Next]_vars => [Call!Next]_Call!vars
  BY PromiseStep DEF Promise
<1>3. QED
  BY CcTypeCorrect, CcIdsAndAnswers, <1>1, <1>2, PTL DEF Spec, Call!Spec

-----------------------------------------------------------------------------
(* Reads and writes.  A question is asked once, and its answer finds the   *)
(* entry unread: an information that was read and set is not overwritten.  *)

Proposing(r) == sess[r].stage = "live" /\ sess[r].kind = "propose"

QuestionsOK ==
  /\ \A m, n \in net : m.id = n.id /\ m.k = n.k => m = n
  /\ \A r \in Requests : \A m \in net :
       Proposing(r) /\ sess[r].id = m.id =>
         /\ sess[r].lst[m.k].asked
         /\ m.k \in Infos => ~sess[r].lst[m.k].read

EntryOK(k, e) ==
  /\ e.set => e.read /\ e.value = New /\ IsVersionMatch(e.rver, e.ver)
  /\ e.read /\ ~e.set => e.ver = e.rver
  /\ e.read => e.value = New \/ (e.value \in Data /\ e.value.of = k)

EntriesOK ==
  \A r \in Requests : \A k \in Infos : EntryOK(k, sess[r].lst[k])

(* An information is found by an answer about itself only.                 *)
LEMMA MatchesItself ==
  ASSUME TypeOK, NEW m \in net, NEW k \in Infos, Matches(k, m)
  PROVE  m.k = k
<1>1. k \notin Users  BY KeysAssumption
<1>2. m.k \in Infos /\ SysId[k] = SysId[m.k]  BY <1>1 DEF Matches
<1>3. QED BY <1>2, SysIdAssumption

(* The shape of the steps that change entries.                             *)
Changes(r, k, e) ==
  /\ SameHeads
  /\ sess'[r].lst[k] = e
  /\ \A q \in Requests : \A l \in Keys :
       q # r \/ l # k => sess'[q].lst[l] = sess[q].lst[l]

LEMMA OneEntry ==
  ASSUME TypeOK, NEW r \in Requests, NEW k \in Keys, NEW e,
         sess' = [sess EXCEPT ![r].lst[k] = e]
  PROVE  Changes(r, k, e)
BY DEF Changes, SameHeads, TypeOK, Session

LEMMA QuestionsOfSame ==
  ASSUME TypeOK, QuestionsOK, SameHeads, net' \subseteq net,
         \A r \in Requests : \A k \in Keys :
           /\ sess[r].lst[k].asked => sess'[r].lst[k].asked
           /\ sess'[r].lst[k].read => sess[r].lst[k].read
  PROVE  QuestionsOK'
<1>1. \A m \in net : m.k \in Keys  BY DEF TypeOK, Message
<1>2. \A r \in Requests : Proposing(r)' <=> Proposing(r)  BY DEF Proposing, SameHeads
<1>3. \A r \in Requests : sess'[r].id = sess[r].id  BY DEF SameHeads
<1>4. QED BY <1>1, <1>2, <1>3 DEF QuestionsOK

LEMMA QuestionsOfFreed ==
  ASSUME TypeOK, QuestionsOK, net' = net, NEW r \in Requests, NEW b \in BOOLEAN,
         sess' = [sess EXCEPT ![r] = Freed(sess[r], b)]
  PROVE  QuestionsOK'
<1>1. ~Proposing(r)'
  BY DEF Proposing, TypeOK, Freed, NoSession
<1>2. \A q \in Requests : q # r => sess'[q] = sess[q]  BY DEF TypeOK
<1>3. QED BY <1>1, <1>2 DEF QuestionsOK, Proposing

LEMMA EntriesOfFreed ==
  ASSUME TypeOK, EntriesOK, NEW r \in Requests, NEW b \in BOOLEAN,
         sess' = [sess EXCEPT ![r] = Freed(sess[r], b)]
  PROVE  EntriesOK'
<1>1. \A k \in Keys : sess'[r].lst[k] = NoEntry
  BY DEF TypeOK, Freed, NoSession
<1>2. \A q \in Requests : q # r => sess'[q] = sess[q]  BY DEF TypeOK
<1>3. \A k \in Keys : EntryOK(k, NoEntry)  BY DEF EntryOK, NoEntry
<1>4. QED BY <1>1, <1>2, <1>3 DEF EntriesOK

LEMMA EntriesOfOne ==
  ASSUME TypeOK, EntriesOK, NEW r \in Requests, NEW k \in Keys, NEW e,
         sess' = [sess EXCEPT ![r].lst[k] = e], k \in Infos => EntryOK(k, e)
  PROVE  EntriesOK'
BY OneEntry DEF EntriesOK, Changes

Reads == QuestionsOK /\ EntriesOK

LEMMA ReadsStep ==
  ASSUME Orderly, TypeOK, IdsOK, Reads, [Next]_vars
  PROVE  Reads'
<1> USE DEF Reads
<1>1. ASSUME NEW r \in Requests, NEW kind \in {"regist", "propose"}, OnRequest(r, kind)
      PROVE  Reads'
  <2>1. /\ sess'[r].id = nSessionID /\ sess'[r].lst = [k \in Keys |-> NoEntry]
        /\ \A q \in Requests : q # r => sess'[q] = sess[q]
        /\ net' = net
    BY <1>1 DEF OnRequest, TypeOK, NoSession
  <2>2. \A m \in net : m.id \in Nat /\ m.id # nSessionID
    BY DEF IdsOK, TypeOK, Message
  <2>3. QuestionsOK'  BY <2>1, <2>2 DEF QuestionsOK, Proposing
  <2>4. \A k \in Infos : EntryOK(k, NoEntry)  BY DEF EntryOK, NoEntry
  <2>5. EntriesOK'  BY <2>1, <2>4 DEF EntriesOK
  <2>6. QED BY <2>3, <2>5
<1>2. ASSUME NEW r \in Requests, ProcReturns(r) PROVE Reads'
  BY <1>2 DEF ProcReturns, QuestionsOK, EntriesOK, Proposing
<1>3. ASSUME NEW r \in Requests, ProcFails(r) PROVE Reads'
  <2> DEFINE b == sess[r].kind = "regist"
  <2>1. sess' = [sess EXCEPT ![r] = Freed(sess[r], b)]  BY <1>3 DEF ProcFails
  <2>2. net' = net /\ b \in BOOLEAN  BY <1>3 DEF ProcFails
  <2> HIDE DEF b
  <2>3. QED BY <2>1, <2>2, QuestionsOfFreed, EntriesOfFreed
<1>4. ASSUME NEW r \in Requests, CallRefused(r) PROVE Reads'
  BY <1>4 DEF CallRefused, QuestionsOK, EntriesOK, Proposing
<1>5. ASSUME NEW r \in Requests, NEW k \in Keys, Get(r, k) PROVE Reads'
  <2> DEFINE e == [NoEntry EXCEPT !.asked = TRUE]
             q == [type |-> "query", id |-> sess[r].id, k |-> k]
  <2>1. sess' = [sess EXCEPT ![r].lst[k] = e]  BY <1>5 DEF Get
  <2>2. e.asked /\ ~e.read /\ (k \in Infos => EntryOK(k, e))  BY DEF NoEntry, EntryOK
  <2>3. EntriesOK'  BY <2>1, <2>2, EntriesOfOne
  <2>4. Proposing(r) /\ ~sess[r].lst[k].asked
    BY <1>5 DEF Get, Serves, IdsOK, Proposing
  <2>5. \A m \in net : ~(m.id = sess[r].id /\ m.k = k)
    BY <2>4 DEF QuestionsOK
  <2>6. net' \subseteq net \cup {q}  BY <1>5 DEF Get
  <2>7. Changes(r, k, e)
    <3> HIDE DEF e
    <3> QED BY <2>1, OneEntry
  <2>8. \A m, n \in net' : m.id = n.id /\ m.k = n.k => m = n
    BY <2>5, <2>6 DEF QuestionsOK
  <2>9. ASSUME NEW p \in Requests, NEW m \in net', Proposing(p)', sess'[p].id = m.id
        PROVE  /\ sess'[p].lst[m.k].asked
               /\ m.k \in Infos => ~sess'[p].lst[m.k].read
    <3>1. Proposing(p) /\ sess[p].id = m.id  BY <2>7, <2>9 DEF Proposing, Changes, SameHeads
    <3>2. CASE m = q
      <4>1. p = r  BY <2>4, <3>1, <3>2 DEF IdsOK, Proposing
      <4>2. QED BY <2>2, <2>7, <3>2, <4>1 DEF Changes
    <3>3. CASE m \in net
      <4>1. m.k \in Keys  BY <3>3 DEF TypeOK, Message
      <4>2. p # r \/ m.k # k  BY <2>5, <3>1, <3>3
      <4>3. sess'[p].lst[m.k] = sess[p].lst[m.k]  BY <2>7, <4>1, <4>2 DEF Changes
      <4>4. QED BY <3>1, <3>3, <4>3 DEF QuestionsOK
    <3>4. QED BY <2>6, <3>2, <3>3
  <2>10. QuestionsOK'  BY <2>8, <2>9 DEF QuestionsOK
  <2>11. QED BY <2>3, <2>10
<1>6. ASSUME NEW r \in Requests, NEW k \in Keys, GetListed(r, k) PROVE Reads'
  BY <1>6 DEF GetListed, QuestionsOK, EntriesOK, Proposing
<1>7. ASSUME NEW r \in Requests, NEW k \in Keys, Set(r, k) PROVE Reads'
  <2> DEFINE e == sess[r].lst[k]
             f == [e EXCEPT !.value = New, !.set = TRUE,
                            !.ver = IF e.set THEN e.ver ELSE IncreaseVersion(e.ver)]
  <2>1. sess' = [sess EXCEPT ![r].lst[k] = f]  BY <1>7 DEF Set
  <2>2. e \in Entry  BY DEF TypeOK, Session
  <2>3. e.asked /\ e.read  BY <1>7 DEF Set
  <2>4. /\ f.asked = e.asked /\ f.read = e.read /\ f.rver = e.rver
        /\ f.value = New /\ f.set
        /\ f.ver = IF e.set THEN e.ver ELSE IncreaseVersion(e.ver)
    BY <2>2 DEF Entry
  <2>5. ASSUME k \in Infos PROVE EntryOK(k, f)
    <3>1. EntryOK(k, e)  BY <2>5 DEF EntriesOK
    <3>2. e.ver \in Versions  BY <2>2 DEF Entry
    <3>3. IsVersionMatch(f.rver, f.ver)
      BY <2>3, <2>4, <3>1, <3>2, VersionMoves DEF EntryOK
    <3> HIDE DEF e, f
    <3>4. QED BY <2>3, <2>4, <3>3 DEF EntryOK
  <2> HIDE DEF f
  <2>6. EntriesOK'  BY <2>1, <2>5, EntriesOfOne
  <2>7. Changes(r, k, f)  BY <2>1, OneEntry
  <2>8. \A p \in Requests : \A l \in Keys :
           /\ sess[p].lst[l].asked => sess'[p].lst[l].asked
           /\ sess'[p].lst[l].read => sess[p].lst[l].read
    BY <2>3, <2>4, <2>7 DEF Changes
  <2>9. net' = net  BY <1>7 DEF Set
  <2>10. QED BY <2>6, <2>7, <2>8, <2>9, QuestionsOfSame DEF Changes
<1>8. ASSUME NEW r \in Requests, NEW n \in News, Create(r, n) PROVE Reads'
  <2>1. SameHeads /\ \A q \in Requests : sess'[q].lst = sess[q].lst
    BY <1>8 DEF Create, SameHeads, TypeOK, Session
  <2>2. net' = net  BY <1>8 DEF Create
  <2>3. EntriesOK'  BY <2>1 DEF EntriesOK
  <2>4. QED BY <2>1, <2>2, <2>3, QuestionsOfSame
<1>9. ASSUME NEW r \in Requests, RegistUserRsp(r) PROVE Reads'
  BY <1>9, QuestionsOfFreed, EntriesOfFreed DEF RegistUserRsp
<1>10. ASSUME NEW r \in Requests, PorposalRsp(r) PROVE Reads'
  BY <1>10, QuestionsOfFreed, EntriesOfFreed DEF PorposalRsp
<1>11. ASSUME NEW m \in net, OnQueryRsp(m) PROVE Reads'
  <2>1. net' = net \ {m}  BY <1>11 DEF OnQueryRsp
  <2>2. CASE UNCHANGED <<sess, got>>
    BY <2>1, <2>2 DEF QuestionsOK, EntriesOK, Proposing
  <2>3. CASE ~UNCHANGED <<sess, got>>
    <3> DEFINE d == [of |-> m.k, ver |-> m.ver]
               f(r, k) == [sess[r].lst[k] EXCEPT !.ver = m.ver, !.value = d,
                                                 !.read = TRUE, !.rver = m.ver]
    <3>1. PICK r \in FindProposal(m.id) : \E k \in Listed(r, m) :
            sess' = [sess EXCEPT ![r].lst[k] = f(r, k)]
      BY <1>11, <2>3 DEF OnQueryRsp
    <3>2. PICK k \in Listed(r, m) : sess' = [sess EXCEPT ![r].lst[k] = f(r, k)]
      BY <3>1
    <3>3. /\ r \in Requests /\ k \in Keys /\ Matches(k, m)
          /\ Proposing(r) /\ sess[r].id = m.id
      BY DEF FindProposal, Listed, IdsOK, Proposing
    <3>4. sess[r].lst[k] \in Entry /\ d \in Data
      <4>1. sess[r].lst[k] \in Entry  BY <3>3 DEF TypeOK, Session
      <4>2. m.k \in Keys /\ m.ver \in Versions  BY <1>11 DEF TypeOK, OnQueryRsp, Message
      <4>3. QED BY <4>1, <4>2 DEF Data
    <3> DEFINE e == f(r, k)
    <3>5. /\ e.asked = sess[r].lst[k].asked /\ e.set = sess[r].lst[k].set
          /\ e.read /\ e.ver = m.ver /\ e.rver = m.ver /\ e.value = d
      BY <3>4 DEF Entry
    <3>6. ASSUME k \in Infos PROVE m.k = k /\ EntryOK(k, e)
      <4>1. m.k = k  BY <3>3, <3>6, MatchesItself
      <4>2. ~sess[r].lst[k].read  BY <3>3, <3>6, <4>1 DEF QuestionsOK
      <4>3. ~sess[r].lst[k].set  BY <3>3, <3>6, <4>2 DEF EntriesOK, EntryOK
      <4>4. d.of = k  BY <4>1
      <4> HIDE DEF e, d
      <4>5. QED BY <3>4, <3>5, <4>1, <4>3, <4>4 DEF EntryOK
    <3>7. sess' = [sess EXCEPT ![r].lst[k] = e]  BY <3>2
    <3> HIDE DEF e, f
    <3>8. EntriesOK'  BY <3>3, <3>6, <3>7, EntriesOfOne
    <3>9. Changes(r, k, e)  BY <3>3, <3>7, OneEntry
    <3>10. ASSUME NEW p \in Requests, NEW n \in net', Proposing(p)', sess'[p].id = n.id
           PROVE  /\ sess'[p].lst[n.k].asked
                  /\ n.k \in Infos => ~sess'[p].lst[n.k].read
      <4>1. Proposing(p) /\ sess[p].id = n.id  BY <3>9, <3>10 DEF Proposing, Changes, SameHeads
      <4>2. n \in net /\ n # m /\ n.k \in Keys  BY <2>1, <3>10 DEF TypeOK, Message
      <4>3. sess[p].lst[n.k].asked /\ (n.k \in Infos => ~sess[p].lst[n.k].read)
        BY <4>1, <4>2 DEF QuestionsOK
      <4>4. CASE p # r \/ n.k # k
        BY <3>9, <4>2, <4>3, <4>4 DEF Changes
      <4>5. CASE p = r /\ n.k = k
        <5>1. k \notin Infos
          BY <3>3, <3>6, <4>1, <4>2, <4>5 DEF QuestionsOK
        <5>2. QED BY <3>5, <3>9, <4>3, <4>5, <5>1 DEF Changes
      <4>6. QED BY <4>4, <4>5
    <3>11. QuestionsOK'  BY <2>1, <3>10 DEF QuestionsOK
    <3>12. QED BY <3>8, <3>11
  <2>4. QED BY <2>2, <2>3
<1>12. ASSUME NEW m \in net, OnQueryFailed(m) PROVE Reads'
  BY <1>12 DEF OnQueryFailed, QuestionsOK, EntriesOK, Proposing
<1>13. ASSUME NEW r \in Requests, OnTimeOut(r) PROVE Reads'
  BY <1>13, QuestionsOfFreed, EntriesOfFreed DEF OnTimeOut
<1>14. ASSUME OnExit PROVE Reads'
  <2>1. \A r \in Requests : /\ sess'[r].stage # "live"
                            /\ sess'[r].lst = [k \in Keys |-> NoEntry]
    BY <1>14 DEF OnExit, Freed, NoSession, TypeOK, Session
  <2>2. net' = net  BY <1>14 DEF OnExit
  <2>3. QuestionsOK'  BY <2>1, <2>2 DEF QuestionsOK, Proposing
  <2>4. \A k \in Infos : EntryOK(k, NoEntry)  BY DEF EntryOK, NoEntry
  <2>5. EntriesOK'  BY <2>1, <2>4 DEF EntriesOK
  <2>6. QED BY <2>3, <2>5
<1>15. ASSUME NEW m \in net, XcsAnswers(m) PROVE Reads'
  <2>1. EntriesOK'  BY <1>15 DEF XcsAnswers, EntriesOK
  <2>2. PICK a : net' = (net \ {m}) \cup {a} /\ a.id = m.id /\ a.k = m.k
    <3> DEFINE a == [type |-> "answer", id |-> m.id, k |-> m.k, ver |-> ledger[m.k]]
               b == [type |-> "failure", id |-> m.id, k |-> m.k]
    <3>1. net' = (net \ {m}) \cup {a} \/ net' = (net \ {m}) \cup {b}
      BY <1>15 DEF XcsAnswers
    <3>2. a.id = m.id /\ a.k = m.k /\ b.id = m.id /\ b.k = m.k  OBVIOUS
    <3> HIDE DEF a, b
    <3>3. QED BY <3>1, <3>2
  <2>3. QuestionsOK'
    BY <1>15, <2>2 DEF XcsAnswers, QuestionsOK, Proposing
  <2>4. QED BY <2>1, <2>3
<1>16. ASSUME NEW k \in Keys, LedgerMoves(k) PROVE Reads'
  BY <1>16 DEF LedgerMoves, QuestionsOK, EntriesOK, Proposing
<1>17. CASE UNCHANGED vars  BY <1>17 DEF vars, QuestionsOK, EntriesOK, Proposing
<1>18. QED
  BY <1>1, <1>2, <1>3, <1>4, <1>5, <1>6, <1>7, <1>8, <1>9, <1>10, <1>11, <1>12,
     <1>13, <1>14, <1>15, <1>16, <1>17 DEF Next, ChaincodeCalls

(* What is given and written comes from the entries.                       *)
LEMMA WrittenStep ==
  ASSUME Orderly, TypeOK, Reads, WritesFollowReads, [Next]_vars
  PROVE  WritesFollowReads'
<1>1. CASE UNCHANGED wrote  BY <1>1 DEF WritesFollowReads
<1>2. ASSUME NEW r \in Requests, PorposalRsp(r) PROVE WritesFollowReads'
  <2> DEFINE w == [updates |-> WriteSet(r), creates |-> sess[r].created]
  <2>1. wrote' = wrote \/ wrote' = [wrote EXCEPT ![r] = w]  BY <1>2 DEF PorposalRsp
  <2>2. \A x \in w.updates :
          x.k \in Infos => x.read /\ x.value = New /\ IsVersionMatch(x.rver, x.ver)
    BY DEF WriteSet, Reads, EntriesOK, EntryOK
  <2> HIDE DEF w
  <2>3. CASE wrote' = wrote  BY <2>3 DEF WritesFollowReads
  <2>4. CASE wrote' = [wrote EXCEPT ![r] = w]
    <3>1. wrote'[r] = w /\ \A q \in Requests : q # r => wrote'[q] = wrote[q]
      BY <2>4 DEF TypeOK
    <3>2. QED BY <2>2, <3>1 DEF WritesFollowReads
  <2>5. QED BY <2>1, <2>3, <2>4
<1>3. QED
  BY <1>1, <1>2 DEF Next, ChaincodeCalls, vars, OnRequest, ProcReturns, ProcFails,
     CallRefused, Get, GetListed, Set, Create, RegistUserRsp, OnQueryRsp,
     OnQueryFailed, OnTimeOut, OnExit, XcsAnswers, LedgerMoves

LEMMA GivenOne ==
  ASSUME TypeOK, InfoIsItsOwn, NEW r \in Requests, NEW k \in Keys, NEW v,
         got' = [got EXCEPT ![r] = @ \cup {[k |-> k, value |-> v]}],
         k \in Infos => v = New \/ (v \in Data /\ v.of = k)
  PROVE  InfoIsItsOwn'
<1>1. got'[r] = got[r] \cup {[k |-> k, value |-> v]}  BY DEF TypeOK
<1>2. \A q \in Requests : q # r => got'[q] = got[q]  BY DEF TypeOK
<1>3. QED BY <1>1, <1>2 DEF InfoIsItsOwn

LEMMA GivenStep ==
  ASSUME Orderly, TypeOK, Reads, InfoIsItsOwn, [Next]_vars
  PROVE  InfoIsItsOwn'
<1>1. CASE UNCHANGED got  BY <1>1 DEF InfoIsItsOwn
<1>2. ASSUME NEW r \in Requests, NEW k \in Keys, GetListed(r, k) PROVE InfoIsItsOwn'
  <2>1. sess[r].lst[k].read  BY <1>2 DEF GetListed
  <2>2. k \in Infos => LET v == sess[r].lst[k].value
                       IN  v = New \/ (v \in Data /\ v.of = k)
    BY <2>1 DEF Reads, EntriesOK, EntryOK
  <2>3. QED BY <1>2, <2>2, GivenOne DEF GetListed
<1>3. ASSUME NEW m \in net, OnQueryRsp(m), ~UNCHANGED got PROVE InfoIsItsOwn'
  <2> DEFINE d == [of |-> m.k, ver |-> m.ver]
  <2>1. PICK r \in FindProposal(m.id) : \E k \in Listed(r, m) :
          got' = [got EXCEPT ![r] = @ \cup {[k |-> k, value |-> d]}]
    BY <1>3 DEF OnQueryRsp
  <2>2. PICK k \in Listed(r, m) :
          got' = [got EXCEPT ![r] = @ \cup {[k |-> k, value |-> d]}]
    BY <2>1
  <2>3. r \in Requests /\ k \in Keys /\ Matches(k, m)  BY DEF FindProposal, Listed
  <2>4. m.k \in Keys /\ m.ver \in Versions  BY <1>3 DEF TypeOK, OnQueryRsp, Message
  <2>5. d \in Data /\ (k \in Infos => d.of = k)  BY <2>3, <2>4, MatchesItself DEF Data
  <2> HIDE DEF d
  <2>6. QED BY <2>2, <2>3, <2>5, GivenOne
<1>4. QED
  BY <1>1, <1>2, <1>3 DEF Next, ChaincodeCalls, vars, OnRequest, ProcReturns, ProcFails,
     CallRefused, Get, Set, Create, RegistUserRsp, PorposalRsp,
     OnQueryFailed, OnTimeOut, OnExit, XcsAnswers, LedgerMoves

LEMMA ReadsInit == Init => IdsOK /\ Reads /\ WritesFollowReads /\ InfoIsItsOwn
<1> SUFFICES ASSUME Init PROVE IdsOK /\ Reads /\ WritesFollowReads /\ InfoIsItsOwn
  OBVIOUS
<1>1. /\ \A r \in Requests : /\ sess[r].stage = "none" /\ ~sess[r].inMap
                            /\ \A k \in Keys : sess[r].lst[k] = NoEntry
                            /\ wrote[r].updates = {} /\ got[r] = {}
      /\ net = {}
  BY DEF Init, NoSession
<1>2. \A k \in Keys : EntryOK(k, NoEntry)  BY DEF EntryOK, NoEntry
<1>3. EntriesOK  BY <1>1, <1>2 DEF EntriesOK
<1>4. QED
  BY <1>1, <1>3 DEF IdsOK, Reads, QuestionsOK, WritesFollowReads, InfoIsItsOwn

(* A write of an information follows the version that was read, carries    *)
(* what the chaincode set, and is never overtaken by an answer.            *)
THEOREM CcWritesFollowReads == ASSUME Orderly PROVE Spec => []WritesFollowReads
<1>1. TypeOK /\ IdsOK /\ Reads /\ WritesFollowReads /\ [Next]_vars
      => (TypeOK /\ IdsOK /\ Reads /\ WritesFollowReads)'
  BY TypeStep, IdsStep, ReadsStep, WrittenStep
<1>2. QED BY TypeInit, ReadsInit, <1>1, PTL DEF Spec

(* An information that the chaincode is given is the one it asked for, or  *)
(* what it set itself.                                                     *)
THEOREM CcInfoIsItsOwn == ASSUME Orderly PROVE Spec => []InfoIsItsOwn
<1>1. TypeOK /\ IdsOK /\ Reads /\ InfoIsItsOwn /\ [Next]_vars
      => (TypeOK /\ IdsOK /\ Reads /\ InfoIsItsOwn)'
  BY TypeStep, IdsStep, ReadsStep, GivenStep
<1>2. QED BY TypeInit, ReadsInit, <1>1, PTL DEF Spec
=============================================================================
