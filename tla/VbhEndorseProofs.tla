-------------------------- MODULE VbhEndorseProofs --------------------------
(***************************************************************************)
(* What a submit message stands for, proved: when every message can be     *)
(* sent, a submit names the session of the elected endorser, each endorser *)
(* that was asked endorsed this request, and no request is submitted twice *)
(* or cancelled after it.  VbhClient_stale.cfg shows that the assumption   *)
(* is needed.  Only that the endorsements agree also needs that no         *)
(* chaincode returns an empty content: that is taken for no answer (line   *)
(* 354), so the next one is not compared with it.                          *)
(* Then that every step is one of UserCall or a stutter.                   *)
(***************************************************************************)
EXTENDS VbhClientProofs, FiniteSetTheorems

NoFaults == SendFails = {} /\ Empty \notin Contents

(* The inductive invariant of the endorsement.                             *)

InMap(r) == sess[r].stage \in {"endorsing", "waiting"}

(* The request that a message belongs to.                                  *)
Owner(m) == IF m.type = "submit" THEN m.es.req ELSE m.req

(* Session ids are below the counter, and tell live sessions apart; a      *)
(* message with the id of a live session belongs to its request.           *)
IdsOK ==
  /\ \A r \in Requests : InMap(r) => sess[r].id < nSessionID
  /\ \A r, q \in Requests : InMap(r) /\ InMap(q) /\ sess[r].id = sess[q].id => r = q
  /\ \A m \in net : m.id < nSessionID
  /\ \A m \in net : m.type = "submit" => m.es # Unset
  /\ \A m \in net : sess[Owner(m)].stage # "none"
  /\ \A m \in net : \A r \in Requests :
       InMap(r) /\ sess[r].id = m.id => Owner(m) = r

VotedBy(s) == {v.h : v \in s.votes}

(* What an endorsing session holds: one vote of each endorser that         *)
(* answered, counted; and the session of the elected endorser once that    *)
(* one has answered.                                                       *)
VotesOK(r, s) ==
  /\ Cardinality(s.arrHandle) = EndorseCount
  /\ VotedBy(s) \subseteq s.arrHandle
  /\ s.nSucceedRspNum = Cardinality(VotedBy(s))
  /\ \A v \in s.votes : v.req = r
  /\ s.nEsSessionID # Unset => s.nEsSessionID = [h |-> s.submitEs, req |-> r]
  /\ s.submitEs \in VotedBy(s) => s.nEsSessionID # Unset

SessionsOK ==
  \A r \in Requests : sess[r].stage = "endorsing" => VotesOK(r, sess[r])

(* Each endorser still has at most one question or answer on its way, and  *)
(* none when its vote was counted.                                         *)
Endorsing(m) == m.type \in {"endorse", "endorsed"}

VotesComing ==
  /\ \A m \in net :
       Endorsing(m) /\ sess[m.req].stage = "endorsing" =>
         /\ m.h \in sess[m.req].arrHandle
         /\ m.h \notin VotedBy(sess[m.req])
  /\ \A m, n \in net :
       Endorsing(m) /\ Endorsing(n) /\ m.req = n.req /\ m.h = n.h => m = n

(* A submitted request has all its votes; a cancelled one is over.         *)
HistoryOK ==
  /\ \A s \in submits :
       /\ sess[s.req].stage # "none"
       /\ sess[s.req].stage = "endorsing" =>
            VotedBy(sess[s.req]) = sess[s.req].arrHandle
  /\ \A c \in cancels :
       /\ sess[c.req].stage = "done"
       /\ c.es # Unset => c.es.req = c.req

(* EndorsedSubmit but for the contents.                                    *)
NamedAndEndorsed == \A s \in submits : NamesEsSession(s) /\ EndorsedByPicked(s)

(* A submit that was counted is on record, and none was counted before it. *)
SubmitsCounted ==
  \A r \in Requests :
    nSubmits[r] = 0 \/ (nSubmits[r] = 1 /\ \E s \in submits : s.req = r)

IInv ==
  /\ TypeInv /\ IdsOK /\ SessionsOK /\ VotesComing /\ HistoryOK
  /\ NamedAndEndorsed /\ SubmitsCounted /\ SubmitOrCancel

-----------------------------------------------------------------------------
(* The invariant starts.                                                   *)

LEMMA EndorseInit == Init => IInv
<1>. SUFFICES ASSUME Init PROVE IInv
  OBVIOUS
<1>1. TypeInv /\ \A r \in Requests : sess[r].stage = "none"
  BY TypeInit, NoSessionType DEF Init
<1>2. net = {} /\ submits = {} /\ cancels = {} /\ \A r \in Requests : nSubmits[r] = 0
  BY DEF Init
<1>. QED
  BY <1>1, <1>2 DEF IInv, IdsOK, InMap, SessionsOK, VotesComing, HistoryOK,
                    NamedAndEndorsed, SubmitsCounted, SubmitOrCancel

-----------------------------------------------------------------------------
(* Steps that create no session and count no vote: a session may leave its *)
(* stage, but none starts to endorse; messages may be lost.                *)

Settled(r) ==
  \/ sess'[r] = sess[r]
  \/ sess'[r].stage = "none" /\ sess[r].stage = "none"
  \/ sess'[r].stage = "done"
  \/ /\ sess[r].stage = "endorsing"
     /\ sess'[r].stage \in {"orphan", "waiting"} /\ sess'[r].id = sess[r].id

(* A session that was not submitted may be cancelled as it ends.           *)
Cancelled(r) ==
  /\ sess[r].stage = "endorsing" /\ sess'[r].stage = "done"
  /\ \A s \in submits : s.req # r

LEMMA QuietStep ==
  ASSUME IInv, TypeInv', UNCHANGED <<nSessionID, submits, nSubmits>>,
         net' \subseteq net, \A r \in Requests : Settled(r),
         \A c \in cancels' \ cancels : \E r \in Requests :
           Cancelled(r) /\ c = CancelRecord(r, sess[r])
  PROVE  IInv'
<1>1. \A m \in net : Owner(m) \in Requests
  BY DEF IInv, TypeInv, TypeOK, IdsOK, Message, Owner, EsSessions
<1>2. IdsOK'
  <2>1. \A r \in Requests : InMap(r)' => InMap(r) /\ sess'[r].id = sess[r].id
    BY DEF Settled, InMap
  <2>2. \A r \in Requests : sess[r].stage # "none" => sess'[r].stage # "none"
    BY DEF Settled
  <2>3. \A m \in net' : m \in net /\ Owner(m)' = Owner(m)
    BY DEF Owner
  <2>4. IdsOK
    BY DEF IInv
  <2>5. (\A r \in Requests : InMap(r) => sess[r].id < nSessionID)'
    BY <2>1, <2>4 DEF IdsOK
  <2>6. (\A r, q \in Requests : InMap(r) /\ InMap(q) /\ sess[r].id = sess[q].id => r = q)'
    BY <2>1, <2>4 DEF IdsOK
  <2>7. (\A m \in net : m.id < nSessionID)' /\ (\A m \in net : m.type = "submit" => m.es # Unset)'
    BY <2>4 DEF IdsOK
  <2>8. (\A m \in net : sess[Owner(m)].stage # "none")'
    BY <1>1, <2>2, <2>3, <2>4 DEF IdsOK
  <2>9. (\A m \in net : \A r \in Requests : InMap(r) /\ sess[r].id = m.id => Owner(m) = r)'
    BY <2>1, <2>3, <2>4 DEF IdsOK
  <2>. QED  BY <2>5, <2>6, <2>7, <2>8, <2>9 DEF IdsOK
<1>3. \A r \in Requests : sess'[r].stage = "endorsing" =>
        sess'[r] = sess[r] /\ sess[r].stage = "endorsing"
  BY DEF Settled
<1>4. SessionsOK'
  BY <1>3 DEF IInv, SessionsOK
<1>5. VotesComing'
  <2>1. \A m \in net : Endorsing(m) => m.req \in Requests
    BY DEF IInv, TypeInv, TypeOK, Message, Endorsing
  <2>2. VotesComing
    BY DEF IInv
  <2>. QED  BY <1>3, <2>1, <2>2 DEF VotesComing, Endorsing
<1>6. ASSUME NEW c \in cancels', c \notin cancels
      PROVE  /\ sess'[c.req].stage = "done"
             /\ \A t \in submits : t.req # c.req
             /\ c.es # Unset => c.es.req = c.req
  <2>1. PICK r \in Requests : Cancelled(r) /\ c = CancelRecord(r, sess[r])
    BY <1>6
  <2>2. c.req = r /\ c.es = sess[r].nEsSessionID
    BY <2>1 DEF CancelRecord
  <2>3. VotesOK(r, sess[r])
    BY <2>1 DEF IInv, SessionsOK, Cancelled
  <2>. QED  BY <2>1, <2>2, <2>3 DEF Cancelled, VotesOK
<1>7. HistoryOK'
  <2>1. /\ \A s \in submits : s.req \in Requests
        /\ \A c \in cancels : c.req \in Requests
    BY DEF IInv, TypeInv, TypeOK
  <2>2. HistoryOK
    BY DEF IInv
  <2>3. \A r \in Requests : sess[r].stage = "done" => sess'[r].stage = "done"
    BY DEF Settled
  <2>4. \A r \in Requests : sess[r].stage # "none" => sess'[r].stage # "none"
    BY DEF Settled
  <2>5. (\A c \in cancels : sess[c.req].stage = "done" /\ (c.es # Unset => c.es.req = c.req))'
    BY <1>6, <2>1, <2>2, <2>3 DEF HistoryOK
  <2>6. (\A t \in submits : /\ sess[t.req].stage # "none"
                            /\ sess[t.req].stage = "endorsing" =>
                                 VotedBy(sess[t.req]) = sess[t.req].arrHandle)'
    BY <1>3, <2>1, <2>2, <2>4 DEF HistoryOK
  <2>. QED  BY <2>5, <2>6 DEF HistoryOK
<1>8. NamedAndEndorsed' /\ SubmitsCounted'
  BY DEF IInv, NamedAndEndorsed, SubmitsCounted
<1>9. SubmitOrCancel'
  <2>. SUFFICES ASSUME NEW t \in submits, NEW c \in cancels', t.es = c.es, t.es # Unset
                PROVE  FALSE
    BY DEF SubmitOrCancel
  <2>1. c \notin cancels
    BY DEF IInv, SubmitOrCancel
  <2>2. t.es = [h |-> t.h, req |-> t.req]
    BY DEF IInv, NamedAndEndorsed, NamesEsSession
  <2>3. t.es.req = t.req
    BY <2>2
  <2>. QED  BY <1>6, <2>1, <2>3
<1>. QED
  BY <1>2, <1>4, <1>5, <1>7, <1>8, <1>9 DEF IInv

-----------------------------------------------------------------------------
(* A request is sent out.                                                  *)

LEMMA SentStep ==
  ASSUME IInv, TypeInv', NEW r \in Requests, sess[r].stage = "none",
         NEW hs \in SUBSET Handlers, NEW s \in Session,
         Cardinality(hs) = EndorseCount,
         s.stage = "endorsing", s.id = nSessionID, s.arrHandle = hs,
         s.votes = {}, s.nSucceedRspNum = 0, s.nEsSessionID = Unset,
         sess' = [sess EXCEPT ![r] = s],
         net' = net \cup {EndorseReq(r, s, x) : x \in hs},
         nSessionID' = nSessionID + 1, UNCHANGED <<submits, nSubmits, cancels>>
  PROVE  IInv'
<1>1. /\ sess \in [Requests -> Session] /\ nSessionID \in Nat
      /\ net \subseteq Message
      /\ IdsOK /\ SessionsOK /\ VotesComing /\ HistoryOK
      /\ \A q \in Requests : sess[q].id \in Nat
  BY DEF IInv, TypeInv, TypeOK, Session
<1>3. \A q \in Requests : sess'[q] = IF q = r THEN s ELSE sess[q]
  BY <1>1
<1>4. \A m \in net' : m \in net \/ \E x \in hs : m = EndorseReq(r, s, x)
  OBVIOUS
<1>5. \A x \in hs : LET m == EndorseReq(r, s, x) IN
        /\ m.type = "endorse" /\ m.id = nSessionID /\ m.req = r /\ m.h = x
  BY EndorseReqType
<1>6. \A m \in net : Owner(m) \in Requests /\ Owner(m) # r
  BY <1>1 DEF IdsOK, Owner, Message, EsSessions
<1>7. IdsOK'
  <2>1. (\A q \in Requests : InMap(q) => sess[q].id < nSessionID)'
    BY <1>1, <1>3 DEF IdsOK, InMap
  <2>2. (\A p, q \in Requests : InMap(p) /\ InMap(q) /\ sess[p].id = sess[q].id => p = q)'
    BY <1>1, <1>3 DEF IdsOK, InMap
  <2>3. (\A m \in net : m.id < nSessionID)'
    <3>1. \A m \in net : m.id \in Nat /\ m.id < nSessionID
      BY <1>1 DEF IdsOK, Message
    <3>. QED  BY <1>1, <1>4, <1>5, <3>1
  <2>4. (\A m \in net : m.type = "submit" => m.es # Unset)'
    BY <1>1, <1>4, <1>5 DEF IdsOK
  <2>5. (\A m \in net : sess[Owner(m)].stage # "none")'
    BY <1>1, <1>3, <1>4, <1>5, <1>6 DEF IdsOK, Owner
  <2>6. (\A m \in net : \A q \in Requests : InMap(q) /\ sess[q].id = m.id => Owner(m) = q)'
    <3>. SUFFICES ASSUME NEW m \in net', NEW q \in Requests,
                         InMap(q)', sess'[q].id = m.id
                  PROVE  Owner(m) = q
      BY DEF Owner
    <3>1. CASE m \in net
      <4>1. m.id < nSessionID /\ m.id \in Nat
        BY <1>1, <3>1 DEF IdsOK, Message
      <4>2. q # r
        BY <1>1, <1>3, <4>1
      <4>. QED  BY <1>1, <1>3, <3>1, <4>2 DEF IdsOK, InMap
    <3>2. CASE m \notin net
      <4>1. m.id = nSessionID /\ Owner(m) = r
        BY <1>4, <1>5, <3>2 DEF Owner
      <4>. QED  BY <1>1, <1>3, <4>1 DEF IdsOK, InMap
    <3>. QED  BY <3>1, <3>2
  <2>. QED  BY <2>1, <2>2, <2>3, <2>4, <2>5, <2>6 DEF IdsOK
<1>8. SessionsOK'
  <2>1. VotedBy(s) = {} /\ Cardinality(VotedBy(s)) = 0
    BY FS_EmptySet DEF VotedBy
  <2>2. VotesOK(r, s)
    BY <2>1 DEF VotesOK
  <2>. QED  BY <1>1, <1>3, <2>2 DEF SessionsOK
<1>9. VotesComing'
  <2>1. VotedBy(s) = {}
    BY DEF VotedBy
  <2>2. \A m \in net : Endorsing(m) => m.req \in Requests /\ m.req # r
    BY <1>6 DEF Endorsing, Owner
  <2>3. \A m \in net' : m \notin net => m.req = r /\ m.h \in hs
    BY <1>4, <1>5
  <2>4. (\A m \in net : Endorsing(m) /\ sess[m.req].stage = "endorsing" =>
           m.h \in sess[m.req].arrHandle /\ m.h \notin VotedBy(sess[m.req]))'
    BY <1>1, <1>3, <2>1, <2>2, <2>3 DEF VotesComing, Endorsing
  <2>5. \A m, n \in net' : m \notin net /\ n \notin net /\ m.h = n.h => m = n
    BY <1>4, <1>5
  <2>6. (\A m, n \in net :
           Endorsing(m) /\ Endorsing(n) /\ m.req = n.req /\ m.h = n.h => m = n)'
    BY <1>1, <2>2, <2>3, <2>5 DEF VotesComing, Endorsing
  <2>. QED  BY <2>4, <2>6 DEF VotesComing
<1>10. HistoryOK'
  <2>1. /\ \A t \in submits : t.req \in Requests /\ t.req # r
        /\ \A c \in cancels : c.req \in Requests /\ c.req # r
    BY <1>1 DEF IInv, TypeInv, TypeOK, HistoryOK
  <2>. QED  BY <1>1, <1>3, <2>1 DEF HistoryOK
<1>11. NamedAndEndorsed' /\ SubmitsCounted' /\ SubmitOrCancel'
  BY DEF IInv, NamedAndEndorsed, SubmitsCounted, SubmitOrCancel
<1>. QED
  BY <1>7, <1>8, <1>9, <1>10, <1>11 DEF IInv

-----------------------------------------------------------------------------
(* An endorsement arrives at a session.                                    *)

LEMMA VotedFinite ==
  ASSUME NEW s \in Session
  PROVE  IsFiniteSet(s.arrHandle) /\
         (VotedBy(s) \subseteq s.arrHandle => IsFiniteSet(VotedBy(s)))
<1>1. s.arrHandle \in SUBSET Handlers
  BY DEF Session
<1>2. IsFiniteSet(s.arrHandle)
  BY <1>1, FS_Subset, HandlersAssumption
<1>. QED  BY <1>2, FS_Subset

(* It is the answer of an endorser that was asked and has not voted yet,   *)
(* so the request is not endorsed and was not submitted.                   *)
LEMMA Incoming ==
  ASSUME IInv, NEW m \in net, m.type = "endorsed",
         NEW r \in Find(m.kind, m.id, "endorsing")
  PROVE  /\ m.req = r /\ m.h \in sess[r].arrHandle /\ m.h \notin VotedBy(sess[r])
         /\ VotesOK(r, sess[r])
         /\ \A t \in submits : t.req # r
         /\ sess[r].nSucceedRspNum \in Nat /\ sess[r].nSucceedRspNum < EndorseCount
<1>1. /\ r \in Requests /\ sess[r] \in Session /\ sess[r].stage = "endorsing"
      /\ sess[r].id = m.id
  BY FoundType DEF IInv
<1>2. m.req = r
  BY <1>1 DEF IInv, IdsOK, InMap, Owner
<1>3. m.h \in sess[r].arrHandle /\ m.h \notin VotedBy(sess[r])
  BY <1>1, <1>2 DEF IInv, VotesComing, Endorsing
<1>4. VotesOK(r, sess[r])
  BY <1>1 DEF IInv, SessionsOK
<1>5. ASSUME NEW t \in submits, t.req = r PROVE FALSE
  BY <1>1, <1>3, <1>5 DEF IInv, HistoryOK
<1>6. /\ IsFiniteSet(sess[r].arrHandle) /\ VotedBy(sess[r]) \in SUBSET sess[r].arrHandle
      /\ VotedBy(sess[r]) # sess[r].arrHandle
  BY <1>1, <1>3, <1>4, VotedFinite DEF VotesOK
<1>7. /\ Cardinality(VotedBy(sess[r])) <= Cardinality(sess[r].arrHandle)
      /\ Cardinality(VotedBy(sess[r])) # Cardinality(sess[r].arrHandle)
  BY <1>6, FS_Subset
<1>8. sess[r].nSucceedRspNum \in Nat
  BY <1>1 DEF Session
<1>9. sess[r].nSucceedRspNum < EndorseCount
  BY <1>4, <1>7, <1>8, CountAssumption DEF VotesOK
<1>. QED
  BY <1>2, <1>3, <1>4, <1>5, <1>8, <1>9

(* The session that counted it is as it should be; with the last vote, it  *)
(* has the votes of all and the session of the elected endorser.           *)
LEMMA CountedOK ==
  ASSUME IInv, NEW m \in net, m.type = "endorsed",
         NEW r \in Find(m.kind, m.id, "endorsing"), Agrees(sess[r], m)
  PROVE  LET c == Counted(sess[r], m) IN
         /\ VotesOK(r, c)
         /\ VotedBy(c) = VotedBy(sess[r]) \cup {m.h}
         /\ c.nSucceedRspNum >= EndorseCount =>
              VotedBy(c) = c.arrHandle /\ c.nEsSessionID # Unset
<1>. DEFINE s == sess[r]
            c == Counted(s, m)
            v == [h |-> m.h, req |-> m.req, content |-> m.res]
<1>1. /\ m \in Message /\ r \in Requests /\ s \in Session
      /\ s.submitEs \in s.arrHandle
  BY FoundType DEF IInv
<1>2. /\ c \in Session /\ c.arrHandle = s.arrHandle /\ c.submitEs = s.submitEs
      /\ c.nSucceedRspNum = s.nSucceedRspNum + 1
      /\ c.votes = s.votes \cup {v}
      /\ c.nEsSessionID = IF m.h = s.submitEs THEN [h |-> m.h, req |-> m.req]
                          ELSE s.nEsSessionID
  BY <1>1, CountedType
<1>3. /\ m.req = r /\ m.h \in s.arrHandle /\ m.h \notin VotedBy(s) /\ VotesOK(r, s)
      /\ s.nSucceedRspNum \in Nat
  BY Incoming
<1>4. v.h = m.h /\ v.req = r
  BY <1>3
<1>5. [h |-> m.h, req |-> m.req] # Unset
  BY <1>1, UnsetAssumption DEF Message
<1>6. c.nEsSessionID # Unset => c.nEsSessionID = [h |-> s.submitEs, req |-> r]
  BY <1>2, <1>3 DEF VotesOK
<1>7. c.nEsSessionID = Unset => m.h # s.submitEs /\ s.nEsSessionID = Unset
  BY <1>2, <1>5
<1>. HIDE DEF c, v, s
<1>8. VotedBy(c) = VotedBy(s) \cup {m.h}
  BY <1>2, <1>4 DEF VotedBy
<1>9. c.submitEs \in VotedBy(c) => c.nEsSessionID # Unset
  BY <1>2, <1>3, <1>7, <1>8 DEF VotesOK
<1>10. \A w \in c.votes : w.req = r
  BY <1>2, <1>3, <1>4 DEF VotesOK
<1>11. VotedBy(c) \subseteq c.arrHandle
  BY <1>2, <1>3, <1>8 DEF VotesOK
<1>12. IsFiniteSet(s.arrHandle) /\ IsFiniteSet(VotedBy(s))
  BY <1>1, <1>3, VotedFinite DEF VotesOK
<1>13. Cardinality(VotedBy(c)) = Cardinality(VotedBy(s)) + 1
  BY <1>3, <1>8, <1>12, FS_AddElement
<1>14. c.nSucceedRspNum = Cardinality(VotedBy(c))
  BY <1>2, <1>3, <1>13 DEF VotesOK
<1>15. VotesOK(r, c)
  BY <1>2, <1>3, <1>6, <1>9, <1>10, <1>11, <1>14 DEF VotesOK
<1>16. ASSUME c.nSucceedRspNum >= EndorseCount PROVE VotedBy(c) = c.arrHandle
  <2>1. Cardinality(VotedBy(c)) <= Cardinality(c.arrHandle)
    BY <1>2, <1>11, <1>12, FS_Subset
  <2>2. Cardinality(c.arrHandle) = EndorseCount
    BY <1>15 DEF VotesOK
  <2>3. Cardinality(VotedBy(c)) = Cardinality(c.arrHandle)
    BY <1>2, <1>3, <1>14, <1>16, <2>1, <2>2, CountAssumption
  <2>. QED  BY <1>2, <1>11, <1>12, <2>3, FS_Subset
<1>17. c.nSucceedRspNum >= EndorseCount => c.nEsSessionID # Unset
  BY <1>1, <1>2, <1>9, <1>16
<1>. QED
  BY <1>8, <1>15, <1>16, <1>17 DEF c, s

(* The vote is counted; with enough votes the transaction is submitted.    *)
LEMMA CountStep ==
  ASSUME IInv, TypeInv', NEW m \in net, m.type = "endorsed",
         NEW r \in Find(m.kind, m.id, "endorsing"), Agrees(sess[r], m),
         NEW c, c = Counted(sess[r], m),
         sess' = [sess EXCEPT ![r] = c], UNCHANGED <<nSessionID, cancels>>,
         \/ net' = net \ {m} /\ UNCHANGED <<submits, nSubmits>>
         \/ /\ c.nSucceedRspNum >= EndorseCount
            /\ net' = (net \ {m}) \cup {SubmitReq(c)}
            /\ Submit(r, c)
  PROVE  IInv'
<1>. DEFINE s == sess[r]
<1>1. /\ m \in Message /\ r \in Requests /\ s \in Session /\ s.stage = "endorsing"
      /\ s.submitEs \in s.arrHandle /\ s.submitEs \in Handlers /\ s.id = m.id
      /\ sess \in [Requests -> Session] /\ nSessionID \in Nat /\ net \subseteq Message
  BY FoundType DEF IInv, TypeInv, TypeOK
<1>2. /\ c \in Session /\ c.arrHandle = s.arrHandle /\ c.submitEs = s.submitEs
      /\ c.id = s.id /\ c.stage = "endorsing"
  BY <1>1, CountedType
<1>3. /\ m.req = r /\ m.h \in s.arrHandle /\ m.h \notin VotedBy(s)
      /\ \A t \in submits : t.req # r
  BY Incoming
<1>4. /\ VotesOK(r, c) /\ VotedBy(c) = VotedBy(s) \cup {m.h}
      /\ c.nSucceedRspNum >= EndorseCount =>
           VotedBy(c) = c.arrHandle /\ c.nEsSessionID # Unset
  BY CountedOK
<1>5. \A q \in Requests : sess'[q] = IF q = r THEN c ELSE sess[q]
  BY <1>1
<1>6. SubmitReq(c).type = "submit" /\ SubmitReq(c).id = c.id /\ SubmitReq(c).es = c.nEsSessionID
  BY <1>1, <1>2, SubmitReqType
<1>7. c.nEsSessionID # Unset => c.nEsSessionID = [h |-> c.submitEs, req |-> r]
  BY <1>4 DEF VotesOK
<1>8. IdsOK /\ SessionsOK /\ VotesComing /\ HistoryOK
  BY DEF IInv
<1>. HIDE DEF s
<1>9. \A n \in net' :
        \/ n \in net /\ n # m
        \/ n = SubmitReq(c) /\ c.nSucceedRspNum >= EndorseCount
  OBVIOUS
<1>10. ASSUME NEW n \in net', n \notin net
       PROVE  n.type = "submit" /\ n.id = c.id /\ n.es # Unset /\ n.es.req = r
  BY <1>4, <1>6, <1>7, <1>9, <1>10
<1>11. IdsOK'
  <2>1. (\A q \in Requests : InMap(q) => sess[q].id < nSessionID)'
    BY <1>1, <1>2, <1>5, <1>8 DEF IdsOK, InMap, s
  <2>2. (\A p, q \in Requests : InMap(p) /\ InMap(q) /\ sess[p].id = sess[q].id => p = q)'
    BY <1>1, <1>2, <1>5, <1>8 DEF IdsOK, InMap, s
  <2>3. (\A n \in net : n.id < nSessionID)' /\ (\A n \in net : n.type = "submit" => n.es # Unset)'
    BY <1>1, <1>2, <1>8, <1>10 DEF IdsOK
  <2>4. (\A n \in net : sess[Owner(n)].stage # "none")'
    <3>. SUFFICES ASSUME NEW n \in net' PROVE sess'[Owner(n)].stage # "none"
      BY DEF Owner
    <3>1. CASE n \in net
      <4>1. Owner(n) \in Requests
        BY <1>1, <1>8, <3>1 DEF IdsOK, Owner, Message, EsSessions
      <4>. QED  BY <1>2, <1>5, <1>8, <3>1, <4>1 DEF IdsOK
    <3>2. CASE n \notin net
      BY <1>1, <1>2, <1>5, <1>10, <3>2 DEF Owner
    <3>. QED  BY <3>1, <3>2
  <2>5. (\A n \in net : \A q \in Requests : InMap(q) /\ sess[q].id = n.id => Owner(n) = q)'
    <3>. SUFFICES ASSUME NEW n \in net', NEW q \in Requests, InMap(q)', sess'[q].id = n.id
                  PROVE  Owner(n) = q
      BY DEF Owner
    <3>1. InMap(q) /\ sess[q].id = sess'[q].id
      BY <1>1, <1>2, <1>5 DEF InMap, s
    <3>2. CASE n \in net
      BY <1>8, <3>1, <3>2 DEF IdsOK
    <3>3. CASE n \notin net
      <4>1. Owner(n) = r /\ sess[q].id = sess[r].id
        BY <1>2, <1>10, <3>1, <3>3 DEF Owner, s
      <4>2. InMap(r)
        BY <1>1 DEF InMap, s
      <4>. QED  BY <1>1, <1>8, <3>1, <4>1, <4>2 DEF IdsOK
    <3>. QED  BY <3>2, <3>3
  <2>. QED  BY <2>1, <2>2, <2>3, <2>4, <2>5 DEF IdsOK
<1>12. SessionsOK'
  BY <1>4, <1>5, <1>8 DEF SessionsOK
<1>13. VotesComing'
  <2>1. \A n \in net' : Endorsing(n) => n \in net /\ n # m /\ n.req \in Requests
    <3>1. \A n \in net : Endorsing(n) => n.req \in Requests
      BY <1>1 DEF Endorsing, Message
    <3>2. \A n \in net' : Endorsing(n) => n \in net
      BY <1>10 DEF Endorsing
    <3>3. \A n \in net' : n = SubmitReq(c) => ~Endorsing(n)
      BY <1>6 DEF Endorsing
    <3>. QED  BY <1>9, <3>1, <3>2, <3>3
  <2>2. \A n \in net' : Endorsing(n) /\ n.req = r => n.h # m.h
    BY <1>3, <1>8, <2>1 DEF VotesComing, Endorsing
  <2>3. (\A n \in net : Endorsing(n) /\ sess[n.req].stage = "endorsing" =>
           n.h \in sess[n.req].arrHandle /\ n.h \notin VotedBy(sess[n.req]))'
    <3>. SUFFICES ASSUME NEW n \in net', Endorsing(n), sess'[n.req].stage = "endorsing"
                  PROVE  n.h \in sess'[n.req].arrHandle /\ n.h \notin VotedBy(sess'[n.req])
      BY DEF Endorsing, VotedBy
    <3>1. CASE n.req = r
      <4>1. n.h \in s.arrHandle /\ n.h \notin VotedBy(s)
        BY <1>1, <1>8, <2>1, <3>1 DEF VotesComing, s
      <4>. QED  BY <1>1, <1>2, <1>4, <1>5, <2>2, <3>1, <4>1
    <3>2. CASE n.req # r
      BY <1>5, <1>8, <2>1, <3>2 DEF VotesComing
    <3>. QED  BY <3>1, <3>2
  <2>4. (\A n, o \in net :
           Endorsing(n) /\ Endorsing(o) /\ n.req = o.req /\ n.h = o.h => n = o)'
    BY <1>8, <2>1 DEF VotesComing, Endorsing
  <2>. QED  BY <2>3, <2>4 DEF VotesComing
<1>14. /\ \A t \in submits : t.req \in Requests
       /\ \A d \in cancels : d.req \in Requests /\ d.req # r
  BY <1>1, <1>8 DEF IInv, TypeInv, TypeOK, HistoryOK, s
<1>15. ASSUME NEW t \in submits', t \notin submits
       PROVE  /\ t = SubmitRecord(r, c)
              /\ t.req = r /\ t.h = c.submitEs /\ t.es = c.nEsSessionID
              /\ t.picked = c.arrHandle /\ t.votes = c.votes
              /\ VotedBy(c) = c.arrHandle
              /\ t.es = [h |-> c.submitEs, req |-> r]
  <2>1. t = SubmitRecord(r, c) /\ c.nSucceedRspNum >= EndorseCount
    BY <1>15 DEF Submit
  <2>. QED  BY <1>4, <1>7, <2>1 DEF SubmitRecord
<1>16. HistoryOK'
  <2>1. (\A t \in submits : /\ sess[t.req].stage # "none"
                            /\ sess[t.req].stage = "endorsing" =>
                                 VotedBy(sess[t.req]) = sess[t.req].arrHandle)'
    <3>. SUFFICES ASSUME NEW t \in submits'
                  PROVE  /\ sess'[t.req].stage # "none"
                         /\ sess'[t.req].stage = "endorsing" =>
                              VotedBy(sess'[t.req]) = sess'[t.req].arrHandle
      BY DEF VotedBy
    <3>1. CASE t \in submits
      BY <1>3, <1>5, <1>8, <1>14, <3>1 DEF HistoryOK
    <3>2. CASE t \notin submits
      BY <1>1, <1>2, <1>5, <1>15, <3>2
    <3>. QED  BY <3>1, <3>2
  <2>2. (\A d \in cancels : sess[d.req].stage = "done" /\ (d.es # Unset => d.es.req = d.req))'
    BY <1>5, <1>8, <1>14 DEF HistoryOK
  <2>. QED  BY <2>1, <2>2 DEF HistoryOK
<1>17. NamedAndEndorsed'
  <2>. SUFFICES ASSUME NEW t \in submits', t \notin submits
                PROVE  NamesEsSession(t) /\ EndorsedByPicked(t)
    BY DEF IInv, NamedAndEndorsed, NamesEsSession, EndorsedByPicked
  <2>1. NamesEsSession(t)
    BY <1>15 DEF NamesEsSession
  <2>2. EndorsedByPicked(t)
    <3>1. \A h \in t.picked : \E v \in t.votes : v.h = h
      BY <1>15 DEF VotedBy
    <3>2. \A v \in t.votes : v.req = t.req
      BY <1>4, <1>15 DEF VotesOK
    <3>. QED  BY <3>1, <3>2 DEF EndorsedByPicked
  <2>. QED  BY <2>1, <2>2
<1>18. SubmitsCounted'
  <2>1. SubmitsCounted /\ nSubmits \in [Requests -> Nat] /\ nSubmits[r] = 0
    BY <1>1, <1>3 DEF IInv, SubmitsCounted, TypeInv, TypeOK
  <2>2. CASE UNCHANGED <<submits, nSubmits>>
    BY <2>1, <2>2 DEF SubmitsCounted
  <2>3. CASE Submit(r, c)
    <3>1. /\ SubmitRecord(r, c) \in submits' /\ submits \subseteq submits'
          /\ nSubmits' = [nSubmits EXCEPT ![r] = @ + 1]
      BY <2>3 DEF Submit
    <3>2. SubmitRecord(r, c).req = r
      BY DEF SubmitRecord
    <3>. QED  BY <2>1, <3>1, <3>2 DEF SubmitsCounted
  <2>. QED  BY <2>2, <2>3
<1>19. SubmitOrCancel'
  <2>. SUFFICES ASSUME NEW t \in submits', NEW d \in cancels, t.es = d.es, d.es # Unset
                PROVE  FALSE
    BY DEF SubmitOrCancel
  <2>1. t \notin submits
    BY DEF IInv, SubmitOrCancel
  <2>2. t.es.req = r
    BY <1>15, <2>1
  <2>3. d.es.req = d.req
    BY <1>8 DEF HistoryOK
  <2>. QED  BY <1>14, <2>2, <2>3
<1>. QED
  BY <1>11, <1>12, <1>13, <1>16, <1>17, <1>18, <1>19 DEF IInv

-----------------------------------------------------------------------------
(* The endorsers.                                                          *)

LEMMA AnswerStep ==
  ASSUME IInv, TypeInv', NEW m \in net, EndorserAnswers(m)
  PROVE  IInv'
<1>1. PICK res \in Contents \cup Failures :
        net' = (net \ {m}) \cup {EndorseRsp(m, res)}
  BY DEF EndorserAnswers
<1>2. m \in Message /\ m.type = "endorse" /\ net \subseteq Message
  BY DEF EndorserAnswers, IInv, TypeInv, TypeOK
<1>. DEFINE e == EndorseRsp(m, res)
<1>3. e.type = "endorsed" /\ e.id = m.id /\ e.req = m.req /\ e.h = m.h
  BY <1>2, EndorseRspType
<1>. HIDE DEF e
<1>4. UNCHANGED <<nSessionID, sess, submits, nSubmits, cancels>>
  BY DEF EndorserAnswers
<1>5. \A n \in net' : n = e \/ (n \in net /\ n # m)
  BY <1>1 DEF e
<1>6. Owner(e) = Owner(m)
  BY <1>2, <1>3 DEF Owner
<1>7. IdsOK /\ SessionsOK /\ VotesComing /\ HistoryOK
  BY DEF IInv
<1>8. IdsOK'
  <2>1. (\A n \in net : /\ n.id < nSessionID /\ (n.type = "submit" => n.es # Unset)
                       /\ sess[Owner(n)].stage # "none")'
    BY <1>3, <1>4, <1>5, <1>6, <1>7 DEF IdsOK, Owner
  <2>2. (\A n \in net : \A q \in Requests : InMap(q) /\ sess[q].id = n.id => Owner(n) = q)'
    BY <1>3, <1>4, <1>5, <1>6, <1>7 DEF IdsOK, Owner, InMap
  <2>. QED  BY <1>4, <1>7, <2>1, <2>2 DEF IdsOK, InMap
<1>9. VotesComing'
  <2>1. (\A n \in net : Endorsing(n) /\ sess[n.req].stage = "endorsing" =>
           n.h \in sess[n.req].arrHandle /\ n.h \notin VotedBy(sess[n.req]))'
    BY <1>2, <1>3, <1>4, <1>5, <1>7 DEF VotesComing, Endorsing, VotedBy
  <2>2. (\A n, o \in net :
           Endorsing(n) /\ Endorsing(o) /\ n.req = o.req /\ n.h = o.h => n = o)'
    BY <1>2, <1>3, <1>5, <1>7 DEF VotesComing, Endorsing
  <2>. QED  BY <2>1, <2>2 DEF VotesComing
<1>10. SessionsOK' /\ HistoryOK' /\ NamedAndEndorsed' /\ SubmitsCounted' /\ SubmitOrCancel'
  BY <1>4, <1>7 DEF IInv, SessionsOK, HistoryOK, VotesOK, VotedBy, NamedAndEndorsed,
                    SubmitsCounted, SubmitOrCancel
<1>. QED
  BY <1>8, <1>9, <1>10 DEF IInv

LEMMA SubmitStep ==
  ASSUME IInv, TypeInv', NEW m \in net, EndorserSubmits(m)
  PROVE  IInv'
<1>1. m \in Message /\ m.type = "submit" /\ net \subseteq Message /\ m.es # Unset
  BY DEF EndorserSubmits, IInv, TypeInv, TypeOK, IdsOK
<1>2. UNCHANGED <<nSessionID, sess, submits, nSubmits, cancels>>
  BY DEF EndorserSubmits
<1>. DEFINE R == {SubmitRsp(m, "OK"), SubmitRsp(m, "SYSTEM"), TransNotify(m)}
<1>3. net' \subseteq net \cup R
  BY <1>1 DEF EndorserSubmits
<1>4. \A e \in R : e.type \in {"submitted", "notify"} /\ e.id = m.id /\ e.req = m.es.req
  BY <1>1, SubmitRspType
<1>. HIDE DEF R
<1>5. \A e \in R : Owner(e) = Owner(m)
  BY <1>1, <1>4 DEF Owner
<1>6. IdsOK /\ SessionsOK /\ VotesComing /\ HistoryOK
  BY DEF IInv
<1>7. IdsOK'
  <2>1. (\A n \in net : /\ n.id < nSessionID /\ (n.type = "submit" => n.es # Unset)
                       /\ sess[Owner(n)].stage # "none")'
    BY <1>2, <1>3, <1>4, <1>5, <1>6 DEF IdsOK, Owner
  <2>2. (\A n \in net : \A q \in Requests : InMap(q) /\ sess[q].id = n.id => Owner(n) = q)'
    BY <1>2, <1>3, <1>4, <1>5, <1>6 DEF IdsOK, Owner, InMap
  <2>. QED  BY <1>2, <1>6, <2>1, <2>2 DEF IdsOK, InMap
<1>8. VotesComing'
  <2>1. \A n \in net' : Endorsing(n) => n \in net
    BY <1>3, <1>4 DEF Endorsing
  <2>. QED  BY <1>2, <1>6, <2>1 DEF VotesComing, Endorsing, VotedBy
<1>9. SessionsOK' /\ HistoryOK' /\ NamedAndEndorsed' /\ SubmitsCounted' /\ SubmitOrCancel'
  BY <1>2, <1>6 DEF IInv, SessionsOK, HistoryOK, VotesOK, VotedBy, NamedAndEndorsed,
                    SubmitsCounted, SubmitOrCancel
<1>. QED
  BY <1>7, <1>8, <1>9 DEF IInv

-----------------------------------------------------------------------------
(* Every step keeps the invariant.                                         *)

LEMMA EndorseAsks ==
  ASSUME SendFails = {}, IInv, TypeInv', UserAsks
  PROVE  IInv'
<1>1. PICK r \in Requests, kind \in Kinds, wait \in BOOLEAN :
        OnReqRefused(kind, r, wait) \/ OnReqSent(kind, r, wait)
  BY DEF UserAsks, OnReqSendFailed
<1>2. /\ sess \in [Requests -> Session] /\ connected \subseteq Handlers
      /\ nSessionID \in Nat
  BY DEF IInv, TypeInv, TypeOK
<1>3. CASE OnReqRefused(kind, r, wait)
  <2>1. /\ sess' = [sess EXCEPT ![r] = Freed([NoSession EXCEPT !.kind = kind, !.wait = wait])]
        /\ UNCHANGED <<nSessionID, net, submits, nSubmits, cancels>>
    BY <1>3 DEF OnReqRefused
  <2>2. sess'[r].stage = "done"
    BY <1>2, <2>1 DEF Freed, NoSession
  <2>3. \A q \in Requests : Settled(q)
    BY <1>2, <2>1, <2>2 DEF Settled
  <2>. QED  BY <2>1, <2>3, QuietStep
<1>4. CASE OnReqSent(kind, r, wait)
  <2>1. PICK hs \in SUBSET connected, h \in connected :
          /\ Cardinality(hs) = EndorseCount
          /\ sess' = [sess EXCEPT ![r] = NewSession(kind, wait, hs, h)]
          /\ net' = net \cup {EndorseReq(r, NewSession(kind, wait, hs, h), x) : x \in hs}
    BY <1>4 DEF OnReqSent
  <2>. DEFINE s == NewSession(kind, wait, hs, h)
  <2>2. hs \in SUBSET Handlers /\ h \in Handlers
    BY <1>2
  <2>3. s \in Session
    BY <1>2, <2>2, NewSessionType
  <2>4. /\ s.stage = "endorsing" /\ s.id = nSessionID /\ s.arrHandle = hs
        /\ s.votes = {} /\ s.nSucceedRspNum = 0 /\ s.nEsSessionID = Unset
    BY DEF NewSession, NoSession
  <2>5. /\ sess[r].stage = "none" /\ nSessionID' = nSessionID + 1
        /\ UNCHANGED <<submits, nSubmits, cancels>>
    BY <1>4 DEF OnReqSent
  <2>. HIDE DEF s
  <2>6. /\ sess' = [sess EXCEPT ![r] = s]
        /\ net' = net \cup {EndorseReq(r, s, x) : x \in hs}
    BY <2>1 DEF s
  <2>. QED
    BY <2>1, <2>2, <2>3, <2>4, <2>5, <2>6, SentStep
<1>. QED
  BY <1>1, <1>3, <1>4

LEMMA EndorseAnswered ==
  ASSUME SendFails = {}, IInv, TypeInv', NEW m \in net, OnEsCltRsp(m)
  PROVE  IInv'
<1>1. m.type = "endorsed" /\ sess \in [Requests -> Session]
  BY DEF OnEsCltRsp, IInv, TypeInv, TypeOK
<1>2. CASE OnLateEndorsement(m)
  BY <1>2, QuietStep DEF OnLateEndorsement, Settled
<1>3. ASSUME NEW r \in Find(m.kind, m.id, "endorsing"), OnEndorsementCounted(m, r)
      PROVE  IInv'
  <2>1. /\ Agrees(sess[r], m)
        /\ sess' = [sess EXCEPT ![r] = Counted(sess[r], m)]
        /\ net' = net \ {m} /\ UNCHANGED <<nSessionID, cancels, submits, nSubmits>>
    BY <1>3 DEF OnEndorsementCounted
  <2>. QED  BY <1>1, <2>1, CountStep
<1>4. ASSUME NEW r \in Find(m.kind, m.id, "endorsing"), OnEndorsed(m, r)
      PROVE  IInv'
  <2>. DEFINE c == Counted(sess[r], m)
  <2>1. /\ Agrees(sess[r], m)
        /\ c.nSucceedRspNum >= EndorseCount
        /\ sess' = [sess EXCEPT ![r] = c]
        /\ net' = (net \ {m}) \cup {SubmitReq(c)}
        /\ Submit(r, c)
        /\ UNCHANGED <<nSessionID, cancels>>
    BY <1>4 DEF OnEndorsed
  <2>. QED  BY <1>1, <2>1, CountStep
<1>5. ASSUME NEW r \in Find(m.kind, m.id, "endorsing"),
             OnEndorsementFailed(m, r) \/ OnEndorsementDiffers(m, r)
      PROVE  IInv'
  <2>1. /\ r \in Requests /\ sess[r] \in Session /\ sess[r].stage = "endorsing"
    BY FoundType DEF IInv
  <2>2. /\ ~(sess[r].nSucceedRspNum >= EndorseCount)
        /\ \A t \in submits : t.req # r
    BY <1>1, Incoming, CountAssumption
  <2>3. /\ sess' = [sess EXCEPT ![r] = Freed(sess[r])]
        /\ net' \subseteq net /\ UNCHANGED <<nSessionID, submits, nSubmits>>
        /\ cancels' \subseteq cancels \cup {CancelRecord(r, sess[r])}
    BY <1>5, <2>2 DEF OnEndorsementFailed, OnEndorsementDiffers
  <2>4. sess'[r].stage = "done"
    BY <1>1, <2>1, <2>3, FreedType
  <2>5. Cancelled(r)
    BY <2>1, <2>2, <2>4 DEF Cancelled
  <2>6. \A q \in Requests : Settled(q)
    BY <1>1, <2>3, <2>4 DEF Settled
  <2>. QED  BY <2>1, <2>3, <2>5, <2>6, QuietStep
<1>. QED
  BY <1>2, <1>3, <1>4, <1>5 DEF OnEsCltRsp, OnEndorsedSendFailed

LEMMA EndorseRest ==
  ASSUME IInv, TypeInv',
         \/ \E m \in net : OnSubmitEsCltRsp(m) \/ OnSubscribeNotify(m)
         \/ \E r \in Requests : OnTimeOut(r)
         \/ \E h \in Handlers : OnConnectedNodify(h) \/ OnNetworkError(h)
         \/ OnExit
         \/ UNCHANGED vars
  PROVE  IInv'
<1>1. sess \in [Requests -> Session] /\ \A q \in Requests : Freed(sess[q]).stage = "done"
  BY FreedType DEF IInv, TypeInv, TypeOK
<1>2. ASSUME NEW m \in net, OnSubmitEsCltRsp(m) PROVE \A q \in Requests : Settled(q)
  <2>1. ASSUME NEW r \in Find(m.kind, m.id, "endorsing"),
               sess' = [sess EXCEPT ![r] = AfterSubmit(sess[r], m.code)]
        PROVE  \A q \in Requests : Settled(q)
    <3>1. /\ r \in Requests /\ sess[r] \in Session /\ sess[r].stage = "endorsing"
          /\ sess[r].submitEs \in Handlers
      BY FoundType DEF IInv
    <3>2. /\ AfterSubmit(sess[r], m.code).stage \in {"orphan", "waiting", "done"}
          /\ AfterSubmit(sess[r], m.code).id = sess[r].id
      BY <3>1, AfterSubmitType
    <3>. QED  BY <1>1, <2>1, <3>1, <3>2 DEF Settled
  <2>. QED  BY <1>2, <2>1 DEF OnSubmitEsCltRsp, Settled
<1>3. ASSUME NEW m \in net, OnSubscribeNotify(m) PROVE \A q \in Requests : Settled(q)
  BY <1>1, <1>3 DEF OnSubscribeNotify, Settled
<1>4. ASSUME NEW r \in Requests, OnTimeOut(r) PROVE \A q \in Requests : Settled(q)
  BY <1>1, <1>4 DEF OnTimeOut, Settled
<1>5. ASSUME NEW h \in Handlers, OnConnectedNodify(h) \/ OnNetworkError(h)
      PROVE  \A q \in Requests : Settled(q)
  BY <1>1, <1>5 DEF OnConnectedNodify, OnNetworkError, Settled
<1>6. CASE OnExit
  <2>1. \A q \in Requests : Settled(q)
    BY <1>1, <1>6, NoSessionType DEF OnExit, Settled
  <2>2. net' \subseteq net /\ UNCHANGED <<nSessionID, submits, nSubmits, cancels>>
    BY <1>6 DEF OnExit
  <2>. QED  BY <2>1, <2>2, QuietStep
<1>7. CASE UNCHANGED vars
  BY <1>7, QuietStep DEF vars, Settled
<1>8. ASSUME NEW m \in net, OnSubmitEsCltRsp(m) \/ OnSubscribeNotify(m) PROVE IInv'
  <2>1. net' \subseteq net /\ UNCHANGED <<nSessionID, submits, nSubmits, cancels>>
    BY <1>8 DEF OnSubmitEsCltRsp, OnSubscribeNotify
  <2>. QED  BY <1>2, <1>3, <1>8, <2>1, QuietStep
<1>9. ASSUME NEW r \in Requests, OnTimeOut(r) PROVE IInv'
  <2>1. net' \subseteq net /\ UNCHANGED <<nSessionID, submits, nSubmits, cancels>>
    BY <1>9 DEF OnTimeOut
  <2>. QED  BY <1>4, <1>9, <2>1, QuietStep
<1>10. ASSUME NEW h \in Handlers, OnConnectedNodify(h) \/ OnNetworkError(h) PROVE IInv'
  <2>1. net' \subseteq net /\ UNCHANGED <<nSessionID, submits, nSubmits, cancels>>
    BY <1>10 DEF OnConnectedNodify, OnNetworkError
  <2>. QED  BY <1>5, <1>10, <2>1, QuietStep
<1>. QED
  BY <1>6, <1>7, <1>8, <1>9, <1>10

LEMMA EndorseNext == SendFails = {} /\ IInv /\ [Next]_vars => IInv'
<1>1. IInv /\ [Next]_vars => TypeInv'
  BY TypeNext DEF IInv
<1>. QED
  BY <1>1, EndorseAsks, EndorseAnswered, EndorseRest, AnswerStep, SubmitStep DEF Next

LEMMA EndorseInvariant == ASSUME SendFails = {} PROVE Spec => []IInv
<1>1. IInv /\ [Next]_vars => IInv'
  BY EndorseNext
<1>. QED
  BY <1>1, EndorseInit, PTL DEF Spec

-----------------------------------------------------------------------------
(* Theorems.                                                               *)

(* A submit message names the session that the elected endorser opened for *)
(* the request, and every endorser the request was sent to endorsed it     *)
(* with one content: lines 379-387 and 554-560.                            *)
THEOREM SubmitIsEndorsed == ASSUME NoFaults PROVE Spec => []EndorsedSubmit
<1>1. IInv /\ NoMixedEndorsement => EndorsedSubmit
  <2>. SUFFICES ASSUME IInv, NoMixedEndorsement, NEW s \in submits PROVE OneContent(s)
    BY DEF IInv, NamedAndEndorsed, EndorsedSubmit
  <2>1. \A v \in s.votes : v.content # Empty
    BY DEF IInv, TypeInv, TypeOK, Votes, NoFaults
  <2>. QED  BY <2>1 DEF NoMixedEndorsement, OneContent
<1>2. Spec => []IInv
  BY EndorseInvariant DEF NoFaults
<1>. QED  BY <1>1, <1>2, NeverMixed, PTL

(* While every message can be sent, the count of line 379 counts the       *)
(* endorsers of the request that answered with success, as the header says *)
(* (line 108), whatever they returned.                                     *)
THEOREM OwnEndorsersCounted == ASSUME SendFails = {} PROVE Spec => []CountsOwnEndorsers
<1>1. IInv => CountsOwnEndorsers
  BY DEF IInv, NamedAndEndorsed, CountsOwnEndorsers
<1>. QED  BY <1>1, EndorseInvariant, PTL

(* At most one submit message is sent for a request, counting those that   *)
(* look alike, though the code only tests that the count of endorsements   *)
(* is large enough (lines 379 and 554).                                    *)
THEOREM SubmitHappensOnce == ASSUME SendFails = {} PROVE Spec => []SubmittedOnce
<1>1. IInv => SubmittedOnce
  BY DEF IInv, SubmitsCounted, SubmittedOnce
<1>. QED  BY <1>1, EndorseInvariant, PTL

(* The client never cancels the endorser session that it submitted: the    *)
(* error path of lines 404-425 is not taken after the submit.              *)
THEOREM SubmitExcludesCancel == ASSUME SendFails = {} PROVE Spec => []SubmitOrCancel
<1>1. IInv => SubmitOrCancel
  BY DEF IInv
<1>. QED  BY <1>1, EndorseInvariant, PTL

(* An answer reaches the session of the request it was sent for: session   *)
(* ids are not used again while a message or a live session holds one.     *)
THEOREM AnswersReachTheirRequest == ASSUME SendFails = {} PROVE Spec => []OwnAnswers
<1>1. IInv => OwnAnswers
  BY DEF IInv, IdsOK, OwnAnswers, Find, InMap, Owner
<1>. QED  BY <1>1, EndorseInvariant, PTL

-----------------------------------------------------------------------------
(* The safety part of the promise: while every message can be sent, each   *)
(* step of the client service is a step of UserCall or leaves its          *)
(* variables alone.  That requests are answered in the end is checked by   *)
(* TLC (VbhClient_promise.cfg).                                            *)

(* What the user received, by the stage of the session.                    *)
AnsweredByStage ==
  \A r \in Requests :
    /\ sess[r].stage = "none" => ~sess[r].wait
    /\ sess[r].stage \in {"none", "endorsing", "orphan"} => out[r] = <<>>
    /\ sess[r].stage = "waiting" => out[r] = <<"OK">> /\ sess[r].wait

PInv == TypeInv /\ AnsweredByStage

Promise == Call!Next \/ UNCHANGED Call!vars

Asked == {r \in Requests : sess[r].stage # "none"}
Waits == {r \in Requests : sess[r].wait}

(* The requests made and the users who wait for a result do not change.    *)
SameCalls ==
  \A q \in Requests : /\ sess'[q].stage = "none" <=> sess[q].stage = "none"
                      /\ sess'[q].wait = sess[q].wait

LEMMA Same == ASSUME SameCalls PROVE Asked' = Asked /\ Waits' = Waits
BY DEF SameCalls, Asked, Waits

(* A step that the user does not see.                                      *)
LEMMA UnseenStep ==
  ASSUME SameCalls, UNCHANGED <<svc, out>>
  PROVE  Promise
BY Same DEF Promise, Call!vars, Asked, Waits

(* A step that answers the requests of R, which were not answered yet.     *)
LEMMA AnswerMaps ==
  ASSUME PInv, svc = "up", UNCHANGED svc, SameCalls,
         NEW R \in SUBSET Requests,
         \A r \in R : sess[r].stage \in {"endorsing", "orphan"},
         NEW code \in Answers \ {"NOTIFY"},
         out' = [r \in Requests |-> IF r \in R THEN Append(out[r], code) ELSE out[r]]
  PROVE  Promise
<1>1. out \in [Requests -> Seq(Answers)]
  BY DEF PInv, TypeInv, TypeOK
<1>2. \A r \in R : out[r] = <<>> /\ sess[r].stage # "none"
  BY DEF PInv, AnsweredByStage
<1>3. Append(<<>>, code) = <<code>>
  OBVIOUS
<1>4. out' = [r \in Requests |-> IF r \in R THEN <<code>> ELSE out[r]]
  BY <1>2, <1>3
<1>5. CASE R = {}
  <2>1. out' = out
    BY <1>1, <1>4, <1>5
  <2>. QED  BY <2>1, UnseenStep
<1>6. CASE R # {}
  <2>1. R \subseteq Call!Unanswered
    BY <1>2 DEF Call!Unanswered
  <2>2. Call!AnswerAll(R)
    BY <1>4, <2>1, Same DEF Call!AnswerAll, Asked, Waits
  <2>3. PICK r \in R : TRUE
    BY <1>6
  <2>4. Call!Answer(r)
    BY <2>1, <2>2, <2>3 DEF Call!Answer
  <2>. QED  BY <2>4 DEF Promise, Call!Next
<1>. QED  BY <1>5, <1>6

(* One request is answered and its session freed.                          *)
LEMMA FreedAndAnswered ==
  ASSUME PInv, svc = "up", UNCHANGED svc, NEW r \in Requests,
         sess[r].stage \in {"endorsing", "orphan"},
         NEW code \in Answers \ {"NOTIFY"},
         sess' = [sess EXCEPT ![r] = Freed(sess[r])], Reply(r, code)
  PROVE  Promise
<1>1. /\ sess \in [Requests -> Session] /\ out \in [Requests -> Seq(Answers)]
      /\ Freed(sess[r]).stage = "done" /\ Freed(sess[r]).wait = sess[r].wait
  BY FreedType DEF PInv, TypeInv, TypeOK
<1>2. SameCalls
  BY <1>1 DEF SameCalls
<1>3. out' = [q \in Requests |-> IF q \in {r} THEN Append(out[q], code) ELSE out[q]]
  BY <1>1 DEF Reply
<1>. QED  BY <1>2, <1>3, AnswerMaps

-----------------------------------------------------------------------------
LEMMA PInit == Init => PInv /\ Call!Init
<1>. SUFFICES ASSUME Init PROVE PInv /\ Call!Init
  OBVIOUS
<1>1. /\ \A r \in Requests : /\ sess[r].stage = "none" /\ ~sess[r].wait
                            /\ out[r] = <<>>
      /\ TypeInv
  BY TypeInit DEF Init, NoSession
<1>2. PInv
  BY <1>1 DEF PInv, AnsweredByStage
<1>3. Call!Init
  BY <1>1 DEF Call!Init, Init
<1>. QED  BY <1>2, <1>3

-----------------------------------------------------------------------------
(* Every step keeps the promise and the invariant.                         *)

LEMMA AsksKept ==
  ASSUME SendFails = {}, PInv, TypeInv', UserAsks
  PROVE  Promise /\ AnsweredByStage'
<1>1. PICK r \in Requests, kind \in Kinds, wait \in BOOLEAN :
        OnReqRefused(kind, r, wait) \/ OnReqSent(kind, r, wait)
  BY DEF UserAsks, OnReqSendFailed
<1>2. /\ sess \in [Requests -> Session] /\ out \in [Requests -> Seq(Answers)]
      /\ svc = "up" /\ UNCHANGED svc /\ sess[r].stage = "none"
  BY <1>1 DEF PInv, TypeInv, TypeOK, OnReqRefused, OnReqSent
<1>3. out[r] = <<>> /\ ~sess[r].wait
  BY <1>2 DEF PInv, AnsweredByStage
<1>4. PICK s : /\ sess' = [sess EXCEPT ![r] = s]
               /\ s.stage \in {"done", "endorsing"} /\ s.wait = wait
               /\ \/ s.stage = "endorsing" /\ UNCHANGED out
                  \/ s.stage = "done" /\ \E c \in {"NETWORK", "DECRYPT"} : Reply(r, c)
  <2>. DEFINE P(s) == /\ sess' = [sess EXCEPT ![r] = s]
                      /\ s.stage \in {"done", "endorsing"} /\ s.wait = wait
                      /\ \/ s.stage = "endorsing" /\ UNCHANGED out
                         \/ s.stage = "done" /\ \E c \in {"NETWORK", "DECRYPT"} : Reply(r, c)
  <2>1. CASE OnReqRefused(kind, r, wait)
    <3>1. P(Freed([NoSession EXCEPT !.kind = kind, !.wait = wait]))
      BY <2>1 DEF OnReqRefused, Freed, NoSession
    <3>. QED  BY <3>1
  <2>2. CASE OnReqSent(kind, r, wait)
    <3>1. PICK hs, h : sess' = [sess EXCEPT ![r] = NewSession(kind, wait, hs, h)]
      BY <2>2 DEF OnReqSent
    <3>2. P(NewSession(kind, wait, hs, h))
      BY <2>2, <3>1 DEF OnReqSent, NewSession, NoSession
    <3>. QED  BY <3>2
  <2>. QED  BY <1>1, <2>1, <2>2
<1>5. Asked' = Asked \cup {r} /\ Waits' \in {Waits, Waits \cup {r}} /\ r \notin Asked
  BY <1>2, <1>3, <1>4 DEF Asked, Waits
<1>6. UNCHANGED out \/ \E c \in {"NETWORK", "DECRYPT"} : out' = [out EXCEPT ![r] = <<c>>]
  <2>1. \A c : Append(<<>>, c) = <<c>>
    OBVIOUS
  <2>. QED  BY <1>2, <1>3, <1>4, <2>1 DEF Reply
<1>7. Call!Ask(r)
  BY <1>2, <1>5, <1>6 DEF Call!Ask, Answers, Asked, Waits
<1>8. Promise
  BY <1>7 DEF Promise, Call!Next
<1>9. AnsweredByStage'
  <2>1. \A q \in Requests : q # r => sess'[q] = sess[q] /\ out'[q] = out[q]
    BY <1>2, <1>4, <1>6
  <2>2. sess'[r].stage = "endorsing" => out'[r] = <<>>
    BY <1>2, <1>3, <1>4
  <2>. QED  BY <1>2, <1>4, <2>1, <2>2 DEF PInv, AnsweredByStage
<1>. QED  BY <1>8, <1>9

(* A session that is freed, answered or not, owes nothing.                 *)
LEMMA FreedKept ==
  ASSUME PInv, NEW R \in SUBSET Requests, sess' \in [Requests -> Session],
         \A q \in R : sess'[q].stage = "done",
         \A q \in Requests \ R : sess'[q] = sess[q] /\ out'[q] = out[q]
  PROVE  AnsweredByStage'
BY DEF PInv, AnsweredByStage

LEMMA EndorsementKept ==
  ASSUME SendFails = {}, PInv, NEW m \in net, OnEsCltRsp(m)
  PROVE  Promise /\ AnsweredByStage'
<1>1. /\ sess \in [Requests -> Session] /\ out \in [Requests -> Seq(Answers)]
      /\ svc = "up" /\ m.type = "endorsed" /\ TypeInv
  BY DEF PInv, TypeInv, TypeOK, OnEsCltRsp
<1>2. CASE OnLateEndorsement(m)
  <2>1. SameCalls /\ UNCHANGED <<sess, out>> /\ svc' \in {"up", "crashed"}
    BY <1>2 DEF OnLateEndorsement, SameCalls
  <2>2. AnsweredByStage'
    BY <2>1 DEF PInv, AnsweredByStage
  <2>3. CASE svc' = "up"
    BY <1>1, <2>1, <2>2, <2>3, UnseenStep
  <2>4. CASE svc' = "crashed"
    <3>1. Call!Stop
      BY <1>1, <2>1, <2>4, Same DEF Call!Stop, Asked, Waits
    <3>. QED  BY <2>2, <3>1 DEF Promise, Call!Next
  <2>. QED  BY <2>1, <2>3, <2>4
<1>3. ASSUME NEW r \in Find(m.kind, m.id, "endorsing"),
             OnEndorsementCounted(m, r) \/ OnEndorsed(m, r)
      PROVE  Promise /\ AnsweredByStage'
  <2>1. m \in Message /\ r \in Requests /\ sess[r] \in Session /\ sess[r].stage = "endorsing"
    BY <1>1, FoundType
  <2>2. /\ Agrees(sess[r], m) /\ sess' = [sess EXCEPT ![r] = Counted(sess[r], m)]
        /\ UNCHANGED <<svc, out>>
    BY <1>3 DEF OnEndorsementCounted, OnEndorsed
  <2>3. /\ Counted(sess[r], m).stage = "endorsing"
        /\ Counted(sess[r], m).wait = sess[r].wait
    BY <1>1, <2>1, <2>2, CountedType
  <2>4. SameCalls
    BY <1>1, <2>1, <2>2, <2>3 DEF SameCalls
  <2>5. AnsweredByStage'
    BY <1>1, <2>1, <2>2, <2>3 DEF PInv, AnsweredByStage
  <2>. QED  BY <2>2, <2>4, <2>5, UnseenStep
<1>4. ASSUME NEW r \in Find(m.kind, m.id, "endorsing"),
             OnEndorsementFailed(m, r) \/ OnEndorsementDiffers(m, r)
      PROVE  Promise /\ AnsweredByStage'
  <2>1. r \in Requests /\ sess[r] \in Session /\ sess[r].stage = "endorsing"
    BY <1>1, FoundType
  <2>2. PICK c \in Answers \ {"OK", "NOTIFY"} : Reply(r, c)
    BY <1>4 DEF OnEndorsementFailed, OnEndorsementDiffers, Failures, Answers
  <2>3. sess' = [sess EXCEPT ![r] = Freed(sess[r])] /\ UNCHANGED svc
    BY <1>4 DEF OnEndorsementFailed, OnEndorsementDiffers
  <2>4. Promise
    BY <1>1, <2>1, <2>2, <2>3, FreedAndAnswered DEF PInv
  <2>5. Freed(sess[r]) \in Session /\ Freed(sess[r]).stage = "done"
    BY <2>1, FreedType
  <2>6. AnsweredByStage'
    BY <1>1, <2>1, <2>2, <2>3, <2>5 DEF Reply, PInv, AnsweredByStage
  <2>. QED  BY <2>4, <2>6
<1>. QED
  BY <1>2, <1>3, <1>4 DEF OnEsCltRsp, OnEndorsedSendFailed

LEMMA SubmittedKept ==
  ASSUME PInv, NEW m \in net, OnSubmitEsCltRsp(m)
  PROVE  Promise /\ AnsweredByStage'
<1>1. /\ sess \in [Requests -> Session] /\ out \in [Requests -> Seq(Answers)]
      /\ svc = "up" /\ UNCHANGED svc /\ TypeInv
  BY DEF PInv, TypeInv, TypeOK, OnSubmitEsCltRsp
<1>2. CASE UNCHANGED <<sess, out>>
  <2>1. SameCalls /\ AnsweredByStage'
    BY <1>2 DEF SameCalls, PInv, AnsweredByStage
  <2>. QED  BY <1>1, <1>2, <2>1, UnseenStep
<1>3. ASSUME NEW r \in Find(m.kind, m.id, "endorsing"),
             sess' = [sess EXCEPT ![r] = AfterSubmit(sess[r], m.code)],
             IF m.code = "OK" THEN Reply(r, "OK") ELSE UNCHANGED out
      PROVE  Promise /\ AnsweredByStage'
  <2>1. /\ r \in Requests /\ sess[r] \in Session /\ sess[r].submitEs \in Handlers
        /\ sess[r].stage = "endorsing"
    BY <1>1, FoundType
  <2>. DEFINE a == AfterSubmit(sess[r], m.code)
  <2>2. /\ a.stage \in {"orphan", "waiting", "done"} /\ a.wait = sess[r].wait
        /\ m.code # "OK" => a.stage = "orphan"
        /\ m.code = "OK" => a.stage \in {"waiting", "done"}
        /\ a.stage = "waiting" => a.wait
    BY <2>1, AfterSubmitType
  <2>. HIDE DEF a
  <2>3. out[r] = <<>> /\ \A q \in Requests : sess'[q] = IF q = r THEN a ELSE sess[q]
    BY <1>1, <1>3, <2>1 DEF PInv, AnsweredByStage, a
  <2>4. SameCalls
    BY <2>1, <2>2, <2>3 DEF SameCalls
  <2>5. CASE m.code # "OK"
    <3>1. UNCHANGED out
      BY <1>3, <2>5
    <3>2. AnsweredByStage'
      BY <2>2, <2>3, <2>5, <3>1 DEF PInv, AnsweredByStage
    <3>. QED  BY <1>1, <2>4, <3>1, <3>2, UnseenStep
  <2>6. CASE m.code = "OK"
    <3>1. Reply(r, "OK")
      BY <1>3, <2>6
    <3>2. out' = [q \in Requests |-> IF q \in {r} THEN Append(out[q], "OK") ELSE out[q]]
      BY <1>1, <3>1 DEF Reply
    <3>3. Promise
      BY <1>1, <2>1, <2>4, <3>2, AnswerMaps DEF Answers
    <3>4. Append(<<>>, "OK") = <<"OK">>
      OBVIOUS
    <3>5. out'[r] = <<"OK">> /\ \A q \in Requests : q # r => out'[q] = out[q]
      BY <2>1, <2>3, <3>2, <3>4
    <3>6. AnsweredByStage'
      BY <2>2, <2>3, <2>6, <3>5 DEF PInv, AnsweredByStage
    <3>. QED  BY <3>3, <3>6
  <2>. QED  BY <2>5, <2>6
<1>. QED  BY <1>2, <1>3 DEF OnSubmitEsCltRsp

LEMMA NotifyKept ==
  ASSUME PInv, NEW m \in net, OnSubscribeNotify(m)
  PROVE  Promise /\ AnsweredByStage'
<1>1. /\ sess \in [Requests -> Session] /\ out \in [Requests -> Seq(Answers)]
      /\ svc = "up" /\ UNCHANGED svc
  BY DEF PInv, TypeInv, TypeOK, OnSubscribeNotify
<1>2. CASE UNCHANGED <<sess, out>>
  <2>1. SameCalls /\ AnsweredByStage'
    BY <1>2 DEF SameCalls, PInv, AnsweredByStage
  <2>. QED  BY <1>1, <1>2, <2>1, UnseenStep
<1>3. ASSUME NEW r \in Find(m.kind, m.id, "waiting"),
             sess' = [sess EXCEPT ![r] = Freed(sess[r])], Reply(r, "NOTIFY")
      PROVE  Promise /\ AnsweredByStage'
  <2>1. r \in Requests /\ sess[r] \in Session /\ sess[r].stage = "waiting"
    BY <1>1 DEF Find
  <2>2. out[r] = <<"OK">> /\ sess[r].wait
    BY <2>1 DEF PInv, AnsweredByStage
  <2>3. Freed(sess[r]).stage = "done" /\ Freed(sess[r]).wait = sess[r].wait
    BY <2>1, FreedType
  <2>4. SameCalls
    BY <1>1, <1>3, <2>1, <2>3 DEF SameCalls
  <2>6. out' = [out EXCEPT ![r] = Append(@, "NOTIFY")]
    BY <1>1, <1>3, <2>1, <2>2 DEF Reply
  <2>7. Call!Notify(r)
    BY <1>1, <2>1, <2>2, <2>4, <2>6, Same DEF Call!Notify, Asked, Waits
  <2>8. Promise
    BY <2>1, <2>7 DEF Promise, Call!Next
  <2>9. AnsweredByStage'
    BY <1>1, <1>3, <2>1, <2>3, <2>6 DEF PInv, AnsweredByStage
  <2>. QED  BY <2>8, <2>9
<1>. QED  BY <1>2, <1>3 DEF OnSubscribeNotify

LEMMA EventsKept ==
  ASSUME PInv,
         \/ \E r \in Requests : OnTimeOut(r)
         \/ \E h \in Handlers : OnConnectedNodify(h) \/ OnNetworkError(h)
         \/ OnExit
  PROVE  Promise /\ AnsweredByStage'
<1>1. /\ sess \in [Requests -> Session] /\ out \in [Requests -> Seq(Answers)]
      /\ svc = "up"
      /\ \A q \in Requests : Freed(sess[q]).stage = "done" /\ Freed(sess[q]).wait = sess[q].wait
  BY FreedType DEF PInv, TypeInv, TypeOK, OnTimeOut, OnConnectedNodify, OnNetworkError, OnExit
<1>2. ASSUME NEW r \in Requests, OnTimeOut(r) PROVE Promise /\ AnsweredByStage'
  <2>1. /\ UNCHANGED svc /\ sess[r].stage \in {"endorsing", "orphan"}
        /\ sess' = [sess EXCEPT ![r] = Freed(sess[r])] /\ Reply(r, "TIMEOUT")
    BY <1>2 DEF OnTimeOut
  <2>2. Promise
    BY <1>1, <2>1, FreedAndAnswered DEF Answers
  <2>3. AnsweredByStage'
    BY <1>1, <2>1 DEF Reply, PInv, AnsweredByStage
  <2>. QED  BY <2>2, <2>3
<1>3. ASSUME NEW h \in Handlers, OnConnectedNodify(h) PROVE Promise /\ AnsweredByStage'
  <2>1. UNCHANGED <<svc, sess, out>>
    BY <1>3 DEF OnConnectedNodify
  <2>2. SameCalls /\ AnsweredByStage'
    BY <2>1 DEF SameCalls, PInv, AnsweredByStage
  <2>. QED  BY <2>1, <2>2, UnseenStep
<1>4. ASSUME NEW h \in Handlers, OnNetworkError(h) PROVE Promise /\ AnsweredByStage'
  <2>. DEFINE R == BrokenBy(h)
  <2>1. /\ UNCHANGED svc /\ R \in SUBSET Requests
        /\ \A r \in R : sess[r].stage \in {"endorsing", "orphan"}
        /\ sess' = [r \in Requests |-> IF r \in R THEN Freed(sess[r]) ELSE sess[r]]
        /\ out' = [r \in Requests |-> IF r \in R THEN Append(out[r], "NETWORK") ELSE out[r]]
    BY <1>4 DEF OnNetworkError, BrokenBy
  <2>. HIDE DEF R
  <2>2. SameCalls
    BY <1>1, <2>1 DEF SameCalls
  <2>3. Promise
    BY <1>1, <2>1, <2>2, AnswerMaps DEF Answers
  <2>4. AnsweredByStage'
    BY <1>1, <2>1 DEF PInv, AnsweredByStage
  <2>. QED  BY <2>3, <2>4
<1>5. CASE OnExit
  <2>1. \A r \in Requests : sess[r].stage = "none" => ~sess[r].wait
    BY DEF PInv, AnsweredByStage
  <2>2. NoSession.stage = "none" /\ ~NoSession.wait
    BY DEF NoSession
  <2>3. /\ svc' = "exited" /\ UNCHANGED out
        /\ sess' = [r \in Requests |-> IF sess[r].stage = "none" THEN NoSession
                                      ELSE Freed(sess[r])]
    BY <1>5 DEF OnExit
  <2>4. \A r \in Requests : sess[r].wait \in BOOLEAN
    BY <1>1 DEF Session
  <2>5. SameCalls
    BY <1>1, <2>1, <2>2, <2>3, <2>4 DEF SameCalls, NoSession
  <2>6. Call!Stop
    BY <1>1, <2>3, <2>5, Same DEF Call!Stop, Asked, Waits
  <2>7. AnsweredByStage'
    BY <1>1, <2>2, <2>3 DEF PInv, AnsweredByStage
  <2>. QED  BY <2>6, <2>7 DEF Promise, Call!Next
<1>. QED  BY <1>2, <1>3, <1>4, <1>5

LEMMA PromiseStep ==
  SendFails = {} /\ PInv /\ [Next]_vars => PInv' /\ [Call!Next]_(Call!vars)
<1>. SUFFICES ASSUME SendFails = {}, PInv, [Next]_vars
              PROVE  PInv' /\ Promise
  BY DEF Promise
<1>1. TypeInv'
  BY TypeNext DEF PInv
<1>2. ASSUME NEW m \in net, EndorserAnswers(m) \/ EndorserSubmits(m)
      PROVE  Promise /\ AnsweredByStage'
  <2>1. UNCHANGED <<svc, sess, out>>
    BY <1>2 DEF EndorserAnswers, EndorserSubmits
  <2>2. SameCalls /\ AnsweredByStage'
    BY <2>1 DEF SameCalls, PInv, AnsweredByStage
  <2>. QED  BY <2>1, <2>2, UnseenStep
<1>3. CASE UNCHANGED vars
  <2>1. UNCHANGED <<svc, sess, out>>
    BY <1>3 DEF vars
  <2>2. SameCalls /\ AnsweredByStage'
    BY <2>1 DEF SameCalls, PInv, AnsweredByStage
  <2>. QED  BY <1>1, <2>1, <2>2, UnseenStep DEF PInv
<1>. QED
  BY <1>1, <1>2, <1>3, AsksKept, EndorsementKept, SubmittedKept, NotifyKept, EventsKept
     DEF Next, PInv

(* A user gets one answer for a request, and at most one notification      *)
(* after a success, if the user waits for it (TODO.md, 8): the sequence    *)
(* of steps of the service is one of UserCall, when messages can be sent.  *)
THEOREM PromiseKept == ASSUME SendFails = {} PROVE Spec => Call!Spec
<1>1. PInv /\ [Next]_vars => PInv' /\ [Call!Next]_(Call!vars)
  BY PromiseStep
<1>. QED
  BY <1>1, PInit, PTL DEF Spec, Call!Spec
=============================================================================
