------------------------------ MODULE CcService ------------------------------
(***************************************************************************)
(* CCcService, the base of every chaincode.  An endorser asks it to handle *)
(* a registration or a proposal; it opens a session and calls the          *)
(* chaincode (RegistUserProc, ProposalProc), which may read users and      *)
(* informations of the ledger, set what it read, create informations, and  *)
(* answers with RegistUserRsp or PorposalRsp, in the call or later.  What  *)
(* the chaincode set is the write set of the transaction, each entry with  *)
(* the version that follows the one it read.                               *)
(*                                                                         *)
(* The service runs on one reactor thread.  inProc is the request whose    *)
(* callback is on the stack: until it returns only the chaincode runs.     *)
(* The chaincode is a class derived from this one and the ledger service   *)
(* is not in the repository; both do what this interface lets them do.     *)
(***************************************************************************)
EXTENDS Integers, Sequences, FiniteSets

CONSTANTS
  Requests,    (* requests of endorsers that the behaviour may contain     *)
  Infos,       (* informations of the ledger                               *)
  Users,       (* users of the ledger                                      *)
  News,        (* keys of informations that a chaincode may create         *)
  SysId,       (* m_nSystemID of each user and information                 *)
  MaxVersion,  (* the largest version, 2^32 - 1 in the code                *)
  Idle,        (* no callback is on the stack                              *)
  Blank, New,  (* a value nobody filled in; a value the chaincode set      *)
  Composes,    (* the chaincode puts the type into a proposal's id itself  *)
  Orderly      (* the chaincode waits for what it asked for before it asks
                  or sets again, and forgets a request it failed           *)

Keys == Infos \cup Users
Versions == 0 .. MaxVersion
Data == [of : Keys, ver : Versions]

ASSUME SysIdAssumption ==
  /\ SysId \in [Keys -> Nat]
  /\ \A K \in {Infos, Users} : \A k, l \in K : SysId[k] = SysId[l] => k = l
ASSUME KeysAssumption == Infos \cap Users = {}
ASSUME MaxAssumption == MaxVersion \in Nat \ {0}
ASSUME IdleAssumption == Idle \notin Requests
ASSUME ValuesAssumption == Blank \notin Data /\ New \notin Data /\ Blank # New
ASSUME ChaincodeAssumption == Composes \in BOOLEAN /\ Orderly \in BOOLEAN

VARIABLES
  svc,         (* "up", "crashed" or "exited"                              *)
  nSessionID,  (* m_nSessionID                                             *)
  inProc,      (* the request whose callback runs, or Idle                 *)
  sess,        (* the session of each request                              *)
  net,         (* queries to the ledger service, and its answers           *)
  ledger,      (* the version of each key                                  *)
  replies,     (* what the endorser received for each request              *)
  wrote,       (* history: the content that each request was answered with *)
  got,         (* history: what the chaincode was given for each key       *)
  refused      (* history: requests whose id the interface did not accept  *)

vars == <<svc, nSessionID, inProc, sess, net, ledger, replies, wrote, got, refused>>

(* IncreaseVersion and IsVersionMatch: version 0 is that of a creation and *)
(* does not come again.                                                    *)

(* Mutant: the counter does not wrap.                                      *)
IncreaseVersion_NoWrap(v) == v + 1

IncreaseVersion(v) == IF v = MaxVersion THEN 1 ELSE v + 1

IsVersionMatch(pre, cur) == IF pre = MaxVersion THEN cur = 1 ELSE cur = pre + 1

(* CCcUser and CCcInformation of a session.                                *)
Entry == [asked : BOOLEAN,                (* it is in the list             *)
          ver : Versions,                 (* m_nVersion                    *)
          value : Data \cup {Blank, New}, (* m_userInfo, m_value           *)
          set : BOOLEAN,                  (* m_bSetted                     *)
          read : BOOLEAN,                 (* history: the answer came,     *)
          rver : Versions]                (* history: with this version    *)

NoEntry == [asked |-> FALSE, ver |-> 0, value |-> Blank, set |-> FALSE,
            read |-> FALSE, rver |-> 0]

Session == [stage : {"none", "live", "done"}, kind : {"regist", "propose"},
            id : Nat, inMap : BOOLEAN, lst : [Keys -> Entry],
            created : SUBSET News]

NoSession == [stage |-> "none", kind |-> "regist", id |-> 0, inMap |-> FALSE,
              lst |-> [k \in Keys |-> NoEntry], created |-> {}]

(* A session that was freed; its map may still hold it.                    *)
Freed(s, inMap) == [NoSession EXCEPT !.stage = "done", !.kind = s.kind,
                                     !.id = s.id, !.inMap = inMap]

(* The chaincode may run on behalf of r.                                   *)
Running(r) == svc = "up" /\ inProc \in {Idle, r}

(* CombineUserCCSessionID tags the id of a registration; that of a         *)
(* proposal is handed out as it is (line 122).                             *)
IdType(r) == IF sess[r].kind = "regist" THEN "regist"
             ELSE IF Composes THEN "propose" ELSE "untyped"

(* The session that SplitUserCCSessionID and the map lead to.              *)
Serves(r, kind) == IdType(r) = kind /\ sess[r].kind = kind /\ sess[r].inMap

Answer(r, code) == replies' = [replies EXCEPT ![r] = Append(@, code)]

-----------------------------------------------------------------------------
(* Requests of endorsers: CRegistUserEsCcReq, CSubmitProposalEsCcReq.      *)

(* The session enters its map with a timer, and the chaincode is called.   *)
OnRequest(r, kind) ==
  /\ svc = "up" /\ inProc = Idle /\ sess[r].stage = "none"
  /\ sess' = [sess EXCEPT ![r] = [NoSession EXCEPT !.stage = "live",
                !.kind = kind, !.id = nSessionID, !.inMap = TRUE]]
  /\ nSessionID' = nSessionID + 1
  /\ inProc' = r
  /\ UNCHANGED <<svc, net, ledger, replies, wrote, got, refused>>

(* The callback returns 0: the chaincode answered, or will.                *)
ProcReturns(r) ==
  /\ svc = "up" /\ inProc = r
  /\ inProc' = Idle
  /\ UNCHANGED <<svc, nSessionID, sess, net, ledger, replies, wrote, got, refused>>

(* Mutant: the timer goes, the endorser is not told.                       *)
ProcFails_Silent(r) ==
  /\ svc = "up" /\ inProc = r /\ sess[r].stage = "live"
  /\ sess' = [sess EXCEPT ![r] = Freed(@, @.kind = "regist")]
  /\ inProc' = Idle
  /\ UNCHANGED <<svc, nSessionID, net, ledger, replies, wrote, got, refused>>

(* The callback reports an error, without having answered.  A registration *)
(* is erased from the map of proposals (line 96): its own keeps it.        *)
ProcFails(r) ==
  /\ svc = "up" /\ inProc = r /\ sess[r].stage = "live"
  /\ sess' = [sess EXCEPT ![r] = Freed(@, @.kind = "regist")]
  /\ inProc' = Idle
  /\ Answer(r, "CC_REPORT")
  /\ UNCHANGED <<svc, nSessionID, net, ledger, wrote, got, refused>>

-----------------------------------------------------------------------------
(* What the chaincode may call.                                            *)

(* A call with an id of the wrong type is refused.                         *)
CallRefused(r) ==
  /\ Running(r) /\ sess[r].stage = "live" /\ IdType(r) # "propose"
  /\ refused' = refused \cup {r}
  /\ UNCHANGED <<svc, nSessionID, inProc, sess, net, ledger, replies, wrote, got>>

(* GetVbhUser, GetVbhInformation of a key that is not in the list: it is   *)
(* listed, with nothing in it, and the ledger is asked.  The message may   *)
(* fail to be sent, which the chaincode is told.                           *)
Get(r, k) ==
  /\ Running(r) /\ Serves(r, "propose") /\ ~sess[r].lst[k].asked
  /\ sess' = [sess EXCEPT ![r].lst[k] = [NoEntry EXCEPT !.asked = TRUE]]
  /\ \/ net' = net \cup {[type |-> "query", id |-> sess[r].id, k |-> k]}
     \/ UNCHANGED net
  /\ UNCHANGED <<svc, nSessionID, inProc, ledger, replies, wrote, got, refused>>

(* A key that is in the list is answered from the list, in the call.       *)
GetListed(r, k) ==
  /\ Running(r) /\ Serves(r, "propose") /\ sess[r].lst[k].asked
  /\ Orderly => sess[r].lst[k].read
  /\ got' = [got EXCEPT ![r] = @ \cup {[k |-> k, value |-> sess[r].lst[k].value]}]
  /\ UNCHANGED <<svc, nSessionID, inProc, sess, net, ledger, replies, wrote, refused>>

(* Mutant: each setting counts as a change.                                *)
Set_EachTime(r, k) ==
  /\ Running(r) /\ Serves(r, "propose") /\ sess[r].lst[k].asked
  /\ Orderly => sess[r].lst[k].read
  /\ sess' = [sess EXCEPT ![r].lst[k] =
                [@ EXCEPT !.value = New, !.set = TRUE, !.ver = IncreaseVersion(@)]]
  /\ UNCHANGED <<svc, nSessionID, inProc, net, ledger, replies, wrote, got, refused>>

(* SetVbhUser, SetVbhInformation: of a key in the list; the first setting  *)
(* moves the version on.                                                   *)
Set(r, k) ==
  /\ Running(r) /\ Serves(r, "propose") /\ sess[r].lst[k].asked
  /\ Orderly => sess[r].lst[k].read
  /\ LET e == sess[r].lst[k]
         v == IF e.set THEN e.ver ELSE IncreaseVersion(e.ver)
     IN  sess' = [sess EXCEPT ![r].lst[k] =
                    [e EXCEPT !.value = New, !.set = TRUE, !.ver = v]]
  /\ UNCHANGED <<svc, nSessionID, inProc, net, ledger, replies, wrote, got, refused>>

(* CreateVbhInformation: a key that was not created in this session.       *)
Create(r, n) ==
  /\ Running(r) /\ Serves(r, "propose") /\ n \notin sess[r].created
  /\ sess' = [sess EXCEPT ![r].created = @ \cup {n}]
  /\ UNCHANGED <<svc, nSessionID, inProc, net, ledger, replies, wrote, got, refused>>

(* RegistUserRsp: the session is erased from its map, answered and freed.  *)
(* One that was freed before and is still in the map is used and freed     *)
(* once more: the process ends, or does as if the memory were intact.      *)
RegistUserRsp(r) ==
  /\ Running(r) /\ Serves(r, "regist")
  /\ Orderly => sess[r].stage = "live"
  /\ sess' = [sess EXCEPT ![r] = Freed(@, FALSE)]
  /\ \E code \in {"ALLOW", "DENY", "ERROR"} : Answer(r, code)
  /\ svc' \in (IF sess[r].stage = "live" THEN {"up"} ELSE {"up", "crashed"})
  /\ UNCHANGED <<nSessionID, inProc, net, ledger, wrote, got, refused>>

(* PorposalRsp: the content is every entry of the list that was set, and   *)
(* what was created.                                                       *)
WriteSet(r) ==
  {[k |-> k, ver |-> sess[r].lst[k].ver, value |-> sess[r].lst[k].value,
    read |-> sess[r].lst[k].read, rver |-> sess[r].lst[k].rver] :
      k \in {l \in Keys : sess[r].lst[l].set}}

PorposalRsp(r) ==
  /\ Running(r) /\ Serves(r, "propose")
  /\ sess' = [sess EXCEPT ![r] = Freed(@, FALSE)]
  /\ \/ /\ Answer(r, "OK")
        /\ wrote' = [wrote EXCEPT ![r] = [updates |-> WriteSet(r),
                                          creates |-> sess[r].created]]
     \/ Answer(r, "CC_REPORT") /\ UNCHANGED wrote
  /\ UNCHANGED <<svc, nSessionID, inProc, net, ledger, got, refused>>

-----------------------------------------------------------------------------
(* Answers of the ledger: CQueryUserInfoXcsCcRsp and                       *)
(* CQueryInformationXcsCcRsp.                                              *)

(* Mutant: an information is found like a user.                            *)
Matches_Version(k, m) ==
  /\ k \in Infos <=> m.k \in Infos
  /\ SysId[k] = m.ver

(* The entry that an answer belongs to: an information is found by its     *)
(* number; a user by a number equal to the version that came (line 156).   *)
Matches(k, m) ==
  IF m.k \in Infos THEN k \in Infos /\ SysId[k] = SysId[m.k]
  ELSE k \in Users /\ SysId[k] = m.ver

Listed(r, m) == {k \in Keys : sess[r].lst[k].asked /\ Matches(k, m)}

FindProposal(id) == {r \in Requests : /\ sess[r].kind = "propose"
                                      /\ sess[r].inMap /\ sess[r].id = id}

(* The entry takes version and value, and the chaincode is given them.     *)
OnQueryRsp(m) ==
  /\ svc = "up" /\ inProc = Idle /\ m.type = "answer"
  /\ \/ \E r \in FindProposal(m.id) : \E k \in Listed(r, m) :
          LET d == [of |-> m.k, ver |-> m.ver]
              e == sess[r].lst[k]
          IN
          /\ sess' = [sess EXCEPT ![r].lst[k] =
                        [e EXCEPT !.ver = m.ver, !.value = d,
                                  !.read = TRUE, !.rver = m.ver]]
          /\ got' = [got EXCEPT ![r] = @ \cup {[k |-> k, value |-> d]}]
     \/ /\ \A r \in FindProposal(m.id) : Listed(r, m) = {}
        /\ UNCHANGED <<sess, got>>
  /\ net' = net \ {m}
  /\ UNCHANGED <<svc, nSessionID, inProc, ledger, replies, wrote, refused>>

(* The query failed: the chaincode is told the code, without a key.        *)
OnQueryFailed(m) ==
  /\ svc = "up" /\ inProc = Idle /\ m.type = "failure"
  /\ net' = net \ {m}
  /\ UNCHANGED <<svc, nSessionID, inProc, sess, ledger, replies, wrote, got, refused>>

(* Mutant: the timer leaves the session in its map.                        *)
OnTimeOut_StaysInMap(r) ==
  /\ svc = "up" /\ inProc = Idle /\ sess[r].stage = "live"
  /\ sess' = [sess EXCEPT ![r] = Freed(@, TRUE)]
  /\ Answer(r, "TIMEOUT")
  /\ UNCHANGED <<svc, nSessionID, inProc, net, ledger, wrote, got, refused>>

(* The timer of the session: the endorser is told, the session is freed.   *)
OnTimeOut(r) ==
  /\ svc = "up" /\ inProc = Idle /\ sess[r].stage = "live"
  /\ sess' = [sess EXCEPT ![r] = Freed(@, FALSE)]
  /\ Answer(r, "TIMEOUT")
  /\ UNCHANGED <<svc, nSessionID, inProc, net, ledger, wrote, got, refused>>

(* The sessions of the maps are freed, also those that were before.        *)
OnExit ==
  /\ svc = "up" /\ inProc = Idle
  /\ svc' \in (IF \E r \in Requests : sess[r].inMap /\ sess[r].stage = "done"
               THEN {"exited", "crashed"} ELSE {"exited"})
  /\ sess' = [r \in Requests |-> IF sess[r].stage = "none" THEN NoSession
                                 ELSE Freed(sess[r], FALSE)]
  /\ UNCHANGED <<nSessionID, inProc, net, ledger, replies, wrote, got, refused>>

-----------------------------------------------------------------------------
(* The ledger service, and other transactions that change the ledger.      *)

XcsAnswers(m) ==
  /\ svc = "up" /\ m.type = "query"
  /\ \/ net' = (net \ {m}) \cup {[type |-> "answer", id |-> m.id, k |-> m.k,
                                  ver |-> ledger[m.k]]}
     \/ net' = (net \ {m}) \cup {[type |-> "failure", id |-> m.id, k |-> m.k]}
  /\ UNCHANGED <<svc, nSessionID, inProc, sess, ledger, replies, wrote, got, refused>>

LedgerMoves(k) ==
  /\ svc = "up"
  /\ ledger' = [ledger EXCEPT ![k] = IncreaseVersion(@)]
  /\ UNCHANGED <<svc, nSessionID, inProc, sess, net, replies, wrote, got, refused>>

Init ==
  /\ svc = "up" /\ nSessionID = 0 /\ inProc = Idle
  /\ sess = [r \in Requests |-> NoSession]
  /\ net = {} /\ ledger = [k \in Keys |-> 0]
  /\ replies = [r \in Requests |-> <<>>]
  /\ wrote = [r \in Requests |-> [updates |-> {}, creates |-> {}]]
  /\ got = [r \in Requests |-> {}]
  /\ refused = {}

ChaincodeCalls(r) ==
  \/ CallRefused(r) \/ RegistUserRsp(r) \/ PorposalRsp(r)
  \/ \E k \in Keys : Get(r, k) \/ GetListed(r, k) \/ Set(r, k)
  \/ \E n \in News : Create(r, n)

Next ==
  \/ \E r \in Requests :
       \/ \E kind \in {"regist", "propose"} : OnRequest(r, kind)
       \/ ProcReturns(r) \/ ProcFails(r) \/ ChaincodeCalls(r) \/ OnTimeOut(r)
  \/ \E m \in net : OnQueryRsp(m) \/ OnQueryFailed(m) \/ XcsAnswers(m)
  \/ \E k \in Keys : LedgerMoves(k)
  \/ OnExit

Spec == Init /\ [][Next]_vars

(* The reactor runs the timer that each session was given, and a callback  *)
(* of the chaincode returns.  The ledger may stay silent.                  *)
Fairness == \A r \in Requests : /\ WF_vars(OnTimeOut(r))
                                /\ WF_vars(ProcReturns(r) \/ ProcFails(r))
LiveSpec == Spec /\ Fairness

-----------------------------------------------------------------------------
(* Properties.                                                             *)

Codes == {"ALLOW", "DENY", "ERROR", "OK", "CC_REPORT", "TIMEOUT"}

Message == [type : {"query", "failure"}, id : Nat, k : Keys]
           \cup [type : {"answer"}, id : Nat, k : Keys, ver : Versions]

Writes == [k : Keys, ver : Versions, value : Data \cup {Blank, New},
           read : BOOLEAN, rver : Versions]

TypeOK ==
  /\ svc \in {"up", "crashed", "exited"}
  /\ nSessionID \in Nat
  /\ inProc \in Requests \cup {Idle}
  /\ sess \in [Requests -> Session]
  /\ net \subseteq Message
  /\ ledger \in [Keys -> Versions]
  /\ replies \in [Requests -> Seq(Codes)]
  /\ wrote \in [Requests -> [updates : SUBSET Writes, creates : SUBSET News]]
  /\ got \in [Requests -> SUBSET [k : Keys, value : Data \cup {Blank, New}]]
  /\ refused \subseteq Requests

(* The write of an information carries a value that the chaincode set, on  *)
(* top of the version that it read, and the version that follows that one, *)
(* however often it was set, wherever the counter wraps and whatever       *)
(* answers are on their way (lines 203-221, 486-497).                      *)
WritesFollowReads ==
  \A r \in Requests : \A w \in wrote[r].updates :
    w.k \in Infos => w.read /\ w.value = New /\ IsVersionMatch(w.rver, w.ver)

(* What a chaincode is given for an information is a version of that       *)
(* information, or what it set itself (lines 187-235, 417-455).            *)
InfoIsItsOwn ==
  \A r \in Requests : \A g \in got[r] :
    g.k \in Infos => g.value = New \/ (g.value \in Data /\ g.value.of = g.k)

(* An endorser gets one answer to a request, whichever of the return of    *)
(* the callback, the answer of the chaincode and the timer comes first     *)
(* (lines 92-105, 122-134, 237-263, 585-741).                              *)
OneAnswer ==
  \A r \in Requests :
    /\ Len(replies[r]) <= 1
    /\ sess[r].stage # "done" => replies[r] = <<>>
    /\ sess[r].stage = "done" /\ svc = "up" => replies[r] # <<>>

(* An orderly chaincode lets the service keep the promise of UserCall to   *)
(* the endorser: whatever comes first, and even if the ledger stays        *)
(* silent, a request gets one answer while the service is up (lines 86-134,*)
(* 237-263, 585-741).                                                      *)
Call == INSTANCE UserCall WITH
          up <- svc = "up",
          asked <- {r \in Requests : sess[r].stage # "none"},
          waits <- {},
          out <- replies

KeepsPromise == Call!LiveSpec

(* What the sources say and the code does not do; the README tells why.    *)

(* The id that the chaincode is given for a proposal is the composed one   *)
(* that the interface takes apart again (header, lines 186-191).           *)
ProposalServed == \A r \in refused : sess[r].kind = "regist"

(* An answer about a user belongs to the user with the system number that  *)
(* it names (message definition, line 1301).                               *)
UserIsItsOwn ==
  \A r \in Requests : \A g \in got[r] :
    g.k \in Users => g.value = New \/ (g.value \in Data /\ g.value.of = g.k)

(* A response after the request was failed finds no session (line 621).    *)
FailedIsForgotten ==
  \A r \in Requests : sess[r].stage = "done" => ~sess[r].inMap
=============================================================================
