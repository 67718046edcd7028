----------------------------- MODULE ClientSdk ------------------------------
(***************************************************************************)
(* What an application links: InitClientSdk of the user SDK ("vbh"), its C *)
(* interface ("c"), CIdcClient ("idc"), InitMqClientSdk ("mq") and         *)
(* InitP2pMqMsgSdk ("p2p"). Each Init starts a worker thread with a        *)
(* parameter on its own stack, waits until the worker signals that it has  *)
(* started its services, and from then on requests are messages that are   *)
(* put into the queue of a service of the worker.                          *)
(***************************************************************************)
EXTENDS Integers, Sequences, FiniteSets

CONSTANTS
  Threads,     (* threads of the application                               *)
  MaxRequests  (* bound: requests posted                                   *)

(* The value of the lock that nobody holds.                                *)
NoThread == "none"

ASSUME ThreadsAssumption == NoThread \notin Threads

VARIABLES
  sdk,     (* the SDK the application is linked with                       *)
  lock,    (* m_lock: the thread that holds it                             *)
  inited,  (* m_bInited                                                    *)
  caller,  (* where each thread of the application is                      *)
  worker,  (* the worker thread each of them has started                   *)
  event,   (* the event in the parameter of each worker is signalled       *)
  appID,   (* m_nAppID in that parameter: the id given, or -1              *)
  queue,   (* history: the messages the services were given                *)
  lost,    (* threads whose first message to the service was not sent      *)
  exited   (* SetAppExited                                                 *)

sdkVars == <<sdk, lock, inited, caller, worker, event, appID, queue, lost, exited>>

Locked == {"vbh", "c", "idc"}

SdkInit ==
  /\ sdk \in Locked \cup {"mq", "p2p"}
  /\ lock = NoThread /\ inited = FALSE
  /\ caller = [t \in Threads |-> "idle"] /\ worker = [t \in Threads |-> "none"]
  /\ event = [t \in Threads |-> FALSE] /\ appID = [t \in Threads |-> "given"]
  /\ queue = <<>> /\ lost = {} /\ exited = FALSE

-----------------------------------------------------------------------------
(* SendVbhMessage and SendDscMessage: a message is allocated and given to  *)
(* the dispatcher; one that was not taken is freed and -1 returned. Nobody *)
(* takes it before a worker has made its services, or after the worker     *)
(* left its loop.                                                          *)
Posted(t, kind) ==
  /\ \E u \in Threads : worker[u] \in {"serving", "running"}
  /\ queue' = Append(queue, [from |-> t, kind |-> kind])

NotPosted == UNCHANGED queue

-----------------------------------------------------------------------------
CallInit(t) ==
  /\ caller[t] = "idle"
  /\ caller' = [caller EXCEPT ![t] = IF sdk \in Locked THEN "spin" ELSE "spawn"]
  /\ UNCHANGED <<sdk, lock, inited, worker, event, appID, queue, lost, exited>>

(* init_vbh_c_sdk without one of its eight callbacks.                      *)
CallInitWithout(t) ==
  /\ caller[t] = "idle" /\ sdk = "c"
  /\ caller' = [caller EXCEPT ![t] = "failed"]
  /\ UNCHANGED <<sdk, lock, inited, worker, event, appID, queue, lost, exited>>

(* Mutant: the lock is not waited for.                                     *)
TestAndSet_Free(t) ==
  /\ caller[t] = "spin"
  /\ lock' = t
  /\ caller' = [caller EXCEPT ![t] = "locked"]
  /\ UNCHANGED <<sdk, inited, worker, event, appID, queue, lost, exited>>

TestAndSet(t) ==
  /\ caller[t] = "spin" /\ lock = NoThread
  /\ lock' = t
  /\ caller' = [caller EXCEPT ![t] = "locked"]
  /\ UNCHANGED <<sdk, inited, worker, event, appID, queue, lost, exited>>

(* Under the lock m_bInited is tested, and set if it was not. A second     *)
(* caller is told 0 at once, whether the first is done or not;             *)
(* InitClientSdk then goes on to send its callback.                        *)
TestInited(t) ==
  /\ caller[t] = "locked"
  /\ lock' = IF inited THEN NoThread ELSE lock
  /\ caller' = [caller EXCEPT ![t] =
                  CASE ~inited -> "first" [] inited /\ sdk \in {"vbh", "c"} -> "send" [] OTHER -> "ok"]
  /\ UNCHANGED <<sdk, inited, worker, event, appID, queue, lost, exited>>

SetInited(t) ==
  /\ caller[t] = "first"
  /\ inited' = TRUE /\ lock' = NoThread
  /\ caller' = [caller EXCEPT ![t] = "spawn"]
  /\ UNCHANGED <<sdk, worker, event, appID, queue, lost, exited>>

(* A worker that cannot be spawned is an error, except to CIdcClient::Init.*)
Spawn(t, ok) ==
  /\ caller[t] = "spawn"
  /\ worker' = IF ok THEN [worker EXCEPT ![t] = "start"] ELSE worker
  /\ caller' = [caller EXCEPT ![t] = CASE ok -> "wait" [] ~ok /\ sdk = "idc" -> "send" [] OTHER -> "failed"]
  /\ UNCHANGED <<sdk, lock, inited, event, appID, queue, lost, exited>>

(* ThreadFunction: no WORK_ROOT, no program directory, or the application  *)
(* manager fails. Not mq and p2p: they signal and no more.                 *)
WorkerFails(t) ==
  /\ worker[t] = "start"
  /\ appID' = [appID EXCEPT ![t] = IF sdk \in Locked THEN "-1" ELSE @]
  /\ worker' = [worker EXCEPT ![t] = "failing"]
  /\ UNCHANGED <<sdk, lock, inited, caller, event, queue, lost, exited>>

WorkerInits(t) ==
  /\ worker[t] = "start"
  /\ worker' = [worker EXCEPT ![t] = "serving"]
  /\ UNCHANGED <<sdk, lock, inited, caller, event, appID, queue, lost, exited>>

(* SendNetworkInfo2CallbackService reads the parameter of the caller; its  *)
(* result is not looked at.                                                *)
SendNetworkInfo(t) ==
  IF sdk = "p2p" THEN \/ Posted(t, "init") /\ UNCHANGED lost
                      \/ NotPosted /\ lost' = lost \cup {t}
  ELSE UNCHANGED <<queue, lost>>

(* Mutant: the parameter is given back once the services are there.        *)
WorkerSignals_Early(t) ==
  /\ worker[t] \in {"start", "failing", "serving"} /\ ~event[t]
  /\ event' = [event EXCEPT ![t] = TRUE]
  /\ worker' = [worker EXCEPT ![t] = IF @ = "failing" THEN "gone" ELSE @]
  /\ UNCHANGED <<sdk, lock, inited, caller, appID, queue, lost, exited>>

(* Mutant: a worker that fails returns without a signal.                   *)
WorkerSignals_NotOnFailure(t) ==
  /\ worker[t] \in {"serving", "failing"}
  /\ event' = [event EXCEPT ![t] = (worker[t] = "serving")]
  /\ worker' = [worker EXCEPT ![t] = IF @ = "serving" THEN "running" ELSE "gone"]
  /\ IF worker[t] = "serving" THEN SendNetworkInfo(t) ELSE UNCHANGED <<queue, lost>>
  /\ UNCHANGED <<sdk, lock, inited, caller, appID, exited>>

(* The last use of the parameter; then the loop of the application.        *)
WorkerSignals(t) ==
  /\ event' = [event EXCEPT ![t] = TRUE]
  /\ \/ /\ worker[t] = "failing"
        /\ worker' = [worker EXCEPT ![t] = "gone"]
        /\ UNCHANGED <<queue, lost>>
     \/ /\ worker[t] = "serving"
        /\ worker' = [worker EXCEPT ![t] = "running"]
        /\ SendNetworkInfo(t)
  /\ UNCHANGED <<sdk, lock, inited, caller, appID, exited>>

(* Mutant: the id in the parameter is not looked at.                       *)
EventWaited_NoTest(t) ==
  /\ caller[t] = "wait" /\ event[t]
  /\ caller' = [caller EXCEPT ![t] = IF sdk \in Locked THEN "send" ELSE "ok"]
  /\ UNCHANGED <<sdk, lock, inited, worker, event, appID, queue, lost, exited>>

(* The caller wakes: its parameter is gone once it returns.                *)
EventWaited(t) ==
  /\ caller[t] = "wait" /\ event[t]
  /\ caller' = [caller EXCEPT ![t] =
                  CASE sdk \notin Locked -> "ok" [] sdk \in Locked /\ appID[t] = "given" -> "send"
                    [] OTHER -> "failed"]
  /\ UNCHANGED <<sdk, lock, inited, worker, event, appID, queue, lost, exited>>

(* The callback is sent to the service. InitClientSdk returns the result;  *)
(* CIdcClient::Init does not look at it.                                   *)
SendCallback(t) ==
  /\ caller[t] = "send"
  /\ \/ /\ Posted(t, "init") /\ UNCHANGED lost
        /\ caller' = [caller EXCEPT ![t] = "ok"]
     \/ /\ NotPosted /\ lost' = lost \cup {t}
        /\ caller' = [caller EXCEPT ![t] = IF sdk = "idc" THEN "ok" ELSE "failed"]
  /\ UNCHANGED <<sdk, lock, inited, worker, event, appID, exited>>

-----------------------------------------------------------------------------
(* A request of an application that was told 0.                            *)
Asks(t) ==
  /\ caller[t] = "ok" /\ Len(queue) < MaxRequests
  /\ UNCHANGED <<sdk, lock, inited, caller, worker, event, appID, lost, exited>>

(* RegistUser, GetUserInfo, Propose, GetTransInfo: one that lacks an       *)
(* argument is refused.                                                    *)
VbhRequest(t, whole) == (whole /\ Posted(t, "request")) \/ NotPosted

(* UnRegistUser: not written.                                              *)
UnRegistUser(t) == NotPosted

(* The functions of the C interface look at the arguments before they call *)
(* those of the SDK.                                                       *)
CRequest(t, whole) == (whole /\ VbhRequest(t, whole)) \/ NotPosted

(* RegisterUser to RefreshToken of CIdcClient: whatever can be encoded.    *)
IdcRequest(t, encoded) == (encoded /\ Posted(t, "request")) \/ NotPosted

(* PubTopicBroadcastMqMsg, PubAddrMqMsg.                                   *)
MqRequest(t) == Posted(t, "request") \/ NotPosted

(* PubBroadcastP2pMqMsg, PubPollP2pMqMsg, SubP2pMqMsgID.                   *)
P2pPub(t) == Posted(t, "request") \/ NotPosted
SubP2pMqMsgID(t) == Posted(t, "sub") \/ NotPosted

Request(t) ==
  /\ Asks(t)
  /\ \/ sdk = "vbh" /\ (UnRegistUser(t) \/ \E whole \in BOOLEAN : VbhRequest(t, whole))
     \/ sdk = "c" /\ (UnRegistUser(t) \/ \E whole \in BOOLEAN : CRequest(t, whole))
     \/ sdk = "idc" /\ \E encoded \in BOOLEAN : IdcRequest(t, encoded)
     \/ sdk = "mq" /\ MqRequest(t)
     \/ sdk = "p2p" /\ (P2pPub(t) \/ SubP2pMqMsgID(t))

(* Fnit, or Exit: the loops of the workers end.                            *)
Fnit(t) ==
  /\ caller[t] = "ok"
  /\ exited' = TRUE
  /\ UNCHANGED <<sdk, lock, inited, caller, worker, event, appID, queue, lost>>

WorkerLeaves(t) ==
  /\ worker[t] = "running" /\ exited
  /\ worker' = [worker EXCEPT ![t] = "gone"]
  /\ UNCHANGED <<sdk, lock, inited, caller, event, appID, queue, lost, exited>>

-----------------------------------------------------------------------------
CallerStep(t) ==
  TestAndSet(t) \/ TestInited(t) \/ SetInited(t) \/ EventWaited(t) \/ SendCallback(t) \/ \E ok \in BOOLEAN : Spawn(t, ok)

WorkerStep(t) == WorkerFails(t) \/ WorkerInits(t) \/ WorkerSignals(t)

SdkNext ==
  \E t \in Threads :
    \/ CallInit(t) \/ CallInitWithout(t) \/ CallerStep(t) \/ WorkerStep(t) \/ WorkerLeaves(t) \/ Fnit(t)
    \/ Request(t)

-----------------------------------------------------------------------------
(* The worker uses the parameter on the stack of the caller, to read the   *)
(* addresses, to write the id and to signal, only while the caller is      *)
(* waiting in the function that holds it (sdk_comm_if.cpp:95-103,          *)
(* p2p_mq/mq_interface.cpp:108-112).                                       *)
ParamIsThere ==
  \A t \in Threads : worker[t] \in {"start", "failing", "serving"} => caller[t] = "wait"

(* Threads that initialise the user SDK or the IDC client at once start    *)
(* one worker between them (sdk_comm_if.cpp:78-90).                        *)
OneWorker ==
  sdk \in Locked => Cardinality({t \in Threads : worker[t] # "none"}) <= 1

(* The thread that started the worker is told 0 only if the worker came to *)
(* its loop: a failure inside the worker reaches the caller (user SDK and  *)
(* IDC client; sdk_comm_if.cpp:45, 57, 104-111).                           *)
FailureIsReported ==
  \A t \in Threads :
    sdk \in Locked /\ caller[t] = "ok" /\ event[t] => worker[t] \in {"running", "gone"} /\ appID[t] = "given"

(* What the service needs first, the callback or the addresses of the      *)
(* network, is in its queue before any request of the thread that started  *)
(* the worker, unless it was lost (client_api.cpp:22-34,                   *)
(* p2p_mq/mq_interface.cpp:108-110).                                       *)
InitIsFirst ==
  \A i \in DOMAIN queue :
    LET t == queue[i].from IN
    queue[i].kind # "init" /\ worker[t] = "running" /\ t \notin lost /\ sdk # "mq" =>
      \E j \in 1 .. i - 1 : queue[j] = [from |-> t, kind |-> "init"]

(* Every Init returns, whatever fails in it and whoever else calls it: the *)
(* lock is held for a test only, and every way through the thread function *)
(* signals the event. Assumes that the threads are scheduled.              *)
InitReturns ==
  \A t \in Threads : caller[t] \in {"spin", "locked", "first", "spawn", "wait"} ~> caller[t] \in {"ok", "failed"}

SdkFairness == \A t \in Threads : WF_sdkVars(CallerStep(t)) /\ WF_sdkVars(WorkerStep(t))

SdkSpec == SdkInit /\ [][SdkNext]_sdkVars /\ SdkFairness

(* What the thread that started the worker may rely on once it is told 0:  *)
(* its worker came to its loop, and what the service needs first is first. *)
ZeroMeansReady == FailureIsReported /\ InitIsFirst
=============================================================================
