--------------------------- MODULE LibraryProofs ---------------------------
(***************************************************************************)
(* Theorems about the parts that do not run inside the services: the start *)
(* of the SDKs, the agents of the message queue, the block cache, the      *)
(* Merkle tree, the encryption library, the key file and the watchdog.     *)
(***************************************************************************)
EXTENDS MqDirectory, ClientSdk, BlockCache, MerkelTree, EncryptLib, KeyStore,
        Watchdog, TypeArrayProofs, FiniteSetTheorems, WellFoundedInduction, TLAPS

-----------------------------------------------------------------------------
(* The start of the SDKs: one worker, which uses its caller's parameter    *)
(* only while the caller is there, and what a thread may rely on once it   *)
(* is told 0.                                                              *)
Places  == {"idle", "spin", "locked", "first", "spawn", "wait", "send", "ok", "failed"}
Workers == {"none", "start", "failing", "serving", "running", "gone"}
Message == [from : Threads, kind : {"init", "request", "sub"}]

SdkTypes ==
  /\ sdk \in Locked \cup {"mq", "p2p"}
  /\ lock \in Threads \cup {NoThread} /\ inited \in BOOLEAN
  /\ caller \in [Threads -> Places] /\ worker \in [Threads -> Workers]
  /\ event \in [Threads -> BOOLEAN] /\ appID \in [Threads -> {"given", "-1"}]
  /\ queue \in Seq(Message) /\ lost \subseteq Threads

(* A thread and the worker it started: the worker is busy only while the   *)
(* thread waits for it, and nothing is signalled before.                   *)
WorkerOfCaller ==
  \A t \in Threads :
    /\ worker[t] \in {"start", "failing", "serving"} => caller[t] = "wait" /\ ~event[t]
    /\ worker[t] = "none" => caller[t] # "wait" /\ ~event[t]
    /\ caller[t] \in {"idle", "spin", "locked", "first", "spawn"} => worker[t] = "none"
    /\ sdk \in Locked /\ caller[t] \in {"send", "ok"} /\ event[t] => appID[t] = "given"

(* A thread that starts a worker, or has started one, has found m_bInited  *)
(* unset and set it while it held the lock.                                *)
Starts(t) == caller[t] = "spawn" \/ worker[t] # "none"

FirstHoldsLock ==
  /\ \A t \in Threads : caller[t] \in {"locked", "first"} => lock = t
  /\ \A t \in Threads : caller[t] = "first" => ~inited
  /\ sdk \in Locked => \A t \in Threads : Starts(t) => inited
  /\ sdk \in Locked => \A t, u \in Threads : Starts(t) /\ Starts(u) => t = u

(* The first message of a thread whose worker runs is in the queue by the  *)
(* time the thread is told 0, unless it was lost.                          *)
HasInit(t) == \E j \in DOMAIN queue : queue[j] = [from |-> t, kind |-> "init"]

MustHaveInit(t) ==
  /\ t \notin lost /\ worker[t] = "running"
  /\ sdk = "p2p" \/ (sdk \in Locked /\ caller[t] = "ok")

InitInQueue ==
  /\ \A i \in DOMAIN queue : queue[i].kind # "init" => caller[queue[i].from] = "ok"
  /\ \A t \in Threads : MustHaveInit(t) => HasInit(t)
  /\ InitIsFirst

SdkInv == SdkTypes /\ WorkerOfCaller /\ FirstHoldsLock /\ InitInQueue

-----------------------------------------------------------------------------
LEMMA SdkInvInit == SdkInit => SdkInv
<1> SUFFICES ASSUME SdkInit PROVE SdkInv  OBVIOUS
<1>1. SdkTypes
  <2>1. <<>> \in Seq(Message)  OBVIOUS
  <2>2. QED BY <2>1 DEF SdkInit, SdkTypes, Places, Workers
<1>2. WorkerOfCaller  BY DEF SdkInit, WorkerOfCaller
<1>3. FirstHoldsLock  BY DEF SdkInit, FirstHoldsLock, Starts
<1>4. InitInQueue  BY DEF SdkInit, InitInQueue, MustHaveInit, InitIsFirst
<1>5. QED BY <1>1, <1>2, <1>3, <1>4 DEF SdkInv

(* What a request does: nothing, or a message at the end of the queue.     *)
LEMMA RequestPosts ==
  ASSUME NEW t \in Threads, Request(t)
  PROVE  /\ caller[t] = "ok"
         /\ UNCHANGED <<sdk, lock, inited, caller, worker, event, appID, lost, exited>>
         /\ \/ UNCHANGED queue
            \/ \E k \in {"request", "sub"} : queue' = Append(queue, [from |-> t, kind |-> k])
BY DEF Request, Asks, VbhRequest, UnRegistUser, CRequest, IdcRequest, MqRequest, P2pPub,
       SubP2pMqMsgID, Posted, NotPosted

-----------------------------------------------------------------------------
LEMMA TypeStep ==
  ASSUME SdkTypes, [SdkNext]_sdkVars
  PROVE  SdkTypes'
<1> USE DEF SdkTypes, Places, Workers, Locked
<1>1. ASSUME NEW t \in Threads, CallInit(t) \/ CallInitWithout(t) \/ TestAndSet(t) \/ TestInited(t)
                                \/ SetInited(t) \/ EventWaited(t)
      PROVE  SdkTypes'
  BY <1>1 DEF CallInit, CallInitWithout, TestAndSet, TestInited, SetInited, EventWaited
<1>2. ASSUME NEW t \in Threads, NEW ok \in BOOLEAN, Spawn(t, ok)
      PROVE  SdkTypes'
  BY <1>2 DEF Spawn
<1>3. ASSUME NEW t \in Threads, WorkerFails(t) \/ WorkerInits(t) \/ WorkerLeaves(t) \/ Fnit(t)
      PROVE  SdkTypes'
  BY <1>3 DEF WorkerFails, WorkerInits, WorkerLeaves, Fnit
<1>4. ASSUME NEW t \in Threads, WorkerSignals(t) \/ SendCallback(t)
      PROVE  SdkTypes'
  <2>1. queue' \in Seq(Message) /\ lost' \subseteq Threads
    <3>1. Append(queue, [from |-> t, kind |-> "init"]) \in Seq(Message)
      <4>1. [from |-> t, kind |-> "init"] \in Message  BY DEF Message
      <4>2. QED BY <4>1
    <3>2. QED BY <1>4, <3>1 DEF WorkerSignals, SendCallback, SendNetworkInfo, Posted, NotPosted
  <2>2. caller' \in [Threads -> Places] /\ worker' \in [Threads -> Workers] /\ event' \in [Threads -> BOOLEAN]
    BY <1>4 DEF WorkerSignals, SendCallback
  <2>3. QED BY <1>4, <2>1, <2>2 DEF WorkerSignals, SendCallback
<1>5. ASSUME NEW t \in Threads, Request(t)
      PROVE  SdkTypes'
  <2>1. queue' \in Seq(Message)
    <3>1. \A k \in {"request", "sub"} : Append(queue, [from |-> t, kind |-> k]) \in Seq(Message)
      <4>1. \A k \in {"request", "sub"} : [from |-> t, kind |-> k] \in Message  BY DEF Message
      <4>2. QED BY <4>1
    <3>2. QED BY <1>5, <3>1, RequestPosts
  <2>2. QED BY <1>5, <2>1, RequestPosts
<1>6. CASE UNCHANGED sdkVars
  BY <1>6 DEF sdkVars
<1>7. QED BY <1>1, <1>2, <1>3, <1>4, <1>5, <1>6 DEF SdkNext, CallerStep, WorkerStep

-----------------------------------------------------------------------------
LEMMA WorkerStepKeeps ==
  ASSUME SdkTypes, WorkerOfCaller, [SdkNext]_sdkVars
  PROVE  WorkerOfCaller'
<1> USE DEF SdkTypes, WorkerOfCaller, Places, Workers
<1>1. ASSUME NEW t \in Threads, CallInit(t) \/ CallInitWithout(t) \/ TestAndSet(t)
                                \/ SetInited(t)
      PROVE  WorkerOfCaller'
  BY <1>1 DEF CallInit, CallInitWithout, TestAndSet, SetInited
<1>2. ASSUME NEW t \in Threads, TestInited(t)
      PROVE  WorkerOfCaller'
  BY <1>2 DEF TestInited
<1>3. ASSUME NEW t \in Threads, NEW ok \in BOOLEAN, Spawn(t, ok)
      PROVE  WorkerOfCaller'
  BY <1>3 DEF Spawn
<1>4. ASSUME NEW t \in Threads, WorkerFails(t) \/ WorkerInits(t) \/ WorkerLeaves(t)
      PROVE  WorkerOfCaller'
  BY <1>4 DEF WorkerFails, WorkerInits, WorkerLeaves
<1>5. ASSUME NEW t \in Threads, WorkerSignals(t)
      PROVE  WorkerOfCaller'
  BY <1>5 DEF WorkerSignals
<1>6. ASSUME NEW t \in Threads, EventWaited(t)
      PROVE  WorkerOfCaller'
  BY <1>6 DEF EventWaited
<1>7. ASSUME NEW t \in Threads, SendCallback(t)
      PROVE  WorkerOfCaller'
  BY <1>7 DEF SendCallback
<1>8. ASSUME UNCHANGED <<sdk, caller, worker, event, appID>>
      PROVE  WorkerOfCaller'
  BY <1>8
<1>9. QED
  BY <1>1, <1>2, <1>3, <1>4, <1>5, <1>6, <1>7, <1>8, RequestPosts
     DEF SdkNext, CallerStep, WorkerStep, Fnit, sdkVars

-----------------------------------------------------------------------------
LEMMA LockStep ==
  ASSUME SdkTypes, WorkerOfCaller, FirstHoldsLock, [SdkNext]_sdkVars
  PROVE  FirstHoldsLock'
<1> USE DEF SdkTypes, FirstHoldsLock, Starts, Places, Workers
<1>1. ASSUME NEW t \in Threads, CallInit(t) \/ CallInitWithout(t) \/ EventWaited(t) \/ SendCallback(t)
      PROVE  FirstHoldsLock'
  BY <1>1 DEF CallInit, CallInitWithout, EventWaited, SendCallback
<1>2. ASSUME NEW t \in Threads, TestAndSet(t)
      PROVE  FirstHoldsLock'
  BY <1>2, ThreadsAssumption DEF TestAndSet
<1>3. ASSUME NEW t \in Threads, TestInited(t)
      PROVE  FirstHoldsLock'
  BY <1>3 DEF TestInited
<1>4. ASSUME NEW t \in Threads, SetInited(t)
      PROVE  FirstHoldsLock'
  BY <1>4 DEF SetInited
<1>5. ASSUME NEW t \in Threads, NEW ok \in BOOLEAN, Spawn(t, ok)
      PROVE  FirstHoldsLock'
  BY <1>5 DEF Spawn
<1>6. ASSUME NEW t \in Threads, WorkerFails(t) \/ WorkerInits(t) \/ WorkerLeaves(t) \/ WorkerSignals(t)
      PROVE  FirstHoldsLock'
  BY <1>6 DEF WorkerFails, WorkerInits, WorkerLeaves, WorkerSignals
<1>7. ASSUME UNCHANGED <<sdk, lock, inited, caller, worker>>
      PROVE  FirstHoldsLock'
  BY <1>7
<1>8. QED
  BY <1>1, <1>2, <1>3, <1>4, <1>5, <1>6, <1>7, RequestPosts
     DEF SdkNext, CallerStep, WorkerStep, Fnit, sdkVars

-----------------------------------------------------------------------------
(* The queue when it stays as it is, and when a message is put at its end. *)
LEMMA QueueSame ==
  ASSUME SdkTypes, SdkTypes', InitInQueue, UNCHANGED <<sdk, queue>>, lost \subseteq lost',
         \A t \in Threads : caller[t] = "ok" => caller'[t] = "ok",
         \A t \in Threads : caller[t] = "ok" /\ worker'[t] = "running" => worker[t] = "running",
         \A t \in Threads : MustHaveInit(t)' => MustHaveInit(t)
  PROVE  InitInQueue'
<1>1. \A i \in DOMAIN queue : queue[i].from \in Threads
  <2>1. \A i \in DOMAIN queue : queue[i] \in Message  BY DEF SdkTypes
  <2>2. QED BY <2>1 DEF Message
<1>2. InitIsFirst'  BY <1>1 DEF InitInQueue, InitIsFirst
<1>3. QED BY <1>1, <1>2 DEF InitInQueue, HasInit

LEMMA QueuePosted ==
  ASSUME SdkTypes, SdkTypes', InitInQueue, UNCHANGED sdk, lost \subseteq lost',
         NEW t \in Threads, NEW k \in {"init", "request", "sub"},
         queue' = Append(queue, [from |-> t, kind |-> k]),
         k # "init" => caller[t] = "ok",
         \A u \in Threads : caller[u] = "ok" => caller'[u] = "ok",
         \A u \in Threads : caller[u] = "ok" /\ worker'[u] = "running" => worker[u] = "running",
         \A u \in Threads : MustHaveInit(u)' => MustHaveInit(u) \/ (u = t /\ k = "init")
  PROVE  InitInQueue'
<1> DEFINE n == Len(queue) + 1
<1>1. /\ n \in Nat /\ DOMAIN queue = 1 .. n - 1 /\ DOMAIN queue' = 1 .. n
      /\ \A i \in 1 .. n - 1 : queue'[i] = queue[i]
      /\ queue'[n] = [from |-> t, kind |-> k]
      /\ \A i \in DOMAIN queue : queue[i].from \in Threads
  <2>1. queue \in Seq(Message)  BY DEF SdkTypes
  <2>2. \A i \in DOMAIN queue : queue[i] \in Message  BY <2>1
  <2>3. \A i \in DOMAIN queue : queue[i].from \in Threads  BY <2>2 DEF Message
  <2>4. QED BY <2>1, <2>3
<1> HIDE DEF n
<1>2. \A i \in DOMAIN queue' : queue'[i].kind # "init" => caller'[queue'[i].from] = "ok"
  BY <1>1 DEF InitInQueue
<1>3. \A u \in Threads : HasInit(u) \/ (u = t /\ k = "init") => HasInit(u)'
  BY <1>1 DEF HasInit
<1>4. InitIsFirst'
  <2> SUFFICES ASSUME NEW i \in DOMAIN queue', queue'[i].kind # "init",
                      worker'[queue'[i].from] = "running", queue'[i].from \notin lost', sdk' # "mq"
               PROVE  \E j \in 1 .. i - 1 : queue'[j] = [from |-> queue'[i].from, kind |-> "init"]
    BY DEF InitIsFirst
  <2>1. CASE i # n
    <3>1. i \in DOMAIN queue /\ queue'[i] = queue[i]  BY <1>1, <2>1
    <3>2. caller[queue[i].from] = "ok" /\ queue[i].from \in Threads  BY <1>1, <3>1 DEF InitInQueue
    <3>3. \E j \in 1 .. i - 1 : queue[j] = [from |-> queue[i].from, kind |-> "init"]
      BY <3>1, <3>2 DEF InitInQueue, InitIsFirst
    <3>4. QED BY <1>1, <3>1, <3>3
  <2>2. CASE i = n
    <3>1. k # "init" /\ queue'[i].from = t /\ caller[t] = "ok" /\ worker[t] = "running" /\ t \notin lost
      BY <1>1, <2>2
    <3>2. MustHaveInit(t)
      BY <3>1 DEF MustHaveInit, SdkTypes
    <3>3. HasInit(t)  BY <3>2 DEF InitInQueue
    <3>4. QED BY <1>1, <2>2, <3>1, <3>3 DEF HasInit
  <2>3. QED BY <2>1, <2>2
<1>5. QED BY <1>2, <1>3, <1>4 DEF InitInQueue

LEMMA QueueStep ==
  ASSUME SdkTypes, WorkerOfCaller, InitInQueue, [SdkNext]_sdkVars
  PROVE  InitInQueue'
<1>0. SdkTypes'  BY TypeStep
<1> USE DEF SdkTypes, WorkerOfCaller, MustHaveInit
<1>1. ASSUME NEW t \in Threads, CallInit(t) \/ CallInitWithout(t) \/ TestAndSet(t) \/ TestInited(t)
                                \/ SetInited(t) \/ \E ok \in BOOLEAN : Spawn(t, ok)
      PROVE  InitInQueue'
  BY <1>0, <1>1, QueueSame
     DEF CallInit, CallInitWithout, TestAndSet, TestInited, SetInited, Spawn
<1>2. ASSUME NEW t \in Threads, WorkerFails(t) \/ WorkerInits(t) \/ WorkerLeaves(t) \/ Fnit(t)
      PROVE  InitInQueue'
  BY <1>0, <1>2, QueueSame DEF WorkerFails, WorkerInits, WorkerLeaves, Fnit
<1>3. ASSUME NEW t \in Threads, EventWaited(t)
      PROVE  InitInQueue'
  BY <1>0, <1>3, QueueSame DEF EventWaited
<1>4. ASSUME NEW t \in Threads, WorkerSignals(t)
      PROVE  InitInQueue'
  <2>1. UNCHANGED <<sdk, caller>> /\ caller[t] = "wait" /\ \A u \in Threads \ {t} : worker'[u] = worker[u]
    BY <1>4 DEF WorkerSignals
  <2>2. CASE sdk = "p2p" /\ Posted(t, "init") /\ UNCHANGED lost
    <3>1. queue' = Append(queue, [from |-> t, kind |-> "init"])  BY <2>2 DEF Posted
    <3>2. \A u \in Threads : MustHaveInit(u)' => MustHaveInit(u) \/ u = t  BY <2>1, <2>2
    <3>3. QED BY <1>0, <2>1, <2>2, <3>1, <3>2, QueuePosted
  <2>3. CASE UNCHANGED queue
    <3>1. lost \subseteq lost' /\ (MustHaveInit(t)' => MustHaveInit(t))
      BY <1>4, <2>1, <2>3 DEF WorkerSignals, SendNetworkInfo, Posted, Locked
    <3>2. \A u \in Threads : MustHaveInit(u)' => MustHaveInit(u)  BY <2>1, <3>1
    <3>3. QED BY <1>0, <2>1, <2>3, <3>1, <3>2, QueueSame
  <2>4. QED BY <1>4, <2>2, <2>3 DEF WorkerSignals, SendNetworkInfo, NotPosted
<1>5. ASSUME NEW t \in Threads, SendCallback(t)
      PROVE  InitInQueue'
  <2>1. /\ UNCHANGED <<sdk, worker>> /\ caller[t] = "send" /\ \A u \in Threads \ {t} : caller'[u] = caller[u]
    BY <1>5 DEF SendCallback
  <2>2. CASE Posted(t, "init") /\ UNCHANGED lost
    <3>1. queue' = Append(queue, [from |-> t, kind |-> "init"])  BY <2>2 DEF Posted
    <3>2. \A u \in Threads : MustHaveInit(u)' => MustHaveInit(u) \/ u = t  BY <2>1, <2>2
    <3>3. QED BY <1>0, <2>1, <2>2, <3>1, <3>2, QueuePosted
  <2>3. CASE UNCHANGED queue /\ lost' = lost \cup {t}
    <3>1. \A u \in Threads : MustHaveInit(u)' => MustHaveInit(u)  BY <2>1, <2>3
    <3>2. QED BY <1>0, <2>1, <2>3, <3>1, QueueSame
  <2>4. QED BY <1>5, <2>2, <2>3 DEF SendCallback, NotPosted
<1>6. ASSUME NEW t \in Threads, Request(t)
      PROVE  InitInQueue'
  <2>1. caller[t] = "ok" /\ UNCHANGED <<sdk, caller, worker, lost>>  BY <1>6, RequestPosts
  <2>2. \A u \in Threads : MustHaveInit(u)' => MustHaveInit(u)  BY <2>1
  <2>3. CASE UNCHANGED queue
    BY <1>0, <2>1, <2>2, <2>3, QueueSame
  <2>4. ASSUME NEW k \in {"request", "sub"}, queue' = Append(queue, [from |-> t, kind |-> k])
        PROVE  InitInQueue'
    BY <1>0, <2>1, <2>2, <2>4, QueuePosted
  <2>5. QED BY <1>6, <2>3, <2>4, RequestPosts
<1>7. CASE UNCHANGED sdkVars
  BY <1>0, <1>7, QueueSame DEF sdkVars
<1>8. QED
  BY <1>1, <1>2, <1>3, <1>4, <1>5, <1>6, <1>7 DEF SdkNext, CallerStep, WorkerStep

-----------------------------------------------------------------------------
LEMMA SdkInvStep == SdkInv /\ [SdkNext]_sdkVars => SdkInv'
BY TypeStep, WorkerStepKeeps, LockStep, QueueStep DEF SdkInv

LEMMA SdkInvariant == SdkSpec => []SdkInv
BY SdkInvInit, SdkInvStep, PTL DEF SdkSpec

(* The parameter on the stack of the caller is there whenever the worker   *)
(* may use it (sdk_comm_if.cpp:95-103).                                    *)
THEOREM ParamStays == SdkSpec => []ParamIsThere
<1>1. SdkInv => ParamIsThere  BY DEF SdkInv, WorkerOfCaller, ParamIsThere
<1>2. QED BY <1>1, SdkInvariant, PTL

(* However many threads initialise at once, one worker is started          *)
(* (sdk_comm_if.cpp:76-90).                                                *)
THEOREM StartsOneWorker == SdkSpec => []OneWorker
<1>1. SdkInv => OneWorker
  <2> SUFFICES ASSUME SdkInv, sdk \in Locked
               PROVE  Cardinality({t \in Threads : worker[t] # "none"}) <= 1
    BY DEF OneWorker
  <2> DEFINE W == {t \in Threads : worker[t] # "none"}
  <2>1. \A t, u \in W : t = u  BY DEF SdkInv, FirstHoldsLock, Starts
  <2>2. W = {} \/ \E t \in W : W = {t}  BY <2>1
  <2>3. QED BY <2>2, FS_EmptySet, FS_Singleton
<1>2. QED BY <1>1, SdkInvariant, PTL

(* A thread that started the worker and is told 0 has a worker that came   *)
(* to its loop, and the first message the services need is first in their  *)
(* queue (sdk_comm_if.cpp:104-111, p2p_mq/mq_interface.cpp:108-112).       *)
THEOREM ZeroIsMeant == SdkSpec => []ZeroMeansReady
<1>1. SdkInv => ZeroMeansReady
  BY DEF SdkInv, SdkTypes, Workers, WorkerOfCaller, InitInQueue, ZeroMeansReady, FailureIsReported
<1>2. QED BY <1>1, SdkInvariant, PTL

-----------------------------------------------------------------------------
(* An array of connections has as many elements as places.                 *)
LEMMA ManyElements ==
  ASSUME NEW S, NEW a, Sound(S, a)
  PROVE  Cardinality(Elements(a)) = Len(a.items)
<1>1. a.items \in Seq(S) /\ Len(a.items) \in Nat /\ DOMAIN a.items = 1 .. Len(a.items)
  BY DEF Sound, ArrayOf
<1>2. \A i, j \in DOMAIN a.items : a.items[i] = a.items[j] => i = j  BY DEF Sound, Once
<1>3. \A x : x \in Elements(a) <=> \E i \in DOMAIN a.items : a.items[i] = x  BY DEF Elements
<1> DEFINE T == 1 .. Len(a.items)
           f == [i \in T |-> a.items[i]]
<1>4. f \in Bijection(T, Elements(a))
  BY <1>1, <1>2, <1>3 DEF Bijection, Injection, Surjection, IsInjective
<1>5. ExistsBijection(1 .. Len(a.items), Elements(a))  BY <1>4 DEF ExistsBijection
<1>6. QED BY <1>1, <1>5, FS_CountingElements

(* The agents of the message queue: what an agent deals and what it says   *)
(* agree with its connections.                                             *)
ArraysSound ==
  \A a \in Agents :
    /\ Sound(Forwarders, array[a])
    /\ Elements(array[a]) = {f \in Forwarders : known[a][f] = "connected"}

DirInv == TypeOK /\ ArraysSound /\ SaysReady

LEMMA DirInit == Init => DirInv
<1> SUFFICES ASSUME Init PROVE DirInv  OBVIOUS
<1> USE DEF Init, SchedulerInit, ForwarderInit, AgentInit
<1>1. EmptyArray \in [items : Seq(Forwarders), nIndex : Nat] /\ EmptyArray.items = <<>>
      /\ Elements(EmptyArray) = {} /\ Sound(Forwarders, EmptyArray)
  BY EmptySound DEF EmptyArray
<1>2. TypeOK  BY <1>1, GivenAssumption, MaxFaultsAssumption DEF TypeOK
<1>3. ArraysSound /\ SaysReady  BY <1>1 DEF ArraysSound, SaysReady
<1>4. QED BY <1>2, <1>3 DEF DirInv

(* What another part of the system does, an agent does not notice.         *)
LEMMA AgentSame ==
  ASSUME DirInv, TypeOK', array' = array, known' = known, said' = said
  PROVE  DirInv'
BY DEF DirInv, ArraysSound, SaysReady

(* One agent changes its array and its map of forwarders.                  *)
LEMMA AgentChanges ==
  ASSUME DirInv, TypeOK', NEW a \in Agents,
         Sound(Forwarders, array'[a]),
         Elements(array'[a]) = {f \in Forwarders : known'[a][f] = "connected"},
         array'[a].items # <<>> => said'[a] = "ready",
         \A b \in Agents \ {a} : array'[b] = array[b] /\ known'[b] = known[b] /\ said'[b] = said[b]
  PROVE  DirInv'
BY DEF DirInv, ArraysSound, SaysReady

LEMMA FaultType == TypeOK /\ (Fault \/ UNCHANGED faults) => faults' \in 0 .. MaxFaults
BY MaxFaultsAssumption DEF TypeOK, Fault

LEMMA EndsTypes ==
  ASSUME TypeOK, NEW f \in Forwarders, Ends(f)
  PROVE  /\ node' \in [Forwarders -> {"none", "joining", "joined"}]
         /\ unseen' \in [Forwarders -> Nat] /\ overtaken' = overtaken
BY DEF Ends, TypeOK

LEMMA SchedulerKeeps ==
  ASSUME DirInv,
         \/ \E a \in Agents : OnRegMqClientAddrReq(a) \/ OnSchedulerConnected(a) \/ OnSchedulerLost(a)
         \/ \E f \in Forwarders : \/ OnRegistMqForwarderServiceReq(f) \/ OnConnected(f)
                                  \/ OnDisConnected(f) \/ ForwarderStarts(f) \/ ForwarderStops(f)
                                  \/ ForwarderDisconnected(f)
         \/ SchedulerRestarts
  PROVE  DirInv'
<1> DEFINE Messages == [clientID : Nat, forwarders : SUBSET Forwarders]
<1>1. TypeOK  BY DEF DirInv
<1>2. ASSUME NEW a \in Agents, OnRegMqClientAddrReq(a) PROVE DirInv'
  <2> DEFINE new == IF id[a] # 0 THEN id[a] ELSE AllocClientID
  <2>1. new \in Nat /\ addrs \subseteq Forwarders /\ AllocClientID \in Nat
    BY <1>1 DEF TypeOK, AllocClientID
  <2>2. CRegMqClientAddrRsp(new, addrs) \in Messages  BY <2>1 DEF CRegMqClientAddrRsp
  <2>3. inbox' = [inbox EXCEPT ![a] = Append(@, CRegMqClientAddrRsp(new, addrs))]
    BY <1>2 DEF OnRegMqClientAddrReq
  <2> HIDE DEF new, Messages
  <2>4. inbox \in [Agents -> Seq(Messages)]  BY <1>1 DEF TypeOK, Messages
  <2>5. inbox' \in [Agents -> Seq(Messages)]  BY <2>2, <2>3, <2>4
  <2>6. lastID' \in Nat  BY <1>1, <1>2, <2>1 DEF OnRegMqClientAddrReq, TypeOK
  <2>7. TypeOK'
    BY <1>1, <1>2, <2>5, <2>6 DEF OnRegMqClientAddrReq, TypeOK, agent, Messages, forwarder
  <2>8. QED BY <1>2, <2>7, AgentSame DEF OnRegMqClientAddrReq, agent
<1>3. ASSUME NEW a \in Agents, OnSchedulerConnected(a) PROVE DirInv'
  <2>1. TypeOK'  BY <1>1, <1>3 DEF OnSchedulerConnected, TypeOK, agent, scheduler, forwarder
  <2>2. QED BY <1>3, <2>1, AgentSame DEF OnSchedulerConnected, agent
<1>4. ASSUME NEW a \in Agents, OnSchedulerLost(a) PROVE DirInv'
  <2>1. inbox' \in [Agents -> Seq(Messages)]
    <3> <<>> \in Seq(Messages)  OBVIOUS
    <3> HIDE DEF Messages
    <3>1. inbox \in [Agents -> Seq(Messages)]  BY <1>1 DEF TypeOK, Messages
    <3>2. inbox' = [inbox EXCEPT ![a] = <<>>]  BY <1>4 DEF OnSchedulerLost
    <3>3. QED BY <3>1, <3>2
  <2>2. faults' \in 0 .. MaxFaults  BY <1>1, <1>4, FaultType DEF OnSchedulerLost
  <2>3. TypeOK'  BY <1>1, <1>4, <2>1, <2>2 DEF OnSchedulerLost, TypeOK, agent, scheduler, forwarder
  <2>4. QED BY <1>4, <2>3, AgentSame DEF OnSchedulerLost, agent
<1>5. ASSUME NEW f \in Forwarders, OnRegistMqForwarderServiceReq(f) PROVE DirInv'
  <2>1. CAddForwarderAddrNotify(f) \in Messages  BY DEF CAddForwarderAddrNotify
  <2>2. inbox' \in [Agents -> Seq(Messages)]
    <3> HIDE DEF Messages
    <3>1. inbox \in [Agents -> Seq(Messages)]  BY <1>1 DEF TypeOK, Messages
    <3>2. \A a \in Agents : inbox[a] \in Seq(Messages)
                            /\ Append(inbox[a], CAddForwarderAddrNotify(f)) \in Seq(Messages)
      BY <2>1, <3>1
    <3>3. CASE f \notin addrs
      <4>1. inbox' = [a \in Agents |->
                   IF a \in handles THEN Append(inbox[a], CAddForwarderAddrNotify(f)) ELSE inbox[a]]
        BY <1>5, <3>3 DEF OnRegistMqForwarderServiceReq
      <4>2. QED BY <3>2, <4>1
    <3>4. CASE f \in addrs  BY <1>5, <3>1, <3>4 DEF OnRegistMqForwarderServiceReq
    <3>5. QED BY <3>3, <3>4
  <2>3. addrs' \subseteq Forwarders /\ overtaken' \subseteq Forwarders
    BY <1>1, <1>5 DEF OnRegistMqForwarderServiceReq, TypeOK
  <2>4. TypeOK'  BY <1>1, <1>5, <2>2, <2>3 DEF OnRegistMqForwarderServiceReq, TypeOK, agent
  <2>5. QED BY <1>5, <2>4, AgentSame DEF OnRegistMqForwarderServiceReq, agent
<1>6. ASSUME NEW f \in Forwarders, OnConnected(f) PROVE DirInv'
  <2>1. TypeOK'  BY <1>1, <1>6 DEF OnConnected, TypeOK, agent, scheduler
  <2>2. QED BY <1>6, <2>1, AgentSame DEF OnConnected, agent
<1>7. ASSUME NEW f \in Forwarders, OnDisConnected(f) PROVE DirInv'
  <2>1. unseen' \in [Forwarders -> Nat] /\ overtaken' \subseteq Forwarders
    BY <1>1, <1>7 DEF OnDisConnected, TypeOK
  <2>2. TypeOK'  BY <1>1, <1>7, <2>1 DEF OnDisConnected, TypeOK, agent
  <2>3. QED BY <1>7, <2>2, AgentSame DEF OnDisConnected, agent
<1>8. ASSUME NEW f \in Forwarders, ForwarderStarts(f) PROVE DirInv'
  <2>1. TypeOK'  BY <1>1, <1>8 DEF ForwarderStarts, TypeOK, agent, scheduler, forwarder
  <2>2. QED BY <1>8, <2>1, AgentSame DEF ForwarderStarts, agent
<1>9. ASSUME NEW f \in Forwarders, ForwarderStops(f) PROVE DirInv'
  <2>1. faults' \in 0 .. MaxFaults  BY <1>1, <1>9, FaultType DEF ForwarderStops
  <2>2. farewell' \subseteq Forwarders \X Agents
    BY <1>1, <1>9 DEF ForwarderStops, TypeOK, CDelForwarderAddrNotify
  <2>3. /\ node' \in [Forwarders -> {"none", "joining", "joined"}]
        /\ unseen' \in [Forwarders -> Nat] /\ overtaken' = overtaken
    BY <1>1, <1>9, EndsTypes DEF ForwarderStops
  <2>4. TypeOK'  BY <1>1, <1>9, <2>1, <2>2, <2>3 DEF ForwarderStops, TypeOK, agent, scheduler
  <2>5. QED BY <1>9, <2>4, AgentSame DEF ForwarderStops, agent
<1>10. CASE SchedulerRestarts
  <2>1. inbox' \in [Agents -> Seq(Messages)]  BY <1>10 DEF SchedulerRestarts
  <2>2. faults' \in 0 .. MaxFaults  BY <1>1, <1>10, FaultType DEF SchedulerRestarts
  <2>3. TypeOK'  BY <1>1, <1>10, <2>1, <2>2 DEF SchedulerRestarts, TypeOK, agent
  <2>4. QED BY <1>10, <2>3, AgentSame DEF SchedulerRestarts, agent
<1>11. ASSUME NEW f \in Forwarders, ForwarderDisconnected(f) PROVE DirInv'
  <2>1. faults' \in 0 .. MaxFaults  BY <1>1, <1>11, FaultType DEF ForwarderDisconnected
  <2>2. /\ node' \in [Forwarders -> {"none", "joining", "joined"}]
        /\ unseen' \in [Forwarders -> Nat] /\ overtaken' = overtaken
    BY <1>1, <1>11, EndsTypes DEF ForwarderDisconnected
  <2>3. TypeOK'  BY <1>1, <1>11, <2>1, <2>2 DEF ForwarderDisconnected, TypeOK, agent, scheduler
  <2>4. QED BY <1>11, <2>3, AgentSame DEF ForwarderDisconnected, agent
<1>12. QED BY <1>2, <1>3, <1>4, <1>5, <1>6, <1>7, <1>8, <1>9, <1>10, <1>11

LEMMA TypesKept ==
  ASSUME TypeOK, array' \in [Agents -> ArrayOf(Forwarders)],
         known' \in [Agents -> [Forwarders -> {"unknown", "waiting", "connected"}]],
         said' \in [Agents -> {"none", "ready", "abnormal"}],
         faults' \in 0 .. MaxFaults, farewell' \subseteq Forwarders \X Agents,
         scheduler' = scheduler, up' = up, forwarder' = forwarder, asking' = asking,
         inbox' = inbox, id' = id
  PROVE  TypeOK'
<1>1. array' \in [Agents -> [items : Seq(Forwarders), nIndex : Nat]]  BY DEF ArrayOf
<1> DEFINE Messages == [clientID : Nat, forwarders : SUBSET Forwarders]
           Arrays == [items : Seq(Forwarders), nIndex : Nat]
<1>2. inbox \in [Agents -> Seq(Messages)]  BY DEF TypeOK
<1>3. /\ addrs \subseteq Forwarders /\ handles \subseteq Agents /\ lastID \in Nat
      /\ up \subseteq Forwarders /\ asking \subseteq Agents /\ id \in [Agents -> Nat]
      /\ node \in [Forwarders -> {"none", "joining", "joined"}]
      /\ unseen \in [Forwarders -> Nat] /\ overtaken \subseteq Forwarders
      /\ farewell \subseteq Forwarders \X Agents /\ faults \in 0 .. MaxFaults
  BY DEF TypeOK
<1>4. array' \in [Agents -> Arrays] /\ inbox' \in [Agents -> Seq(Messages)]  BY <1>1, <1>2
<1> HIDE DEF Messages, Arrays
<1>5. QED BY <1>3, <1>4 DEF TypeOK, scheduler, forwarder, Messages, Arrays

LEMMA AgentKeeps ==
  ASSUME DirInv, NEW a \in Agents, NEW f \in Forwarders,
         OnForwarderConnected(a, f) \/ OnForwarderLost(a, f) \/ OnDelForwarderAddr(a, f)
  PROVE  DirInv'
<1> DEFINE arr == array[a]
           now(b) == {g \in Forwarders : known[b][g] = "connected"}
<1>1. /\ TypeOK /\ Sound(Forwarders, arr) /\ Elements(arr) = now(a)
      /\ arr.items # <<>> => said[a] = "ready"
  BY DEF DirInv, ArraysSound, SaysReady
<1>2. /\ array \in [Agents -> ArrayOf(Forwarders)] /\ said \in [Agents -> {"none", "ready", "abnormal"}]
      /\ known \in [Agents -> [Forwarders -> {"unknown", "waiting", "connected"}]]
  BY <1>1 DEF TypeOK, ArrayOf
<1>3. CASE OnForwarderConnected(a, f)
  <2>1. /\ known[a][f] = "waiting" /\ known' = [known EXCEPT ![a][f] = "connected"]
        /\ array' = [array EXCEPT ![a] = Insert(@, f)]
        /\ said' = [said EXCEPT ![a] = IF Len(array'[a].items) = 1 THEN "ready" ELSE @]
    BY <1>3 DEF OnForwarderConnected
  <2>2. /\ Sound(Forwarders, Insert(arr, f)) /\ Elements(Insert(arr, f)) = Elements(arr) \cup {f}
    BY <1>1, InsertSound
  <2>3. /\ array'[a] = Insert(arr, f) /\ array' \in [Agents -> ArrayOf(Forwarders)]
        /\ \A b \in Agents \ {a} : array'[b] = array[b]
    BY <1>2, <2>1, <2>2 DEF Sound
  <2>4. /\ \A b \in Agents \ {a} : known'[b] = known[b] /\ said'[b] = said[b]
        /\ known'[a] = [known[a] EXCEPT ![f] = "connected"]
        /\ said'[a] = IF Len(array'[a].items) = 1 THEN "ready" ELSE said[a]
    BY <1>2, <2>1
  <2>5. Elements(array'[a]) = now(a)'  BY <1>1, <1>2, <2>2, <2>3, <2>4
  <2>6. said'[a] = "ready"
    <3>1. CASE arr.items = <<>>
      <4>1. f \notin Elements(arr)  BY <1>1, <2>1
      <4>2. array'[a].items = <<f>>  BY <1>1, <2>3, <3>1, <4>1 DEF Insert, Sound, ArrayOf
      <4>3. Len(array'[a].items) = 1  BY <4>2
      <4>4. QED BY <2>4, <4>3
    <3>2. CASE arr.items # <<>>  BY <1>1, <2>4, <3>2
    <3>3. QED BY <3>1, <3>2
  <2>7. known' \in [Agents -> [Forwarders -> {"unknown", "waiting", "connected"}]]
        /\ said' \in [Agents -> {"none", "ready", "abnormal"}]
    BY <1>2, <2>1
  <2>8. TypeOK'
    <3>1. /\ scheduler' = scheduler /\ up' = up /\ forwarder' = forwarder /\ asking' = asking
          /\ inbox' = inbox /\ id' = id /\ faults' = faults /\ farewell' = farewell
      BY <1>3 DEF OnForwarderConnected
    <3>2. faults' \in 0 .. MaxFaults /\ farewell' \subseteq Forwarders \X Agents
      BY <1>1, <3>1 DEF TypeOK
    <3>3. QED BY <1>1, <2>3, <2>7, <3>1, <3>2, TypesKept
  <2>9. QED BY <2>2, <2>3, <2>4, <2>5, <2>6, <2>8, AgentChanges
<1>4. CASE OnForwarderLost(a, f) \/ OnDelForwarderAddr(a, f)
  <2>1. PICK k \in {"unknown", "waiting"} :
        /\ known' = [known EXCEPT ![a][f] = k]
        /\ array' = [array EXCEPT ![a] = Delete(@, f)]
        /\ \/ said' = [said EXCEPT ![a] = IF array'[a].items = <<>> THEN "abnormal" ELSE @]
           \/ said' = said
    BY <1>4 DEF OnForwarderLost, OnDelForwarderAddr
  <2>2. Sound(Forwarders, Delete(arr, f)) /\ Elements(Delete(arr, f)) = Elements(arr) \ {f}
    BY <1>1, DeleteSound
  <2>3. /\ array'[a] = Delete(arr, f) /\ array' \in [Agents -> ArrayOf(Forwarders)]
        /\ \A b \in Agents \ {a} : array'[b] = array[b]
    BY <1>2, <2>1, <2>2 DEF Sound
  <2>4. /\ \A b \in Agents \ {a} : known'[b] = known[b] /\ said'[b] = said[b]
        /\ known'[a] = [known[a] EXCEPT ![f] = k]
        /\ array'[a].items # <<>> => said'[a] = said[a]
    BY <1>2, <2>1
  <2>5. Elements(array'[a]) = now(a)'  BY <1>1, <1>2, <2>2, <2>3, <2>4
  <2>6. array'[a].items # <<>> => arr.items # <<>>
    <3>1. Elements(array'[a]) \subseteq Elements(arr) /\ array'[a] \in ArrayOf(Forwarders)
          /\ arr \in ArrayOf(Forwarders)
      <4>1. arr \in ArrayOf(Forwarders)  BY <1>2
      <4>2. array'[a] \in ArrayOf(Forwarders)  BY <2>2, <2>3 DEF Sound
      <4> HIDE DEF arr
      <4>3. QED BY <2>2, <2>3, <4>1, <4>2
    <3>2. QED BY <3>1, NoElements
  <2>7. known' \in [Agents -> [Forwarders -> {"unknown", "waiting", "connected"}]]
        /\ said' \in [Agents -> {"none", "ready", "abnormal"}]
    BY <1>2, <2>1
  <2>8. faults' \in 0 .. MaxFaults
    BY <1>1, <1>4, FaultType DEF OnForwarderLost, OnDelForwarderAddr
  <2>9. farewell' \subseteq Forwarders \X Agents
    BY <1>1, <1>4 DEF OnForwarderLost, OnDelForwarderAddr, TypeOK
  <2>10. /\ scheduler' = scheduler /\ up' = up /\ forwarder' = forwarder /\ asking' = asking
         /\ inbox' = inbox /\ id' = id
    BY <1>4 DEF OnForwarderLost, OnDelForwarderAddr
  <2>11. TypeOK'
    BY <1>1, <2>3, <2>7, <2>8, <2>9, <2>10, TypesKept
  <2>12. QED BY <1>1, <2>2, <2>3, <2>4, <2>5, <2>6, <2>11, AgentChanges
<1>5. QED BY <1>3, <1>4

LEMMA AddrsKeep ==
  ASSUME DirInv, NEW a \in Agents, OnForwarderAddrs(a)
  PROVE  DirInv'
<1> DEFINE Messages == [clientID : Nat, forwarders : SUBSET Forwarders]
           msg == Head(inbox[a])
<1>1. TypeOK  BY DEF DirInv
<1>2. inbox \in [Agents -> Seq(Messages)]  BY <1>1 DEF TypeOK
<1>3. msg \in Messages
  <2> HIDE DEF Messages
  <2>1. inbox[a] \in Seq(Messages) /\ inbox[a] # <<>>  BY <1>2 DEF OnForwarderAddrs
  <2>2. QED BY <2>1
<1>4. msg.clientID \in Nat  BY <1>3
<1>5. /\ known' = [known EXCEPT ![a] = [f \in Forwarders |->
                        IF f \in msg.forwarders /\ @[f] = "unknown" THEN "waiting" ELSE @[f]]]
      /\ id' = [id EXCEPT ![a] = IF @ = 0 THEN msg.clientID ELSE @]
      /\ inbox' = [inbox EXCEPT ![a] = Tail(@)]
  BY DEF OnForwarderAddrs
<1>6. inbox' \in [Agents -> Seq(Messages)]
  <2> HIDE DEF Messages
  <2>1. inbox[a] \in Seq(Messages) /\ inbox[a] # <<>>  BY <1>2 DEF OnForwarderAddrs
  <2>2. Tail(inbox[a]) \in Seq(Messages)  BY <2>1
  <2>3. QED BY <1>2, <1>5, <2>2
<1> HIDE DEF msg
<1>7. known \in [Agents -> [Forwarders -> {"unknown", "waiting", "connected"}]]
      /\ id \in [Agents -> Nat]
  BY <1>1 DEF TypeOK
<1>8. known' \in [Agents -> [Forwarders -> {"unknown", "waiting", "connected"}]]
      /\ id' \in [Agents -> Nat]
  BY <1>4, <1>5, <1>7
<1>9. TypeOK'  BY <1>1, <1>6, <1>8 DEF OnForwarderAddrs, TypeOK, scheduler, forwarder
<1>10. \A b \in Agents \ {a} : known'[b] = known[b]  BY <1>5, <1>7
<1>11. \A f \in Forwarders : known'[a][f] = "connected" <=> known[a][f] = "connected"
  BY <1>5, <1>7
<1>12. array' = array /\ said' = said  BY DEF OnForwarderAddrs
<1>13. Elements(array'[a]) = {f \in Forwarders : known'[a][f] = "connected"}
  BY <1>11, <1>12 DEF DirInv, ArraysSound
<1>14. QED BY <1>9, <1>10, <1>12, <1>13, AgentChanges DEF DirInv, ArraysSound, SaysReady

LEMMA SendKeeps ==
  ASSUME DirInv, NEW a \in Agents, SendDscMsg(a)
  PROVE  DirInv'
<1>1. TypeOK /\ Sound(Forwarders, array[a])  BY DEF DirInv, ArraysSound
<1>2. /\ Sound(Forwarders, Rotated(array[a])) /\ Rotated(array[a]).items = array[a].items
      /\ Elements(Rotated(array[a])) = Elements(array[a])
  BY <1>1, RotatedSound
<1>3. array' = [array EXCEPT ![a] = Rotated(@)] /\ known' = known /\ said' = said
  BY DEF SendDscMsg
<1>4. array \in [Agents -> ArrayOf(Forwarders)]  BY <1>1 DEF TypeOK, ArrayOf
<1>5. /\ array'[a] = Rotated(array[a]) /\ array' \in [Agents -> ArrayOf(Forwarders)]
      /\ \A b \in Agents \ {a} : array'[b] = array[b]
  BY <1>2, <1>3, <1>4 DEF Sound
<1>6. TypeOK'
  <2>1. /\ scheduler' = scheduler /\ up' = up /\ forwarder' = forwarder /\ asking' = asking
        /\ inbox' = inbox /\ id' = id /\ faults' = faults /\ farewell' = farewell
        /\ known' = known /\ said' = said
    BY DEF SendDscMsg
  <2>2. faults' \in 0 .. MaxFaults /\ farewell' \subseteq Forwarders \X Agents
        /\ known' \in [Agents -> [Forwarders -> {"unknown", "waiting", "connected"}]]
        /\ said' \in [Agents -> {"none", "ready", "abnormal"}]
    BY <1>1, <2>1 DEF TypeOK
  <2>3. QED BY <1>1, <1>5, <2>1, <2>2, TypesKept
<1>7. QED BY <1>2, <1>3, <1>5, <1>6, AgentChanges DEF DirInv, ArraysSound, SaysReady

LEMMA DirStep == DirInv /\ [Next]_vars => DirInv'
<1> SUFFICES ASSUME DirInv, [Next]_vars PROVE DirInv'  OBVIOUS
<1>1. CASE UNCHANGED vars
  BY <1>1 DEF vars, scheduler, forwarder, agent, DirInv, TypeOK, ArraysSound, SaysReady
<1>2. QED BY <1>1, SchedulerKeeps, AgentKeeps, AddrsKeep, SendKeeps
          DEF Next, AgentStep, ForwarderStep

(* An agent deals the forwarders it is connected to, each from one place,  *)
(* and the last thing it told its application is true of them, over all    *)
(* restarts, farewells and losses                                          *)
(* (mq_client_sdk_agent_service.cpp:87-290).                               *)
THEOREM AgentsStayInAgreement == Spec => []AgentsAgree
<1>1. DirInv => AgentsAgree
  <2> SUFFICES ASSUME DirInv PROVE DealsConnected  BY DEF DirInv, AgentsAgree
  <2>1. ASSUME NEW a \in Agents
        PROVE  /\ Elements(array[a]) = {f \in Forwarders : known[a][f] = "connected"}
               /\ Len(array[a].items) = Cardinality(Elements(array[a]))
               /\ array[a].nIndex < Len(array[a].items) \/ array[a].nIndex = 0
    <3>1. Sound(Forwarders, array[a])  BY DEF DirInv, ArraysSound
    <3>2. QED BY <3>1, ManyElements DEF DirInv, ArraysSound, Sound, IndexInside
  <2>2. QED BY <2>1 DEF DealsConnected
<1>2. QED BY <1>1, DirInit, DirStep, PTL DEF Spec

-----------------------------------------------------------------------------
(* The ring of cache files: between operations it reads as the blocks that *)
(* were pushed and not popped.                                             *)
Cached == Blocks \cup {Empty}

Phases == {"idle", "push", "written", "half push", "pop", "half pop", "done", "failed"}

(* The place of an index in the ring.                                      *)
At(x) == x % CacheCount

(* A control file whose indices agree, and what its ring reads.            *)
Ctrls == [len : {CacheCount}, count : 0 .. CacheCount, front : Ids, rear : Ids]

RingOK(c) == c \in Ctrls /\ c.rear = At(c.front + c.count)

Reads(mem, c, p) ==
  /\ p \in Seq(Cached) /\ Len(p) = c.count
  /\ \A i \in 1 .. c.count : p[i] = mem[At(c.front + i - 1)]

CacheTypes ==
  /\ made \in BOOLEAN /\ opened \in BOOLEAN /\ torn \in BOOLEAN
  /\ phase \in Phases /\ shareMem \in [Ids -> Cached]
  /\ files \subseteq Ids
  /\ pending \in Seq(Cached)

(* Files appear when the directory is made, and a ring that lacks one was  *)
(* never open.                                                             *)
DiskOK ==
  /\ ~made => files = {}
  /\ files # Ids => pending = <<>> /\ ~opened
  /\ phase # "idle" => opened
  /\ torn => ~opened

(* Where the ring and the saved context are in a push or a pop.            *)
Between ==
  /\ phase \notin {"half push", "half pop"} => RingOK(cac) /\ Reads(shareMem, cac, pending)
  /\ phase # "idle" => RingOK(saved) /\ Reads(shareMem, saved, before)
  /\ phase \in {"push", "written", "failed", "half push"} =>
       pending = before /\ saved.count < CacheCount
  /\ phase \in {"pop", "half pop"} => pending = before /\ saved.count > 0
  /\ phase \in {"push", "written", "failed", "pop"} => cac = saved
  /\ phase = "half push" => cac = [saved EXCEPT !.rear = At(saved.rear + 1)]
  /\ phase = "half pop" => cac = [saved EXCEPT !.front = At(saved.front + 1)]

RingInv == CacheTypes /\ DiskOK /\ (files = Ids /\ ~torn => Between)

LEMMA Around1 ==
  ASSUME NEW x \in Nat, x < CacheCount + CacheCount
  PROVE  At(x) = IF x < CacheCount THEN x ELSE x - CacheCount
<1>1. CacheCount \in Nat \ {0}  BY CacheCountAssumption
<1>2. CASE x < CacheCount
  <2>1. x \in 0 .. CacheCount - 1  BY <1>1, <1>2
  <2>2. QED BY <1>1, <1>2, <2>1 DEF At
<1>3. CASE x >= CacheCount
  <2>1. x \in CacheCount .. CacheCount + CacheCount - 1  BY <1>1, <1>3
  <2>2. QED BY <1>1, <1>3, <2>1 DEF At
<1>4. QED BY <1>1, <1>2, <1>3

(* The fields of a control file.                                           *)
LEMMA CtrlFields ==
  ASSUME NEW c \in Ctrls
  PROVE  /\ c.len = CacheCount /\ c.count \in 0 .. CacheCount /\ c.front \in Ids /\ c.rear \in Ids
         /\ c.front \in Nat /\ c.rear \in Nat /\ c.count \in Nat
         /\ c.front < CacheCount /\ c.rear < CacheCount
BY CacheCountAssumption DEF Ctrls, Ids

LEMMA CtrlWith ==
  ASSUME NEW c \in Ctrls, NEW x
  PROVE  /\ [c EXCEPT !.rear = x]
               = [len |-> c.len, count |-> c.count, front |-> c.front, rear |-> x]
         /\ [c EXCEPT !.front = x]
               = [len |-> c.len, count |-> c.count, front |-> x, rear |-> c.rear]
         /\ [c EXCEPT !.count = x]
               = [len |-> c.len, count |-> x, front |-> c.front, rear |-> c.rear]
BY DEF Ctrls

CtrlOf(n, f, r) == [len |-> CacheCount, count |-> n, front |-> f, rear |-> r]

LEMMA CtrlOfFields ==
  ASSUME NEW n, NEW f, NEW r
  PROVE  /\ CtrlOf(n, f, r).len = CacheCount /\ CtrlOf(n, f, r).count = n
         /\ CtrlOf(n, f, r).front = f /\ CtrlOf(n, f, r).rear = r
         /\ n \in 0 .. CacheCount /\ f \in Ids /\ r \in Ids => CtrlOf(n, f, r) \in Ctrls
BY DEF CtrlOf, Ctrls

(* The next place of an index, as the code computes it.                    *)
LEMMA NextPlace ==
  ASSUME NEW i \in Ids
  PROVE  /\ At(i + 1) = IF i + 1 >= CacheCount THEN 0 ELSE i + 1
         /\ At(i + 1) \in Ids
<1>1. CacheCount \in Nat \ {0} /\ i \in Nat /\ i < CacheCount  BY CacheCountAssumption DEF Ids
<1>2. i + 1 \in Nat /\ i + 1 < CacheCount + CacheCount  BY <1>1
<1>3. At(i + 1) = IF i + 1 < CacheCount THEN i + 1 ELSE i + 1 - CacheCount
  BY <1>1, <1>2, Around1
<1>4. QED BY <1>1, <1>3 DEF Ids

(* A push: the block at the rear becomes the last one.                     *)
LEMMA PushReads ==
  ASSUME NEW mem \in [Ids -> Cached], NEW c, NEW p, RingOK(c), Reads(mem, c, p),
         c.count < CacheCount
  PROVE  LET d == CtrlOf(c.count + 1, c.front, At(c.rear + 1))
         IN  /\ RingOK(d) /\ Reads(mem, d, Append(p, mem[c.rear]))
             /\ At(At(c.rear + 1) + CacheCount - 1) = c.rear
<1> DEFINE N == CacheCount
           d == CtrlOf(c.count + 1, c.front, At(c.rear + 1))
           q == Append(p, mem[c.rear])
<1>1. c \in Ctrls /\ c.rear = At(c.front + c.count)  BY DEF RingOK
<1>2. /\ N \in Nat \ {0} /\ c.front \in Nat /\ c.rear \in Nat /\ c.count \in Nat
      /\ c.front < N /\ c.rear < N /\ c.front \in Ids /\ c.rear \in Ids
  BY <1>1, CtrlFields, CacheCountAssumption
<1>3. At(c.rear + 1) = IF c.rear + 1 >= N THEN 0 ELSE c.rear + 1  BY <1>2, NextPlace
<1>4. c.rear = IF c.front + c.count < N THEN c.front + c.count ELSE c.front + c.count - N
  <2>1. c.front + c.count \in Nat /\ c.front + c.count < N + N  BY <1>2
  <2>2. QED BY <1>1, <1>2, <2>1, Around1
<1>5. c.rear + 1 \in 0 .. N /\ At(c.rear + 1) \in Ids  BY <1>2, NextPlace
<1>6. /\ d.count = c.count + 1 /\ d.front = c.front /\ d.rear = At(c.rear + 1) /\ d \in Ctrls
  <2>1. c.count + 1 \in 0 .. N  BY <1>2
  <2>2. QED BY <1>2, <1>5, <2>1, CtrlOfFields
<1> HIDE DEF d
<1>7. RingOK(d)
  <2>1. CASE c.front + c.count + 1 = N + N
    BY <1>2, <2>1
  <2>2. CASE c.front + c.count + 1 # N + N
    <3>1. c.front + (c.count + 1) \in Nat /\ c.front + (c.count + 1) < N + N  BY <1>2, <2>2
    <3>2. At(c.front + (c.count + 1)) = IF c.front + (c.count + 1) < N THEN c.front + (c.count + 1)
                                          ELSE c.front + (c.count + 1) - N
      BY <1>2, <3>1, Around1
    <3>3. d.rear = At(c.front + (c.count + 1))  BY <1>2, <1>3, <1>4, <1>6, <3>2
    <3>4. QED BY <1>6, <3>3 DEF RingOK
  <2>3. QED BY <2>1, <2>2
<1>8. p \in Seq(Cached) /\ Len(p) = c.count /\ \A i \in 1 .. c.count : p[i] = mem[At(c.front + i - 1)]
  BY DEF Reads
<1>9. /\ q \in Seq(Cached) /\ Len(q) = c.count + 1 /\ q[c.count + 1] = mem[c.rear]
      /\ \A i \in 1 .. c.count : q[i] = p[i]
  BY <1>2, <1>8
<1> HIDE DEF q
<1>10. ASSUME NEW i \in 1 .. c.count + 1 PROVE q[i] = mem[At(c.front + i - 1)]
  <2>1. CASE i = c.count + 1
    <3>1. c.front + i - 1 = c.front + c.count  BY <1>2, <2>1
    <3>2. QED BY <1>1, <1>9, <2>1, <3>1
  <2>2. CASE i # c.count + 1
    <3>1. i \in 1 .. c.count  BY <1>2, <2>2
    <3>2. QED BY <1>8, <1>9, <3>1
  <2>3. QED BY <2>1, <2>2
<1>11. Reads(mem, d, q)  BY <1>6, <1>9, <1>10 DEF Reads
<1>12. At(At(c.rear + 1) + N - 1) = c.rear
  <2>1. CASE c.rear + 1 >= N
    <3>1. At(c.rear + 1) + N - 1 = N - 1 /\ c.rear = N - 1  BY <1>2, <1>3, <2>1
    <3>2. N - 1 \in Nat /\ N - 1 < N + N /\ N - 1 < N  BY <1>2
    <3>3. QED BY <3>1, <3>2, Around1
  <2>2. CASE c.rear + 1 < N
    <3>1. At(c.rear + 1) + N - 1 = c.rear + N  BY <1>2, <1>3, <2>2
    <3>2. c.rear + N \in Nat /\ c.rear + N < N + N /\ ~(c.rear + N < N) /\ c.rear + N - N = c.rear  BY <1>2
    <3>3. At(c.rear + N) = c.rear  BY <1>2, <3>2, Around1
    <3>4. QED BY <3>1, <3>3
  <2>3. QED BY <1>2, <2>1, <2>2
<1>13. QED BY <1>7, <1>11, <1>12 DEF d, q

(* A pop: the second block becomes the first one.                          *)
LEMMA PopReads ==
  ASSUME NEW mem \in [Ids -> Cached], NEW c, NEW p, RingOK(c), Reads(mem, c, p), c.count > 0
  PROVE  LET d == CtrlOf(c.count - 1, At(c.front + 1), c.rear)
         IN  RingOK(d) /\ Reads(mem, d, Tail(p)) /\ p # <<>>
<1> DEFINE N == CacheCount
           f == At(c.front + 1)
           d == CtrlOf(c.count - 1, f, c.rear)
           q == Tail(p)
<1>1. c \in Ctrls /\ c.rear = At(c.front + c.count)  BY DEF RingOK
<1>2. /\ N \in Nat \ {0} /\ c.front \in Nat /\ c.rear \in Nat /\ c.count \in Nat
      /\ c.front < N /\ c.rear < N /\ c.front \in Ids /\ c.rear \in Ids /\ c.count <= N
  BY <1>1, CtrlFields, CacheCountAssumption
<1>3. f = (IF c.front + 1 >= N THEN 0 ELSE c.front + 1) /\ f \in Ids /\ f \in Nat
  BY <1>2, NextPlace DEF Ids
<1> HIDE DEF f
<1>4. /\ d.count = c.count - 1 /\ d.front = f /\ d.rear = c.rear /\ d \in Ctrls
  <2>1. c.count - 1 \in 0 .. N  BY <1>2
  <2>2. QED BY <1>2, <1>3, <2>1, CtrlOfFields
<1> HIDE DEF d
<1>5. ASSUME NEW i \in 1 .. c.count PROVE At(f + i - 1) = At(c.front + i)
  <2>1. c.front + i \in Nat /\ c.front + i < N + N /\ f + i - 1 \in Nat /\ f + i - 1 < N + N  BY <1>2, <1>3
  <2>2. At(c.front + i) = IF c.front + i < N THEN c.front + i ELSE c.front + i - N
    BY <1>2, <1>3, <2>1, Around1
  <2>3. At(f + i - 1) = IF f + i - 1 < N THEN f + i - 1 ELSE f + i - 1 - N
    BY <1>2, <1>3, <2>1, Around1
  <2>4. QED BY <1>2, <1>3, <2>2, <2>3
<1>6. RingOK(d)
  <2>1. f + (c.count - 1) = f + c.count - 1 /\ c.count \in 1 .. c.count  BY <1>2, <1>3
  <2>2. d.rear = At(f + (c.count - 1))  BY <1>1, <1>4, <1>5, <2>1
  <2>3. QED BY <1>4, <2>2 DEF RingOK
<1>7. p \in Seq(Cached) /\ Len(p) = c.count /\ \A i \in 1 .. c.count : p[i] = mem[At(c.front + i - 1)]
  BY DEF Reads
<1>8. /\ p # <<>> /\ q \in Seq(Cached) /\ Len(q) = c.count - 1
      /\ \A i \in 1 .. c.count - 1 : q[i] = p[i + 1]
  BY <1>2, <1>7
<1> HIDE DEF q
<1>9. ASSUME NEW i \in 1 .. c.count - 1 PROVE q[i] = mem[At(f + i - 1)]
  <2>1. i \in 1 .. c.count /\ i + 1 \in 1 .. c.count /\ c.front + (i + 1) - 1 = c.front + i
    BY <1>2
  <2>2. p[i + 1] = mem[At(c.front + i)]  BY <1>7, <2>1
  <2>3. QED BY <1>5, <1>8, <2>1, <2>2
<1>10. Reads(mem, d, q)  BY <1>4, <1>8, <1>9 DEF Reads
<1>11. QED BY <1>6, <1>8, <1>10 DEF d, q, f

(* Writing the block that is to be pushed disturbs no other.               *)
LEMMA WriteReads ==
  ASSUME NEW mem \in [Ids -> Cached], NEW c, NEW p, RingOK(c), Reads(mem, c, p),
         c.count < CacheCount, NEW b
  PROVE  Reads([mem EXCEPT ![c.rear] = b], c, p)
<1> DEFINE N == CacheCount
<1>1. c \in Ctrls /\ c.rear = At(c.front + c.count)  BY DEF RingOK
<1>2. /\ N \in Nat \ {0} /\ c.front \in Nat /\ c.rear \in Nat /\ c.count \in Nat
      /\ c.front < N /\ c.rear < N
  BY <1>1, CtrlFields, CacheCountAssumption
<1>3. ASSUME NEW i \in 1 .. c.count
      PROVE  At(c.front + i - 1) # c.rear /\ At(c.front + i - 1) \in Ids
  <2>1. c.front + i - 1 \in Nat /\ c.front + i - 1 < N + N /\ c.front + c.count \in Nat /\ c.front + c.count < N + N  BY <1>2
  <2>2. At(c.front + i - 1) = IF c.front + i - 1 < N THEN c.front + i - 1 ELSE c.front + i - 1 - N
    BY <1>2, <2>1, Around1
  <2>3. c.rear = IF c.front + c.count < N THEN c.front + c.count ELSE c.front + c.count - N
    BY <1>1, <1>2, <2>1, Around1
  <2>4. QED BY <1>2, <2>2, <2>3 DEF Ids
<1>4. QED BY <1>3 DEF Reads

-----------------------------------------------------------------------------
(* An empty ring reads as no blocks.                                       *)
LEMMA FreshRing ==
  ASSUME NEW mem
  PROVE  RingOK(Ctrl(CacheCount)) /\ Reads(mem, Ctrl(CacheCount), <<>>)
<1> DEFINE c == Ctrl(CacheCount)
<1>1. CacheCount \in Nat \ {0}  BY CacheCountAssumption
<1>2. c = [len |-> CacheCount, count |-> 0, front |-> 0, rear |-> 0]  BY DEF Ctrl, Zeroes
<1>3. c.len = CacheCount /\ c.count = 0 /\ c.front = 0 /\ c.rear = 0  BY <1>2
<1>4. 0 \in Ids /\ 0 \in 0 .. CacheCount  BY <1>1 DEF Ids
<1>5. c \in Ctrls  BY <1>2, <1>4 DEF Ctrls
<1>6. At(0) = 0  BY <1>1, Around1
<1>7. RingOK(c)  BY <1>3, <1>5, <1>6 DEF RingOK
<1>8. <<>> \in Seq(Cached) /\ Len(<<>>) = 0  OBVIOUS
<1>9. \A i \in 1 .. 0 : <<>>[i] = mem[At(c.front + i - 1)]  OBVIOUS
<1> HIDE DEF c
<1>10. Reads(mem, c, <<>>)  BY <1>3, <1>8, <1>9 DEF Reads
<1>11. QED BY <1>7, <1>10 DEF c

LEMMA RingInvInit == CacheInit => RingInv
<1> SUFFICES ASSUME CacheInit PROVE RingInv  OBVIOUS
<1>1. 0 \in Ids  BY CacheCountAssumption DEF Ids
<1>2. files # Ids /\ pending = <<>>  BY <1>1 DEF CacheInit
<1>3. <<>> \in Seq(Cached)  OBVIOUS
<1>4. CacheTypes  BY <1>2, <1>3 DEF CacheInit, CacheTypes, Phases, Cached
<1>5. DiskOK  BY <1>2 DEF CacheInit, DiskOK
<1>6. QED BY <1>2, <1>4, <1>5 DEF RingInv

(* The ring of a user that is in a push or a pop is whole.                 *)
LEMMA InUse ==
  ASSUME RingInv, ~torn, opened \/ phase # "idle"
  PROVE  opened /\ files = Ids /\ Between /\ CacheTypes /\ DiskOK
BY DEF RingInv, DiskOK

LEMMA OpenKeeps == RingInv /\ ~torn /\ Open => RingInv'
<1> SUFFICES ASSUME RingInv, ~torn, Open PROVE RingInv'  OBVIOUS
<1>1. CacheTypes /\ DiskOK /\ (files = Ids => Between)  BY DEF RingInv
<1>2. /\ ~opened /\ phase = "idle"
      /\ shareMem' = shareMem /\ phase' = phase /\ saved' = saved
      /\ pending' = pending /\ before' = before /\ torn' = torn
  BY <1>1 DEF Open, DiskOK
<1>3. CASE ~made
  <2>1. PICK k \in 0 .. CacheCount + 2 : Create(k) /\ opened' = (k = CacheCount + 2)
    BY <1>3 DEF Open
  <2>2. CacheCount \in Nat \ {0}  BY CacheCountAssumption
  <2>3. files # Ids /\ pending = <<>>
    <3>1. 0 \in Ids  BY <2>2 DEF Ids
    <3>2. QED BY <1>1, <1>3, <3>1 DEF DiskOK
  <2>4. /\ made' = TRUE /\ files' = {i \in Ids : i < k - 2} /\ opened' \in BOOLEAN
        /\ k = CacheCount + 2 => cac' = Ctrl(CacheCount)
    BY <2>1, <2>2 DEF Create
  <2>5. files' = Ids <=> k = CacheCount + 2
    <3>1. ASSUME k = CacheCount + 2 PROVE files' = Ids
      BY <2>2, <2>4, <3>1 DEF Ids
    <3>2. ASSUME k # CacheCount + 2 PROVE files' # Ids
      <4>1. CacheCount - 1 \in Ids /\ ~(CacheCount - 1 < k - 2)  BY <2>2, <3>2 DEF Ids
      <4>2. QED BY <2>4, <4>1
    <3>3. QED BY <3>1, <3>2
  <2>6. CacheTypes'  BY <1>1, <1>2, <2>4 DEF CacheTypes
  <2>7. DiskOK'  BY <1>1, <1>2, <2>1, <2>3, <2>4, <2>5 DEF DiskOK
  <2>8. ASSUME files' = Ids PROVE Between'
    BY <1>2, <2>3, <2>4, <2>5, <2>8, FreshRing DEF Between
  <2>9. QED BY <2>6, <2>7, <2>8 DEF RingInv
<1>4. CASE made
  <2>1. PICK ok \in BOOLEAN : Load(ok)  BY <1>4 DEF Open
  <2>2. /\ made' = made /\ files' = files /\ opened' = (ok /\ files = Ids)
        /\ cac' = IF cac = NoFile THEN Zeroes ELSE cac
    BY <2>1 DEF Load
  <2>3. CacheTypes'  BY <1>1, <1>2, <2>2 DEF CacheTypes
  <2>4. DiskOK'  BY <1>1, <1>2, <2>2 DEF DiskOK
  <2>5. ASSUME files = Ids PROVE Between'
    <3>1. RingOK(cac) /\ Reads(shareMem, cac, pending)  BY <1>1, <1>2, <2>5 DEF Between
    <3>2. cac.len = CacheCount  BY <3>1, CtrlFields DEF RingOK
    <3>3. NoFile.len = -1  BY DEF NoFile, Zeroes
    <3>4. cac' = cac  BY <2>2, <3>2, <3>3, CacheCountAssumption
    <3>5. QED BY <1>2, <3>1, <3>4 DEF Between
  <2>6. QED BY <2>2, <2>3, <2>4, <2>5 DEF RingInv
<1>5. QED BY <1>3, <1>4, <1>1 DEF CacheTypes

LEMMA CloseKeeps == RingInv /\ ~torn /\ (Close \/ Finish \/ Crash) => RingInv'
<1> SUFFICES ASSUME RingInv, ~torn, Close \/ Finish \/ Crash PROVE RingInv'  OBVIOUS
<1>1. opened /\ files = Ids /\ Between /\ CacheTypes /\ DiskOK
  BY InUse DEF Close, Finish, Crash
<1>2. /\ made' = made /\ cac' = cac /\ files' = files /\ shareMem' = shareMem /\ saved' = saved
      /\ pending' = pending /\ before' = before /\ phase' = "idle"
      /\ torn' => phase \in {"half push", "half pop"}
      /\ torn' => ~opened'
      /\ opened' \in BOOLEAN /\ torn' \in BOOLEAN
      /\ phase' # "idle" => opened'
  <2>1. CASE Close  BY <1>1, <2>1 DEF Close, disk, CacheTypes
  <2>2. CASE Finish  BY <1>1, <2>2 DEF Finish, disk, CacheTypes
  <2>3. CASE Crash
    <3>1. /\ torn' = (torn \/ phase \in {"half push", "half pop"}) /\ opened' = FALSE
          /\ phase' = "idle" /\ UNCHANGED <<disk, saved, pending, before>>
      BY <2>3 DEF Crash
    <3>2. torn' \in BOOLEAN /\ (torn' => phase \in {"half push", "half pop"})  BY <3>1
    <3>3. QED BY <3>1, <3>2 DEF disk
  <2>4. QED BY <2>1, <2>2, <2>3
<1>3. ~torn' => phase \notin {"half push", "half pop"}
  BY DEF Close, Finish, Crash
<1>4. CacheTypes'  BY <1>1, <1>2 DEF CacheTypes, Phases
<1>5. DiskOK'  BY <1>1, <1>2 DEF DiskOK
<1>6. ASSUME ~torn' PROVE Between'  BY <1>1, <1>2, <1>3, <1>6 DEF Between
<1>7. QED BY <1>4, <1>5, <1>6 DEF RingInv

LEMMA BeginKeeps == RingInv /\ ~torn /\ (StartPush \/ StartPop) => RingInv'
<1> SUFFICES ASSUME RingInv, ~torn, StartPush \/ StartPop PROVE RingInv'  OBVIOUS
<1>1. opened /\ files = Ids /\ Between /\ CacheTypes /\ DiskOK
  BY InUse DEF StartPush, StartPop
<1>2. /\ made' = made /\ cac' = cac /\ files' = files /\ shareMem' = shareMem /\ saved' = cac
      /\ opened' = opened /\ pending' = pending /\ before' = pending /\ torn' = torn
      /\ phase = "idle" /\ phase' \in {"push", "pop"}
      /\ phase' = "push" => cac.count # cac.len
      /\ phase' = "pop" => cac.count # 0
  BY <1>1 DEF StartPush, StartPop, SaveContext, disk, IsFull, IsEmpty
<1>3. RingOK(cac) /\ Reads(shareMem, cac, pending)  BY <1>1, <1>2 DEF Between
<1>4. /\ phase' = "push" => cac.count < CacheCount
      /\ phase' = "pop" => cac.count > 0
  BY <1>2, <1>3, CtrlFields, CacheCountAssumption DEF RingOK
<1>5. CacheTypes'  BY <1>1, <1>2 DEF CacheTypes, Phases
<1>6. DiskOK'  BY <1>1, <1>2 DEF DiskOK
<1>7. Between'  BY <1>2, <1>3, <1>4 DEF Between
<1>8. QED BY <1>5, <1>6, <1>7 DEF RingInv

LEMMA ResizeKeeps ==
  ASSUME NEW ok \in BOOLEAN, RingInv, ~torn, ResizeCache(ok)
  PROVE  RingInv'
<1>1. opened /\ files = Ids /\ Between /\ CacheTypes /\ DiskOK
  BY InUse DEF ResizeCache
<1>2. /\ made' = made /\ cac' = cac /\ files' = files /\ shareMem' = shareMem /\ saved' = saved
      /\ opened' = opened /\ pending' = pending /\ before' = before /\ torn' = torn
      /\ phase = "push" /\ phase' \in {"push", "failed"}
  BY DEF ResizeCache, disk
<1>3. CacheTypes'  BY <1>1, <1>2 DEF CacheTypes, Phases
<1>4. DiskOK'  BY <1>1, <1>2 DEF DiskOK
<1>5. Between'  BY <1>1, <1>2 DEF Between
<1>6. QED BY <1>3, <1>4, <1>5 DEF RingInv

LEMMA WriteKeeps ==
  ASSUME NEW b \in Blocks, RingInv, ~torn, WriteBlock(b)
  PROVE  RingInv'
<1>1. opened /\ files = Ids /\ Between /\ CacheTypes /\ DiskOK
  BY InUse DEF WriteBlock
<1>2. /\ made' = made /\ cac' = cac /\ files' = files /\ saved' = saved
      /\ shareMem' = [shareMem EXCEPT ![cac.rear] = b]
      /\ opened' = opened /\ pending' = pending /\ before' = before /\ torn' = torn
      /\ phase = "push" /\ phase' = "written"
  BY DEF WriteBlock
<1>3. /\ RingOK(cac) /\ Reads(shareMem, cac, pending)
      /\ cac = saved /\ pending = before /\ cac.count < CacheCount
  BY <1>1, <1>2 DEF Between
<1>4. shareMem \in [Ids -> Cached] /\ b \in Cached  BY <1>1 DEF CacheTypes, Cached
<1>5. Reads(shareMem', cac, pending)  BY <1>2, <1>3, <1>4, WriteReads
<1>6. CacheTypes'
  <2>1. shareMem' \in [Ids -> Cached]  BY <1>2, <1>4
  <2>2. QED BY <1>1, <1>2, <2>1 DEF CacheTypes, Phases
<1>7. DiskOK'  BY <1>1, <1>2 DEF DiskOK
<1>8. Between'  BY <1>2, <1>3, <1>5 DEF Between
<1>9. QED BY <1>6, <1>7, <1>8 DEF RingInv

(* Step is the next place of the ring.                                     *)
LEMMA StepIsNext ==
  ASSUME NEW i \in Ids, cac.len = CacheCount
  PROVE  Step(i) = At(i + 1)
BY NextPlace DEF Step

LEMMA PushKeeps == RingInv /\ ~torn /\ PushBack => RingInv'
<1> SUFFICES ASSUME RingInv, ~torn, PushBack PROVE RingInv'  OBVIOUS
<1>1. opened /\ files = Ids /\ Between /\ CacheTypes /\ DiskOK
  BY InUse DEF PushBack
<1>2. /\ made' = made /\ files' = files /\ shareMem' = shareMem /\ saved' = saved
      /\ opened' = opened /\ before' = before /\ torn' = torn
      /\ phase \in {"written", "half push"}
  BY DEF PushBack
<1>3. /\ RingOK(saved) /\ Reads(shareMem, saved, before) /\ pending = before
      /\ saved.count < CacheCount
  BY <1>1, <1>2 DEF Between
<1>4. DiskOK'
  BY <1>1, <1>2 DEF DiskOK
<1>5. saved \in Ctrls /\ saved.len = CacheCount /\ saved.rear \in Ids
  BY <1>3, CtrlFields DEF RingOK
<1>6. CASE phase = "written"
  <2>1. /\ phase' = "half push" /\ pending' = pending /\ cac = saved
        /\ cac' = [cac EXCEPT !.rear = Step(cac.rear)]
    BY <1>1, <1>6 DEF PushBack, Between
  <2>2. cac' = [saved EXCEPT !.rear = At(saved.rear + 1)]
    BY <1>5, <2>1, StepIsNext
  <2>3. CacheTypes'  BY <1>1, <1>2, <2>1 DEF CacheTypes, Phases
  <2>4. Between'  BY <1>2, <1>3, <2>1, <2>2 DEF Between
  <2>5. QED BY <1>4, <2>3, <2>4 DEF RingInv
<1>7. CASE phase = "half push"
  <2>1. /\ phase' = "done" /\ cac = [saved EXCEPT !.rear = At(saved.rear + 1)]
        /\ cac' = [cac EXCEPT !.count = @ + 1]
        /\ pending' = Append(pending, shareMem[(cac.rear + CacheCount - 1) % CacheCount])
    BY <1>1, <1>7 DEF PushBack, Between
  <2>2. cac = [len |-> saved.len, count |-> saved.count, front |-> saved.front,
               rear |-> At(saved.rear + 1)]
    BY <1>5, <2>1, CtrlWith
  <2>3. cac' = CtrlOf(saved.count + 1, saved.front, At(saved.rear + 1))
    BY <1>5, <2>1, <2>2 DEF CtrlOf
  <2>4. pending' = Append(before, shareMem[At(At(saved.rear + 1) + CacheCount - 1)])
    BY <1>3, <2>1, <2>2 DEF At
  <2>5. shareMem \in [Ids -> Cached]  BY <1>1 DEF CacheTypes
  <2>6. RingOK(cac') /\ Reads(shareMem, cac', pending')
    BY <1>3, <2>3, <2>4, <2>5, PushReads
  <2>7. CacheTypes'
    <3>1. pending' \in Seq(Cached)  BY <2>6 DEF Reads
    <3>2. QED BY <1>1, <1>2, <2>1, <3>1 DEF CacheTypes, Phases
  <2>8. Between'  BY <1>2, <1>3, <2>1, <2>6 DEF Between
  <2>9. QED BY <1>4, <2>7, <2>8 DEF RingInv
<1>8. QED BY <1>2, <1>6, <1>7

LEMMA PopKeeps == RingInv /\ ~torn /\ PopFront => RingInv'
<1> SUFFICES ASSUME RingInv, ~torn, PopFront PROVE RingInv'  OBVIOUS
<1>1. opened /\ files = Ids /\ Between /\ CacheTypes /\ DiskOK
  BY InUse DEF PopFront
<1>2. /\ made' = made /\ files' = files /\ shareMem' = shareMem /\ saved' = saved
      /\ opened' = opened /\ before' = before /\ torn' = torn
      /\ phase \in {"pop", "half pop"}
  BY DEF PopFront
<1>3. /\ RingOK(saved) /\ Reads(shareMem, saved, before) /\ pending = before
      /\ saved.count > 0
  BY <1>1, <1>2 DEF Between
<1>4. DiskOK'
  BY <1>1, <1>2 DEF DiskOK
<1>5. saved \in Ctrls /\ saved.len = CacheCount /\ saved.front \in Ids
  BY <1>3, CtrlFields DEF RingOK
<1>6. CASE phase = "pop"
  <2>1. /\ phase' = "half pop" /\ pending' = pending /\ cac = saved
        /\ cac' = [cac EXCEPT !.front = Step(cac.front)]
    BY <1>1, <1>6 DEF PopFront, Between
  <2>2. cac' = [saved EXCEPT !.front = At(saved.front + 1)]
    BY <1>5, <2>1, StepIsNext
  <2>3. CacheTypes'  BY <1>1, <1>2, <2>1 DEF CacheTypes, Phases
  <2>4. Between'  BY <1>2, <1>3, <2>1, <2>2 DEF Between
  <2>5. QED BY <1>4, <2>3, <2>4 DEF RingInv
<1>7. CASE phase = "half pop"
  <2>1. /\ phase' = "done" /\ cac = [saved EXCEPT !.front = At(saved.front + 1)]
        /\ cac' = [cac EXCEPT !.count = @ - 1]
        /\ pending' = IF pending = <<>> THEN pending ELSE Tail(pending)
    BY <1>1, <1>7 DEF PopFront, Between
  <2>2. cac = [len |-> saved.len, count |-> saved.count, front |-> At(saved.front + 1),
               rear |-> saved.rear]
    BY <1>5, <2>1, CtrlWith
  <2>3. cac' = CtrlOf(saved.count - 1, At(saved.front + 1), saved.rear)
    BY <1>5, <2>1, <2>2 DEF CtrlOf
  <2>4. shareMem \in [Ids -> Cached]  BY <1>1 DEF CacheTypes
  <2>5. RingOK(cac') /\ Reads(shareMem, cac', Tail(before)) /\ before # <<>>
    BY <1>3, <2>3, <2>4, PopReads
  <2>6. pending' = Tail(before)  BY <1>3, <2>1, <2>5
  <2>7. CacheTypes'
    <3>1. pending' \in Seq(Cached)  BY <2>5, <2>6 DEF Reads
    <3>2. QED BY <1>1, <1>2, <2>1, <3>1 DEF CacheTypes, Phases
  <2>8. Between'  BY <1>2, <1>3, <2>1, <2>5, <2>6 DEF Between
  <2>9. QED BY <1>4, <2>7, <2>8 DEF RingInv
<1>8. QED BY <1>2, <1>6, <1>7

LEMMA RestoreKeeps == RingInv /\ ~torn /\ RestoreContext => RingInv'
<1> SUFFICES ASSUME RingInv, ~torn, RestoreContext PROVE RingInv'  OBVIOUS
<1>1. opened /\ files = Ids /\ Between /\ CacheTypes /\ DiskOK
  BY InUse DEF RestoreContext
<1>2. /\ made' = made /\ files' = files /\ shareMem' = shareMem /\ saved' = saved
      /\ before' = before /\ torn' = torn /\ cac' = saved /\ pending' = before
      /\ phase # "idle" /\ phase' = "idle" /\ opened' \in BOOLEAN
  BY DEF RestoreContext
<1>3. RingOK(saved) /\ Reads(shareMem, saved, before)  BY <1>1, <1>2 DEF Between
<1>4. CacheTypes'
  <2>1. pending' \in Seq(Cached)  BY <1>2, <1>3 DEF Reads
  <2>2. QED BY <1>1, <1>2, <2>1 DEF CacheTypes, Phases
<1>5. DiskOK'  BY <1>1, <1>2 DEF DiskOK
<1>6. Between'  BY <1>2, <1>3 DEF Between
<1>7. QED BY <1>4, <1>5, <1>6 DEF RingInv

LEMMA RingInvStep == RingInv /\ [CacheNext]_cacheVars => RingInv'
<1> SUFFICES ASSUME RingInv, [CacheNext]_cacheVars PROVE RingInv'  OBVIOUS
<1>1. CASE UNCHANGED cacheVars
  BY <1>1 DEF cacheVars, RingInv, CacheTypes, DiskOK, Between
<1>2. CASE CacheNext
  <2>1. ~torn  BY <1>2 DEF CacheNext
  <2>2. CASE Open  BY <2>1, <2>2, OpenKeeps
  <2>3. CASE Close \/ Finish \/ Crash  BY <2>1, <2>3, CloseKeeps
  <2>4. CASE StartPush \/ StartPop  BY <2>1, <2>4, BeginKeeps
  <2>5. CASE PushBack  BY <2>1, <2>5, PushKeeps
  <2>6. CASE PopFront  BY <2>1, <2>6, PopKeeps
  <2>7. CASE RestoreContext  BY <2>1, <2>7, RestoreKeeps
  <2>8. CASE \E ok \in BOOLEAN : ResizeCache(ok)  BY <2>1, <2>8, ResizeKeeps
  <2>9. CASE \E b \in Blocks : WriteBlock(b)  BY <2>1, <2>9, WriteKeeps
  <2>10. QED BY <1>2, <2>2, <2>3, <2>4, <2>5, <2>6, <2>7, <2>8, <2>9 DEF CacheNext
<1>3. QED BY <1>1, <1>2

(* Between operations the ring of cache files reads, from the front, as    *)
(* the blocks that were pushed and not popped, for any length of the ring  *)
(* (vbh_block_cache_manager.inl:21-50).                                    *)
THEOREM CacheKeepsOrder == CacheSpec => []BlocksInOrder
<1>1. RingInv => BlocksInOrder
  <2> SUFFICES ASSUME RingInv, opened, phase = "idle", ~torn
               PROVE  [i \in 1 .. cac.count |-> shareMem[(cac.front + i - 1) % CacheCount]] = pending
    BY DEF BlocksInOrder
  <2>1. Reads(shareMem, cac, pending)  BY InUse DEF Between
  <2>2. /\ pending \in Seq(Cached) /\ Len(pending) = cac.count
        /\ \A i \in 1 .. cac.count : pending[i] = shareMem[(cac.front + i - 1) % CacheCount]
    BY <2>1 DEF Reads, At
  <2>3. pending = [i \in 1 .. cac.count |-> pending[i]]  BY <2>2
  <2>4. QED BY <2>2, <2>3
<1>2. QED BY <1>1, RingInvInit, RingInvStep, PTL DEF CacheSpec

(* A ring that is open is whole (vbh_block_cache_manager.cpp:29-51).       *)
THEOREM CacheOpensWhole == CacheSpec => []OpenedIsWhole
<1>1. RingInv => OpenedIsWhole
  <2> SUFFICES ASSUME RingInv, opened
               PROVE  /\ files = Ids /\ cac.len = CacheCount
                      /\ cac.front \in Ids /\ cac.rear \in Ids /\ cac.count \in 0 .. CacheCount
    BY DEF OpenedIsWhole
  <2>1. ~torn  BY DEF RingInv, DiskOK
  <2>2. files = Ids /\ Between /\ CacheTypes  BY <2>1, InUse
  <2>3. CASE phase \notin {"half push", "half pop"}
    <3>1. cac \in Ctrls  BY <2>2, <2>3 DEF Between, RingOK
    <3>2. QED BY <2>2, <3>1, CtrlFields
  <2>4. CASE phase \in {"half push", "half pop"}
    <3>1. saved \in Ctrls  BY <2>2, <2>4 DEF Between, RingOK
    <3>2. /\ saved.front \in Ids /\ saved.rear \in Ids /\ saved.len = CacheCount
          /\ saved.count \in 0 .. CacheCount
      BY <3>1, CtrlFields
    <3>3. At(saved.front + 1) \in Ids /\ At(saved.rear + 1) \in Ids  BY <3>2, NextPlace
    <3>4. cac = [saved EXCEPT !.rear = At(saved.rear + 1)]
            \/ cac = [saved EXCEPT !.front = At(saved.front + 1)]
      BY <2>2, <2>4 DEF Between
    <3>5. cac = [len |-> saved.len, count |-> saved.count, front |-> saved.front,
                 rear |-> At(saved.rear + 1)]
            \/ cac = [len |-> saved.len, count |-> saved.count, front |-> At(saved.front + 1),
                      rear |-> saved.rear]
      BY <3>1, <3>4, CtrlWith
    <3>6. QED BY <2>2, <3>2, <3>3, <3>5
  <2>5. QED BY <2>3, <2>4
<1>2. QED BY <1>1, RingInvInit, RingInvStep, PTL DEF CacheSpec

-----------------------------------------------------------------------------
(* The key file: as much of the whole text of the key as was written.      *)
Names   == {"channelID", "genUserKey", "pubCryptoKey", "priCryptoKey", "envelopeKey"}
Field   == {<<u, s>> : u \in Users, s \in Names}
Marks   == {<<BeginMark>>, <<Nul>>, <<EndMark>>}
Symbols == Field \cup Marks

Whole(fields) == <<<<BeginMark>>>> \o Encode(fields) \o <<<<EndMark>>>>

KeyInv ==
  /\ written \in Seq(Field) /\ file \in Seq(Symbols) /\ rest \in Seq(Symbols)
  /\ Len(file) <= Len(Whole(written))
  /\ \A i \in 1 .. Len(file) : file[i] = Whole(written)[i]
  /\ rest # <<>> => Len(file) + Len(rest) = Len(Whole(written))
  /\ \A i \in 1 .. Len(rest) : rest[i] = Whole(written)[Len(file) + i]

(* A field is no mark, and the marks differ.                               *)
LEMMA MarksDiffer ==
  /\ <<BeginMark>> # <<EndMark>> /\ <<Nul>> # <<EndMark>>
  /\ \A x \in Field : x \notin Marks
<1>1. ASSUME NEW x \in Field, x \in Marks PROVE FALSE
  <2>1. PICK u \in Users, s \in Names : x = <<u, s>>  BY DEF Field
  <2>2. Len(<<u, s>>) = 2  OBVIOUS
  <2>3. Len(<<BeginMark>>) = 1 /\ Len(<<Nul>>) = 1 /\ Len(<<EndMark>>) = 1  OBVIOUS
  <2>4. QED BY <1>1, <2>1, <2>2, <2>3 DEF Marks
<1>2. BeginMark # EndMark /\ Nul # EndMark  BY DEF BeginMark, EndMark, Nul
<1>3. <<BeginMark>>[1] = BeginMark /\ <<Nul>>[1] = Nul /\ <<EndMark>>[1] = EndMark  OBVIOUS
<1>4. QED BY <1>1, <1>2, <1>3

(* Two sequences, one after the other.                                     *)
Joins(c, a, b) ==
  /\ Len(c) = Len(a) + Len(b)
  /\ \A i \in 1 .. Len(a) : c[i] = a[i]
  /\ \A i \in Len(a) + 1 .. Len(a) + Len(b) : c[i] = b[i - Len(a)]

LEMMA Joined ==
  ASSUME NEW S, NEW a \in Seq(S), NEW b \in Seq(S)
  PROVE  a \o b \in Seq(S) /\ Joins(a \o b, a, b)
BY DEF Joins

(* The text that is written for a key, symbol by symbol.                   *)
LEMMA WholeReads ==
  ASSUME NEW fields \in Seq(Field)
  PROVE  /\ Whole(fields) \in Seq(Symbols) /\ Len(Whole(fields)) = Len(fields) + 3
         /\ Whole(fields)[1] = <<BeginMark>>
         /\ Whole(fields)[Len(fields) + 2] = <<Nul>>
         /\ Whole(fields)[Len(fields) + 3] = <<EndMark>>
         /\ \A i \in 1 .. Len(fields) : Whole(fields)[i + 1] = fields[i]
<1> DEFINE B == <<<<BeginMark>>>>
           E == Append(fields, <<Nul>>)
           Z == <<<<EndMark>>>>
<1>1. fields \in Seq(Symbols) /\ <<Nul>> \in Symbols  BY DEF Symbols, Marks
<1>2. B \in Seq(Symbols) /\ Len(B) = 1 /\ B[1] = <<BeginMark>>  BY DEF Symbols, Marks
<1>3. Z \in Seq(Symbols) /\ Len(Z) = 1 /\ Z[1] = <<EndMark>>  BY DEF Symbols, Marks
<1>4. /\ E \in Seq(Symbols) /\ Len(E) = Len(fields) + 1 /\ E[Len(fields) + 1] = <<Nul>>
      /\ \A i \in 1 .. Len(fields) : E[i] = fields[i]
  BY <1>1
<1> HIDE DEF B, E, Z
<1>5. /\ B \o E \in Seq(Symbols) /\ Len(B \o E) = Len(fields) + 2
      /\ (B \o E)[1] = <<BeginMark>>
      /\ \A i \in 1 .. Len(fields) + 1 : (B \o E)[i + 1] = E[i]
  <2>1. B \o E \in Seq(Symbols) /\ Joins(B \o E, B, E)  BY <1>2, <1>4, Joined
  <2>2. Len(B \o E) = Len(B) + Len(E) /\ \A i \in 1 .. Len(B) : (B \o E)[i] = B[i]
    BY <2>1 DEF Joins
  <2>3. \A i \in Len(B) + 1 .. Len(B) + Len(E) : (B \o E)[i] = E[i - Len(B)]
    BY <2>1 DEF Joins
  <2>4. ASSUME NEW i \in 1 .. Len(fields) + 1 PROVE (B \o E)[i + 1] = E[i]
    <3>1. i + 1 \in Len(B) + 1 .. Len(B) + Len(E) /\ i + 1 - Len(B) = i  BY <1>2, <1>4
    <3>2. QED BY <2>3, <3>1
  <2>5. QED BY <1>2, <1>4, <2>1, <2>2, <2>4
<1>6. /\ (B \o E) \o Z \in Seq(Symbols) /\ Len((B \o E) \o Z) = Len(fields) + 3
      /\ ((B \o E) \o Z)[Len(fields) + 3] = <<EndMark>>
      /\ \A i \in 1 .. Len(fields) + 2 : ((B \o E) \o Z)[i] = (B \o E)[i]
  <2>1. (B \o E) \o Z \in Seq(Symbols) /\ Joins((B \o E) \o Z, B \o E, Z)
    BY <1>3, <1>5, Joined
  <2>2. /\ Len((B \o E) \o Z) = Len(B \o E) + Len(Z)
        /\ \A i \in 1 .. Len(B \o E) : ((B \o E) \o Z)[i] = (B \o E)[i]
    BY <2>1 DEF Joins
  <2>3. \A i \in Len(B \o E) + 1 .. Len(B \o E) + Len(Z) :
          ((B \o E) \o Z)[i] = Z[i - Len(B \o E)]
    BY <2>1 DEF Joins
  <2>4. ((B \o E) \o Z)[Len(fields) + 3] = Z[1]
    <3>1. Len(fields) + 3 \in Len(B \o E) + 1 .. Len(B \o E) + Len(Z)
            /\ Len(fields) + 3 - Len(B \o E) = 1
      BY <1>3, <1>5
    <3>2. QED BY <2>3, <3>1
  <2>5. QED BY <1>3, <1>5, <2>1, <2>2, <2>4
<1>7. Whole(fields) = (B \o E) \o Z  BY DEF Whole, Encode, B, E, Z
<1>8. Len(fields) \in Nat  OBVIOUS
<1>9. QED BY <1>4, <1>5, <1>6, <1>7, <1>8

LEMMA KeyInvInit == KeyInit => KeyInv
<1> SUFFICES ASSUME KeyInit PROVE KeyInv  OBVIOUS
<1>1. written = <<>> /\ file = <<>> /\ rest = <<>>  BY DEF KeyInit
<1>2. <<>> \in Seq(Field) /\ <<>> \in Seq(Symbols) /\ Len(<<>>) = 0  OBVIOUS
<1>3. Len(Whole(written)) = Len(written) + 3  BY <1>1, <1>2, WholeReads
<1>4. QED BY <1>1, <1>2, <1>3 DEF KeyInv

LEMMA KeyInvStep == KeyInv /\ [KeyNext]_keyVars => KeyInv'
<1> SUFFICES ASSUME KeyInv, [KeyNext]_keyVars PROVE KeyInv'  OBVIOUS
<1>1. /\ written \in Seq(Field) /\ file \in Seq(Symbols) /\ rest \in Seq(Symbols)
      /\ Len(file) <= Len(Whole(written))
      /\ rest # <<>> => Len(file) + Len(rest) = Len(Whole(written))
  BY DEF KeyInv
<1>2. \A i \in 1 .. Len(file) : file[i] = Whole(written)[i]  BY DEF KeyInv
<1>3. \A i \in 1 .. Len(rest) : rest[i] = Whole(written)[Len(file) + i]  BY DEF KeyInv
<1>4. CASE Write
  <2>1. /\ rest # <<>> /\ file' = Append(file, Head(rest)) /\ rest' = Tail(rest)
        /\ written' = written
    BY <1>4 DEF Write
  <2>2. Len(rest) \in Nat \ {0} /\ Head(rest) = rest[1] /\ rest[1] \in Symbols  BY <1>1, <2>1
  <2>3. /\ file' \in Seq(Symbols) /\ Len(file') = Len(file) + 1
        /\ file'[Len(file) + 1] = rest[1]
        /\ \A i \in 1 .. Len(file) : file'[i] = file[i]
    BY <1>1, <2>1, <2>2
  <2>4. /\ rest' \in Seq(Symbols) /\ Len(rest') = Len(rest) - 1
        /\ \A i \in 1 .. Len(rest) - 1 : rest'[i] = rest[i + 1]
    BY <1>1, <2>1, <2>2
  <2>5. Len(Whole(written)) \in Nat /\ Len(file) \in Nat  BY <1>1, WholeReads
  <2>6. rest[1] = Whole(written)[Len(file) + 1]  BY <1>3, <2>2
  <2>7. ASSUME NEW i \in 1 .. Len(file') PROVE file'[i] = Whole(written)[i]
    <3>1. CASE i = Len(file) + 1  BY <2>3, <2>6, <3>1
    <3>2. CASE i # Len(file) + 1
      <4>1. i \in 1 .. Len(file)  BY <2>3, <2>5, <3>2
      <4>2. QED BY <1>2, <2>3, <4>1
    <3>3. QED BY <3>1, <3>2
  <2>8. ASSUME NEW i \in 1 .. Len(rest') PROVE rest'[i] = Whole(written)[Len(file') + i]
    <3>1. i \in 1 .. Len(rest) - 1 /\ i + 1 \in 1 .. Len(rest)  BY <2>2, <2>4
    <3>2. Len(file') + i = Len(file) + (i + 1)  BY <2>3, <2>5
    <3>3. QED BY <1>3, <2>4, <3>1, <3>2
  <2>9. /\ Len(file') <= Len(Whole(written))
        /\ Len(file') + Len(rest') = Len(Whole(written))
    BY <1>1, <2>1, <2>2, <2>3, <2>4, <2>5
  <2>10. QED BY <1>1, <2>1, <2>3, <2>4, <2>7, <2>8, <2>9 DEF KeyInv
<1>5. CASE WriteFails
  <2>1. rest' = <<>> /\ file' = file /\ written' = written  BY <1>5 DEF WriteFails
  <2>2. <<>> \in Seq(Symbols) /\ Len(<<>>) = 0  OBVIOUS
  <2>3. QED BY <1>1, <1>2, <2>1, <2>2 DEF KeyInv
<1>6. ASSUME NEW u \in Users, NEW names \in {ClientKeyFields, GenerateKeyFields},
             OpenToWrite(Fields(u, names))
      PROVE  KeyInv'
  <2> DEFINE fields == Fields(u, names)
  <2>1. names \in Seq(Names)
    <3>1. ClientKeyFields \in Seq(Names) /\ Len(ClientKeyFields) = 5
      BY DEF ClientKeyFields, Names
    <3>2. /\ GenerateKeyFields \in Seq(Names) /\ Len(GenerateKeyFields) = 2
          /\ \A i \in 1 .. 2 : GenerateKeyFields[i] = ClientKeyFields[i]
      BY <3>1 DEF GenerateKeyFields
    <3>3. QED BY <3>1, <3>2
  <2>2. fields \in Seq(Field)  BY <2>1 DEF Fields, Field
  <2> HIDE DEF fields
  <2>3. file' = <<>> /\ rest' = Whole(fields) /\ written' = fields
    BY <1>6 DEF OpenToWrite, Whole, fields
  <2>4. Whole(fields) \in Seq(Symbols) /\ Len(Whole(fields)) \in Nat  BY <2>2, WholeReads
  <2>5. <<>> \in Seq(Symbols) /\ Len(<<>>) = 0  OBVIOUS
  <2>6. \A i \in 1 .. Len(Whole(fields)) : 0 + i = i  BY <2>4
  <2>7. QED BY <2>2, <2>3, <2>4, <2>5, <2>6 DEF KeyInv
<1>7. CASE UNCHANGED keyVars  BY <1>7 DEF keyVars, KeyInv
<1>8. QED BY <1>4, <1>5, <1>6, <1>7 DEF KeyNext

(* What a decoder takes from a buffer whose first terminator is at n + 1.  *)
LEMMA DecodeTakes ==
  ASSUME NEW buffer \in Seq(Symbols), NEW n \in Nat, n + 1 <= Len(buffer),
         buffer[n + 1] = <<Nul>>, \A i \in 1 .. n : buffer[i] \in Field, NEW k
  PROVE  Decode(buffer, k)
           = IF Len(SubSeq(buffer, 1, n)) >= k THEN SubSeq(SubSeq(buffer, 1, n), 1, k) ELSE Refused
<1> DEFINE I == {i \in 1 .. Len(buffer) : buffer[i] \in {<<Nul>>, <<EndMark>>}}
           m == SelectInSeq(buffer, LAMBDA x : x \in {<<Nul>>, <<EndMark>>})
<1>1. n + 1 \in I
  <2>1. n + 1 \in 1 .. Len(buffer)  OBVIOUS
  <2>2. QED BY <2>1
<1>2. ASSUME NEW i \in I PROVE n + 1 <= i
  <2>1. CASE i \in 1 .. n  BY <2>1, MarksDiffer DEF Marks
  <2>2. CASE i \notin 1 .. n  BY <2>2
  <2>3. QED BY <2>1, <2>2
<1>3. m = IF I # {} THEN Min(I) ELSE 0  BY DEF SelectInSeq
<1>4. I \subseteq Int  OBVIOUS
<1> HIDE DEF I
<1> DEFINE least == Min(I)
<1>5. least = n + 1
  <2>1. Min(I) = CHOOSE x \in I : \A y \in I : x <= y  BY DEF Min
  <2>2. n + 1 \in I /\ \A y \in I : n + 1 <= y  BY <1>1, <1>2
  <2>3. least \in I /\ \A y \in I : least <= y  BY <2>1, <2>2
  <2> HIDE DEF least
  <2>4. least \in Int /\ least <= n + 1 /\ n + 1 <= least  BY <1>4, <2>2, <2>3
  <2>5. QED BY <2>4
<1>6. m = n + 1 /\ m - 1 = n  BY <1>1, <1>3, <1>5
<1>7. Decode(buffer, k) = IF Len(SubSeq(buffer, 1, m - 1)) >= k
                          THEN SubSeq(SubSeq(buffer, 1, m - 1), 1, k) ELSE Refused
  BY DEF Decode
<1>8. QED BY <1>6, <1>7

(* A file that is not refused is the whole text, and what is between its   *)
(* marks starts with the fields and a terminator.                          *)
LEMMA ReadyIsWhole ==
  ASSUME KeyInv, ReadyCryptKeyToFile # Refused
  PROVE  /\ ReadyCryptKeyToFile \in Seq(Symbols)
         /\ Len(written) + 1 <= Len(ReadyCryptKeyToFile)
         /\ ReadyCryptKeyToFile[Len(written) + 1] = <<Nul>>
         /\ \A i \in 1 .. Len(written) : ReadyCryptKeyToFile[i] = written[i]
<1> DEFINE W == Whole(written)
           n == Len(written)
<1>1. /\ written \in Seq(Field) /\ file \in Seq(Symbols) /\ Len(file) <= Len(W)
      /\ \A i \in 1 .. Len(file) : file[i] = W[i]
  BY DEF KeyInv
<1>2. /\ Len(W) = n + 3 /\ W[1] = <<BeginMark>> /\ W[n + 2] = <<Nul>>
      /\ \A i \in 1 .. n : W[i + 1] = written[i]
  BY <1>1, WholeReads
<1>3. n \in Nat /\ Len(file) \in Nat /\ \A i \in 1 .. n : written[i] \in Field  BY <1>1
<1> HIDE DEF W, n
<1>4. /\ Len(file) > 2 /\ Last(file) = <<EndMark>>
      /\ ReadyCryptKeyToFile
           = SubSeq(file, 2, Len(file) - 1) \o SubSeq(file, Len(file) - 1, Len(file))
  <2> DEFINE r == SubSeq(file, 2, Len(file) - 1) \o SubSeq(file, Len(file) - 1, Len(file))
  <2>1. ReadyCryptKeyToFile
          = IF Len(file) <= 2 \/ Head(file) # <<BeginMark>> \/ Last(file) # <<EndMark>>
            THEN Refused ELSE r
    BY Zenon DEF ReadyCryptKeyToFile
  <2> HIDE DEF r
  <2>2. ~(Len(file) <= 2) /\ Last(file) = <<EndMark>> /\ ReadyCryptKeyToFile = r  BY <2>1
  <2>3. QED BY <1>3, <2>2 DEF r
<1>5. Len(file) = n + 3
  <2>1. SUFFICES ASSUME Len(file) < n + 3 PROVE FALSE  BY <1>1, <1>2, <1>3
  <2>2. W[Len(file)] = <<EndMark>>  BY <1>1, <1>3, <1>4 DEF Last
  <2>3. CASE Len(file) = n + 2  BY <1>2, <2>2, <2>3, MarksDiffer
  <2>4. CASE Len(file) < n + 2
    <3>1. Len(file) - 1 \in 1 .. n /\ (Len(file) - 1) + 1 = Len(file)  BY <1>3, <1>4, <2>4
    <3>2. written[Len(file) - 1] = <<EndMark>>  BY <1>2, <2>2, <3>1
    <3>3. QED BY <1>3, <3>1, <3>2, MarksDiffer DEF Marks
  <2>5. QED BY <1>3, <2>1, <2>3, <2>4
<1> DEFINE a == SubSeq(file, 2, n + 2)
           b == SubSeq(file, n + 2, n + 3)
<1>6. ReadyCryptKeyToFile = a \o b  BY <1>3, <1>4, <1>5
<1>7. a \in Seq(Symbols) /\ Len(a) = n + 1 /\ \A i \in 1 .. n + 1 : a[i] = file[i + 1]
  BY <1>1, <1>3, <1>5
<1>8. b \in Seq(Symbols) /\ Len(b) = 2  BY <1>1, <1>3, <1>5
<1> HIDE DEF a, b
<1>9. /\ a \o b \in Seq(Symbols) /\ Len(a \o b) = n + 3
      /\ \A i \in 1 .. n + 1 : (a \o b)[i] = a[i]
  <2>1. a \o b \in Seq(Symbols) /\ Joins(a \o b, a, b)  BY <1>7, <1>8, Joined
  <2>2. Len(a \o b) = Len(a) + Len(b) /\ \A i \in 1 .. Len(a) : (a \o b)[i] = a[i]
    BY <2>1 DEF Joins
  <2>3. QED BY <1>3, <1>7, <1>8, <2>1, <2>2
<1>10. \A i \in 1 .. n + 1 : (a \o b)[i] = W[i + 1]  BY <1>1, <1>3, <1>5, <1>7, <1>9
<1>11. (a \o b)[n + 1] = W[n + 2]
  <2>1. n + 1 \in 1 .. n + 1 /\ n + 1 + 1 = n + 2  BY <1>3
  <2>2. QED BY <1>10, <2>1
<1>12. ASSUME NEW i \in 1 .. n PROVE (a \o b)[i] = written[i]
  <2>1. i \in 1 .. n + 1  BY <1>3
  <2>2. QED BY <1>2, <1>10, <2>1
<1>13. n + 1 <= Len(a \o b)  BY <1>3, <1>9
<1>14. QED BY <1>2, <1>6, <1>9, <1>11, <1>12, <1>13 DEF n

(* A decoder takes from the key file the fields of the key that was last   *)
(* written, or nothing (sdk_comm_if.cpp:129-245,                           *)
(* crypt_key_codec.cpp:64-216).                                            *)
THEOREM KeyFileIsWhole == KeySpec => []KeyComesBackWhole
<1>1. KeyInv => KeyComesBackWhole
  <2> SUFFICES ASSUME KeyInv, ReadyCryptKeyToFile # Refused, NEW k \in {1, 2, 5}
               PROVE  Decode(ReadyCryptKeyToFile, k)
                        = IF k <= Len(written) THEN SubSeq(written, 1, k) ELSE Refused
    BY DEF KeyComesBackWhole
  <2> DEFINE R == ReadyCryptKeyToFile
             n == Len(written)
  <2>1. written \in Seq(Field)  BY DEF KeyInv
  <2>2. /\ R \in Seq(Symbols) /\ n + 1 <= Len(R) /\ R[n + 1] = <<Nul>>
        /\ \A i \in 1 .. n : R[i] = written[i]
    BY ReadyIsWhole
  <2> HIDE DEF R
  <2>3. n \in Nat /\ \A i \in 1 .. n : R[i] \in Field  BY <2>1, <2>2
  <2>4. Decode(R, k) = IF Len(SubSeq(R, 1, n)) >= k THEN SubSeq(SubSeq(R, 1, n), 1, k) ELSE Refused
    BY <2>2, <2>3, DecodeTakes
  <2>5. SubSeq(R, 1, n) = written  BY <2>1, <2>2, <2>3
  <2>6. QED BY <2>3, <2>4, <2>5 DEF R
<1>2. QED BY <1>1, KeyInvInit, KeyInvStep, PTL DEF KeySpec

-----------------------------------------------------------------------------
(* The watchdog: its table and the processes of the system agree.          *)
DogTypes ==
  /\ watched \in Seq(Apps)
  /\ pidApp \in [Apps -> Pids \cup {NoPid, InvalidPid}]
  /\ runs \in [DOMAIN runs -> Apps] /\ DOMAIN runs \subseteq Pids
  /\ ended \subseteq Pids

(* The table names each process once, and only processes that the system   *)
(* has; an application with a process is in the list.                      *)
TableOK ==
  /\ \A p \in DOMAIN runs : pidApp[runs[p]] = p
  /\ \A p \in ended : p \notin DOMAIN runs /\ \E a \in Apps : pidApp[a] = p
  /\ \A a, b \in Apps : pidApp[a] = pidApp[b] => a = b \/ pidApp[a] \in {NoPid, InvalidPid}
  /\ NoneForgotten
  /\ \A a \in Apps : pidApp[a] \in Pids => \E i \in DOMAIN watched : watched[i] = a
  /\ watched = <<>> => \A a \in Apps : pidApp[a] = NoPid

DogInv == DogTypes /\ TableOK

LEMMA PidsAreIds == NoPid \notin Pids /\ InvalidPid \notin Pids
BY PidsAssumption DEF NoPid, InvalidPid

LEMMA DogInvInit == DogInit => DogInv
<1> SUFFICES ASSUME DogInit PROVE DogInv  OBVIOUS
<1>1. DogTypes  BY DEF DogInit, DogTypes
<1>2. TableOK  BY PidsAreIds DEF DogInit, TableOK, NoneForgotten
<1>3. QED BY <1>1, <1>2 DEF DogInv

-----------------------------------------------------------------------------
(* All applications are started at once, each with a process of its own.   *)
LEMMA StartKeeps ==
  ASSUME DogInv, NEW n \in 1 .. Len(AppOrder), ReadConfigureInfo(n)
  PROVE  DogInv'
<1> USE DEF DogInv
<1>1. watched' \in Seq(Apps) /\ watched' # <<>>
  BY AppsAssumption DEF ReadConfigureInfo
<1>2. \A a \in Apps : pidApp[a] = NoPid  BY DEF ReadConfigureInfo, TableOK
<1>3. DOMAIN runs = {} /\ ended = {}
  <2>1. ASSUME NEW p \in DOMAIN runs PROVE FALSE
    <3>1. runs[p] \in Apps /\ p \in Pids  BY <2>1 DEF DogTypes
    <3>2. pidApp[runs[p]] = p  BY <2>1 DEF TableOK
    <3>3. QED BY <1>2, <3>1, <3>2, PidsAreIds
  <2>2. ASSUME NEW p \in ended PROVE FALSE
    <3>1. p \in Pids  BY <2>2 DEF DogTypes
    <3>2. PICK a \in Apps : pidApp[a] = p  BY <2>2 DEF TableOK
    <3>3. QED BY <1>2, <3>1, <3>2, PidsAreIds
  <2>3. QED BY <2>1, <2>2
<1>4. CASE n < Len(AppOrder)
  <2>1. UNCHANGED <<pidApp, runs, ended>>  BY <1>4 DEF ReadConfigureInfo
  <2>2. QED BY <1>1, <1>2, <1>3, <2>1, PidsAreIds DEF DogTypes, TableOK, NoneForgotten
<1>5. CASE n = Len(AppOrder)
  <2>1. watched' = AppOrder
    BY <1>5, AppsAssumption DEF ReadConfigureInfo
  <2>2. PICK got \in Spawned(Apps) :
          /\ pidApp' = got
          /\ runs' = [p \in {got[a] : a \in Apps} \ {InvalidPid} |-> AppOf(got, p)]
    <3>1. ~(n < Len(AppOrder))
      <4>1. Len(AppOrder) \in Nat  BY AppsAssumption
      <4>2. QED BY <1>5, <4>1
    <3>2. QED BY <3>1 DEF ReadConfigureInfo
  <2>3. /\ got \in [Apps -> Pids \cup {InvalidPid}]
        /\ \A a, b \in Apps : got[a] = got[b] => a = b \/ got[a] = InvalidPid
    BY DEF Spawned, FreePids
  <2>4. \A p \in DOMAIN runs' : runs'[p] \in Apps /\ got[runs'[p]] = p
    BY <2>2, <2>3 DEF AppOf
  <2>5. DOMAIN runs' = {got[a] : a \in Apps} \ {InvalidPid} /\ ended' = {}
    BY <1>3, <2>2 DEF ReadConfigureInfo
  <2>6. DogTypes'
    <3>1. runs' \in [DOMAIN runs' -> Apps]  BY <2>2, <2>4
    <3>2. DOMAIN runs' \subseteq Pids  BY <2>3, <2>5
    <3>3. pidApp' \in [Apps -> Pids \cup {NoPid, InvalidPid}]  BY <2>2, <2>3
    <3>4. QED BY <1>1, <2>5, <3>1, <3>2, <3>3 DEF DogTypes
  <2>7. TableOK'
    <3>1. \A p \in DOMAIN runs' : pidApp'[runs'[p]] = p  BY <2>2, <2>4
    <3>2. \A a, b \in Apps : pidApp'[a] = pidApp'[b] => a = b \/ pidApp'[a] \in {NoPid, InvalidPid}
      BY <2>2, <2>3
    <3>3. \A a \in Apps : pidApp'[a] \in DOMAIN runs' \cup ended' \cup {NoPid, InvalidPid}
      BY <2>2, <2>5
    <3>4. \A a \in Apps : \E i \in DOMAIN watched' : watched'[i] = a
      BY <2>1, AppsAssumption
    <3>5. QED BY <1>1, <2>5, <3>1, <3>2, <3>3, <3>4 DEF TableOK, NoneForgotten
  <2>8. QED BY <2>6, <2>7
<1>6. QED BY <1>4, <1>5, AppsAssumption

LEMMA ExitKeeps ==
  ASSUME DogInv, NEW p \in Pids, Exit(p)
  PROVE  DogInv'
<1>1. DogTypes'  BY DEF DogInv, Exit, DogTypes
<1>2. TableOK'
  <2>1. pidApp[runs[p]] = p /\ runs[p] \in Apps  BY DEF DogInv, Exit, DogTypes, TableOK
  <2>2. QED BY <2>1 DEF DogInv, Exit, DogTypes, TableOK, NoneForgotten
<1>3. QED BY <1>1, <1>2 DEF DogInv

(* The exit of a process that is in the table: the application that is     *)
(* found is the only one with this id, and its new id is free.             *)
LEMMA RestartKeeps ==
  ASSUME DogInv, NEW p \in Pids, handle_exit(p)
  PROVE  DogInv'
<1> USE DEF DogInv
<1>1. p \in ended /\ p \notin DOMAIN runs /\ ended' = ended \ {p} /\ UNCHANGED watched
  BY DEF handle_exit, TableOK
<1>2. PICK a \in Apps : pidApp[a] = p  BY <1>1 DEF TableOK
<1>3. PICK k \in DOMAIN watched : watched[k] = a  BY <1>2 DEF TableOK
<1>4. PICK i \in DOMAIN watched, q \in FreePids \cup {p, InvalidPid} :
        /\ Finds(p, i)
        /\ pidApp' = [pidApp EXCEPT ![watched[i]] = q]
        /\ runs' = Started(watched[i], q)
  BY <1>2, <1>3 DEF handle_exit
<1>5. watched[i] = a
  <2>1. watched[i] \in Apps /\ pidApp[watched[i]] = p  BY <1>4 DEF DogTypes, Finds
  <2>2. QED BY <1>2, <2>1, PidsAreIds DEF TableOK
<1>6. /\ q \in Pids \cup {InvalidPid}
      /\ q \notin DOMAIN runs /\ q \notin ended'
      /\ \A b \in Apps \ {a} : pidApp[b] # q \/ q = InvalidPid
  <2>1. q \in Pids \cup {InvalidPid}  BY <1>4 DEF FreePids
  <2>2. q \notin DOMAIN runs /\ q \notin ended'
    BY <1>1, <1>4, PidsAreIds DEF FreePids, DogTypes
  <2>3. ASSUME NEW b \in Apps \ {a}, q # InvalidPid
        PROVE  pidApp[b] # q
    <3>1. pidApp[b] # p  BY <1>2, PidsAreIds DEF TableOK
    <3>2. pidApp[b] \in DOMAIN runs \cup ended \cup {NoPid, InvalidPid}  BY DEF TableOK, NoneForgotten
    <3>3. QED BY <1>1, <2>1, <2>2, <2>3, <3>1, <3>2, PidsAreIds
  <2>4. QED BY <2>1, <2>2, <2>3
<1>7. pidApp' = [pidApp EXCEPT ![a] = q]  BY <1>4, <1>5
<1>8. CASE q = InvalidPid
  <2>1. runs' = runs  BY <1>4, <1>8 DEF Started
  <2>2. \A x \in DOMAIN runs : runs[x] # a  BY <1>1, <1>2 DEF TableOK
  <2>3. DogTypes'  BY <1>1, <1>7, <1>8, <2>1 DEF DogTypes
  <2>4. TableOK'
    BY <1>1, <1>2, <1>3, <1>7, <1>8, <2>1, <2>2, PidsAreIds DEF DogTypes, TableOK, NoneForgotten
  <2>5. QED BY <2>3, <2>4
<1>9. CASE q # InvalidPid
  <2>1. runs' = [x \in DOMAIN runs \cup {q} |-> IF x = q THEN a ELSE runs[x]]
    BY <1>4, <1>5, <1>9 DEF Started
  <2>2. \A x \in DOMAIN runs : runs[x] # a  BY <1>1, <1>2 DEF TableOK
  <2>3. DogTypes'  BY <1>1, <1>6, <1>7, <1>9, <2>1 DEF DogTypes
  <2>4. /\ \A x \in DOMAIN runs' : pidApp'[runs'[x]] = x
        /\ \A x \in ended' : x \notin DOMAIN runs' /\ \E b \in Apps : pidApp'[b] = x
    <3>1. \A x \in DOMAIN runs' : pidApp'[runs'[x]] = x
      BY <1>7, <2>1, <2>2 DEF DogTypes, TableOK
    <3>2. ASSUME NEW x \in ended'
          PROVE  x \notin DOMAIN runs' /\ \E b \in Apps : pidApp'[b] = x
      <4>1. x \in ended /\ x # p /\ x # q  BY <1>1, <1>6
      <4>2. PICK b \in Apps : pidApp[b] = x  BY <4>1 DEF TableOK
      <4>3. b # a  BY <1>2, <4>1, <4>2
      <4>4. QED BY <1>7, <2>1, <4>1, <4>2, <4>3 DEF DogTypes, TableOK
    <3>3. QED BY <3>1, <3>2
  <2>5. \A b, c \in Apps : pidApp'[b] = pidApp'[c] => b = c \/ pidApp'[b] \in {NoPid, InvalidPid}
    BY <1>6, <1>7, <1>9 DEF DogTypes, TableOK
  <2>6. NoneForgotten'
    <3> SUFFICES ASSUME NEW b \in Apps
                 PROVE  pidApp'[b] \in DOMAIN runs' \cup ended' \cup {NoPid, InvalidPid}
      BY DEF NoneForgotten
    <3>1. CASE b = a  BY <1>7, <2>1, <3>1 DEF DogTypes
    <3>2. CASE b # a
      <4>1. pidApp'[b] = pidApp[b] /\ pidApp[b] # p
        BY <1>2, <1>7, <3>2, PidsAreIds DEF DogTypes, TableOK
      <4>2. QED BY <1>1, <2>1, <4>1 DEF TableOK, NoneForgotten
    <3>3. QED BY <3>1, <3>2
  <2>7. \A b \in Apps : pidApp'[b] \in Pids => \E j \in DOMAIN watched' : watched'[j] = b
    BY <1>1, <1>3, <1>7 DEF DogTypes, TableOK
  <2>8. watched' # <<>>  BY <1>1, <1>3
  <2>9. QED BY <2>3, <2>4, <2>5, <2>6, <2>7, <2>8 DEF TableOK
<1>10. QED BY <1>8, <1>9

-----------------------------------------------------------------------------
LEMMA DogInvStep == DogInv /\ [DogNext]_dogVars => DogInv'
<1> SUFFICES ASSUME DogInv, [DogNext]_dogVars PROVE DogInv'  OBVIOUS
<1>1. CASE UNCHANGED dogVars
  BY <1>1 DEF dogVars, DogInv, DogTypes, TableOK, NoneForgotten
<1>2. QED BY <1>1, StartKeeps, ExitKeeps, RestartKeeps DEF DogNext

(* Every process that runs or whose exit is to be handled is that of one   *)
(* application, no application has two, and none that was started is       *)
(* forgotten, whatever ids the system deals again                          *)
(* (watchdog_handler.cpp:27-43, 107-119).                                  *)
THEOREM TableIsRight == DogSpec => []EachIsWatched
<1>1. DogInv => EachIsWatched
  <2> SUFFICES ASSUME DogInv PROVE EachIsWatched  OBVIOUS
  <2>1. ASSUME NEW p \in ended
        PROVE  Cardinality({a \in Apps : pidApp[a] = p}) = 1
    <3>1. PICK a \in Apps : pidApp[a] = p  BY <2>1 DEF DogInv, TableOK
    <3>2. p \notin {NoPid, InvalidPid}  BY <2>1, PidsAreIds DEF DogInv, DogTypes
    <3>3. {b \in Apps : pidApp[b] = p} = {a}  BY <3>1, <3>2 DEF DogInv, TableOK
    <3>4. QED BY <3>3, FS_Singleton
  <2>2. OneInstance  BY <2>1 DEF DogInv, TableOK, OneInstance
  <2>3. QED BY <2>2 DEF DogInv, TableOK, EachIsWatched
<1>2. QED BY <1>1, DogInvInit, DogInvStep, PTL DEF DogSpec

-----------------------------------------------------------------------------
(* The Merkle tree.  The induction that its loops need is over a set of    *)
(* numbers: a number outside of it would have a least one.                 *)
LEMMA Least ==
  ASSUME NEW T \in SUBSET Nat, T # {}
  PROVE  \E m \in T : \A n \in T : m <= n
<1> DEFINE R == OpToRel(<, Nat)
<1>1. IsWellFoundedOn(R, Nat)  BY NatLessThanWellFounded
<1>2. PICK m \in T : \A y \in T : ~(<<y, m>> \in R)
  <2> HIDE DEF R
  <2> QED BY <1>1, WFMin, Zenon
<1>3. \A y \in T : y < m => <<y, m>> \in R  BY DEF OpToRel
<1>4. \A n \in T : ~(n < m)  BY <1>2, <1>3, Zenon
<1>5. \A n \in T : n \in Int  OBVIOUS
<1>6. QED BY <1>4, <1>5

LEMMA SetInduction ==
  ASSUME NEW S, 0 \in S, \A n \in Nat : n \in S => n + 1 \in S
  PROVE  \A n \in Nat : n \in S
<1> SUFFICES ASSUME NEW x \in Nat, x \notin S PROVE FALSE  OBVIOUS
<1> DEFINE T == {n \in Nat : n \notin S}
<1>1. T \in SUBSET Nat /\ T # {}  OBVIOUS
<1>2. PICK m \in T : \A n \in T : m <= n  BY <1>1, Least
<1>3. m # 0 /\ m - 1 \in Nat /\ m - 1 \in S  BY <1>2
<1>4. QED BY <1>2, <1>3

(* Half of the nodes, and fewer than there were.                           *)
LEMMA NewSizeHalves ==
  ASSUME NEW size \in Nat
  PROVE  /\ NewSize(size) \in Nat
         /\ 2 * NewSize(size) <= size + 1 /\ size <= 2 * NewSize(size)
         /\ size > 1 => NewSize(size) < size /\ NewSize(size) >= 1
BY DEF NewSize

(* The array of a level after k of its parents.                            *)
Partly(arr, size, k) ==
  [i \in 1 .. Len(arr) |-> IF i <= k THEN ParentOf(arr, i, size) ELSE arr[i]]

LEMMA PartlyStep ==
  ASSUME NEW arr, NEW size \in Nat, Len(arr) \in Nat, size <= Len(arr),
         NEW k \in Nat, k >= 1, k <= NewSize(size)
  PROVE  LET a == Partly(arr, size, k - 1) IN
         [a EXCEPT ![k] = ParentOf(a, k, size)] = Partly(arr, size, k)
<1> DEFINE a == Partly(arr, size, k - 1)
<1>1. 2 * k - 1 <= size /\ k <= Len(arr) /\ k - 1 \in Nat
  <2>1. NewSize(size) \in Nat /\ 2 * NewSize(size) <= size + 1  BY NewSizeHalves
  <2>2. 2 * k <= 2 * NewSize(size)  BY <2>1
  <2>3. QED BY <2>1, <2>2
<1>2. a[2 * k - 1] = arr[2 * k - 1]  BY <1>1 DEF Partly
<1>3. 2 * k <= size => a[2 * k] = arr[2 * k]  BY <1>1 DEF Partly
<1>4. ParentOf(a, k, size) = ParentOf(arr, k, size)  BY <1>2, <1>3 DEF ParentOf
<1>5. [a EXCEPT ![k] = ParentOf(arr, k, size)] = Partly(arr, size, k)
  <2> DEFINE v == ParentOf(arr, k, size)
  <2>1. v = ParentOf(arr, k, size)  OBVIOUS
  <2> HIDE DEF v
  <2>2. a = [i \in 1 .. Len(arr) |-> a[i]]  BY DEF Partly
  <2>3. \A i \in 1 .. Len(arr) : i # k => a[i] = Partly(arr, size, k)[i]  BY <1>1 DEF Partly
  <2>4. Partly(arr, size, k)[k] = v  BY <1>1, <2>1 DEF Partly
  <2>5. Partly(arr, size, k) = [i \in 1 .. Len(arr) |-> Partly(arr, size, k)[i]]  BY DEF Partly
  <2> HIDE DEF a
  <2>6. QED BY <1>1, <2>1, <2>2, <2>3, <2>4, <2>5
<1>6. QED BY <1>4, <1>5

LEMMA PartlyNone ==
  ASSUME NEW arr, NEW size, Len(arr) \in Nat, arr = [i \in 1 .. Len(arr) |-> arr[i]]
  PROVE  Partly(arr, size, 0) = arr
BY DEF Partly

LEMMA LevelInPlace ==
  ASSUME NEW arr, NEW size \in Nat, Len(arr) \in Nat, size <= Len(arr),
         arr = [i \in 1 .. Len(arr) |-> arr[i]]
  PROVE  Level(arr, size) = Partly(arr, size, NewSize(size))
<1> DEFINE P == NewSize(size)
<1> DEFINE E(g) == g = [k \in 0 .. P |->
                          IF k = 0 THEN arr
                          ELSE LET a == g[k - 1] IN [a EXCEPT ![k] = ParentOf(a, k, size)]]
<1> DEFINE done == CHOOSE g : E(g)
<1> DEFINE whole == [k \in 0 .. P |-> Partly(arr, size, k)]
<1>0. P \in Nat  BY NewSizeHalves
<1>1. E(whole)
  <2> SUFFICES ASSUME NEW k \in 0 .. P
               PROVE  whole[k] = IF k = 0 THEN arr
                        ELSE LET a == whole[k - 1] IN [a EXCEPT ![k] = ParentOf(a, k, size)]
    BY Zenon
  <2>1. CASE k = 0  BY <2>1, PartlyNone, <1>0
  <2>2. CASE k # 0
    <3>1. whole[k] = Partly(arr, size, k)  OBVIOUS
    <3>2. k \in Nat /\ k >= 1 /\ k <= P /\ k - 1 \in 0 .. P  BY <2>2, <1>0
    <3>3. whole[k - 1] = Partly(arr, size, k - 1)  BY <3>2
    <3>4. QED BY <3>1, <3>2, <3>3, <2>2, PartlyStep
  <2>3. QED BY <2>1, <2>2
<1>2. E(done)
  <2> HIDE DEF E
  <2> QED BY <1>1
<1>3. done[0] = arr
  <2> HIDE DEF done
  <2> QED BY <1>2, <1>0
<1>4. \A k \in 1 .. P : LET a == done[k - 1] IN done[k] = [a EXCEPT ![k] = ParentOf(a, k, size)]
  <2> HIDE DEF done
  <2> SUFFICES ASSUME NEW k \in 1 .. P
               PROVE  LET a == done[k - 1] IN done[k] = [a EXCEPT ![k] = ParentOf(a, k, size)]
    OBVIOUS
  <2>1. k \in 0 .. P /\ k # 0  BY <1>0
  <2>2. QED BY <1>2, <2>1, Zenon
<1> DEFINE S == {k \in Nat : k <= P => done[k] = Partly(arr, size, k)}
<1>5. \A k \in Nat : k \in S
  <2> HIDE DEF done
  <2>1. 0 \in S  BY <1>3, PartlyNone
  <2>2. \A k \in Nat : k \in S => k + 1 \in S
    <3> SUFFICES ASSUME NEW k \in Nat, k \in S, k + 1 <= P
                 PROVE  done[k + 1] = Partly(arr, size, k + 1)
      BY <1>0
    <3>1. done[k] = Partly(arr, size, k)  BY <1>0
    <3>2. k + 1 \in 1 .. P /\ (k + 1) - 1 = k  BY <1>0
    <3>3. done[k + 1] = [done[k] EXCEPT ![k + 1] = ParentOf(done[k], k + 1, size)]  BY <1>4, <3>2
    <3>4. k + 1 \in Nat /\ k + 1 >= 1 /\ k + 1 <= NewSize(size)  BY <3>2
    <3>5. QED BY <3>1, <3>2, <3>3, <3>4, PartlyStep
  <2> HIDE DEF S
  <2>3. QED BY <2>1, <2>2, SetInduction
<1>6. Level(arr, size) = done[P]  BY DEF Level
<1>7. QED BY <1>0, <1>5, <1>6

(* A function over 1 .. n is a sequence of length n.                       *)
LEMMA LenOfArray ==
  ASSUME NEW n \in Nat, NEW s, s = [k \in 1 .. n |-> s[k]]
  PROVE  Len(s) = n
<1> DEFINE V == {s[k] : k \in 1 .. n}
<1>1. s \in [1 .. n -> V]  OBVIOUS
<1>2. s \in Seq(V)  BY <1>1
<1>3. DOMAIN s = 1 .. n  BY <1>1
<1>4. DOMAIN s = 1 .. Len(s) /\ Len(s) \in Nat  BY <1>2
<1>5. QED BY <1>3, <1>4

(* The level above one that is not the last, and what a round of the loop  *)
(* does to the array and its size.                                         *)
Above(s) == IF Len(s) > 1 THEN [k \in 1 .. NewSize(Len(s)) |-> ParentOf(s, k, Len(s))] ELSE s

OneRound(t) == IF t.size > 1 THEN [a |-> Level(t.a, t.size), size |-> NewSize(t.size)] ELSE t

(* The recursions have solutions, so CHOOSE takes one.                     *)
IsLevels(g, leaves, n) == g = [h \in 0 .. n |-> IF h = 0 THEN leaves ELSE Above(g[h - 1])]

IsRounds(g, arr, size, n) ==
  g = [i \in 0 .. n |-> IF i = 0 THEN [a |-> arr, size |-> size] ELSE OneRound(g[i - 1])]

LEMMA LevelsExist ==
  ASSUME NEW leaves
  PROVE  \A n \in Nat : \E g : IsLevels(g, leaves, n)
<1> DEFINE S == {n \in Nat : \E g : IsLevels(g, leaves, n)}
<1>1. 0 \in S
  <2>1. IsLevels([h \in 0 .. 0 |-> leaves], leaves, 0)  BY DEF IsLevels
  <2>2. QED BY <2>1
<1>2. ASSUME NEW n \in Nat, n \in S PROVE n + 1 \in S
  <2>1. PICK g : IsLevels(g, leaves, n)  BY <1>2
  <2> DEFINE f == [h \in 0 .. n + 1 |-> IF h <= n THEN g[h] ELSE Above(g[n])]
  <2>2. \A h \in 0 .. n : g[h] = IF h = 0 THEN leaves ELSE Above(g[h - 1])
    BY <2>1, Zenon DEF IsLevels
  <2>3. ASSUME NEW h \in 0 .. n + 1
        PROVE  f[h] = IF h = 0 THEN leaves ELSE Above(f[h - 1])
    <3>1. CASE h = 0  BY <3>1, <2>2
    <3>2. CASE h # 0 /\ h <= n
      <4>1. h \in 0 .. n /\ h - 1 \in 0 .. n + 1 /\ h - 1 <= n  BY <3>2
      <4>2. f[h] = g[h] /\ f[h - 1] = g[h - 1]  BY <3>2, <4>1
      <4>3. QED BY <3>2, <4>1, <4>2, <2>2
    <3>3. CASE h = n + 1
      <4>1. ~(h <= n) /\ h # 0 /\ h - 1 = n /\ n \in 0 .. n + 1  BY <3>3
      <4>2. f[h] = Above(g[n]) /\ f[n] = g[n]  BY <3>3, <4>1
      <4>3. QED BY <4>1, <4>2
    <3>4. QED BY <3>1, <3>2, <3>3
  <2>4. IsLevels(f, leaves, n + 1)
    <3>1. f = [h \in 0 .. n + 1 |-> f[h]]  OBVIOUS
    <3> HIDE DEF f
    <3>2. [h \in 0 .. n + 1 |-> f[h]]
            = [h \in 0 .. n + 1 |-> IF h = 0 THEN leaves ELSE Above(f[h - 1])]
      BY <2>3, Zenon
    <3>3. QED BY <3>1, <3>2, Zenon DEF IsLevels
  <2>5. QED BY <2>4
<1> HIDE DEF S
<1>3. \A n \in Nat : n \in S  BY <1>1, <1>2, SetInduction
<1>4. QED BY <1>3 DEF S

LEMMA RoundsExist ==
  ASSUME NEW arr, NEW size
  PROVE  \A n \in Nat : \E g : IsRounds(g, arr, size, n)
<1> DEFINE first == [a |-> arr, size |-> size]
           S == {n \in Nat : \E g : IsRounds(g, arr, size, n)}
<1>1. 0 \in S
  <2>1. IsRounds([i \in 0 .. 0 |-> first], arr, size, 0)  BY DEF IsRounds
  <2>2. QED BY <2>1
<1>2. ASSUME NEW n \in Nat, n \in S PROVE n + 1 \in S
  <2>1. PICK g : IsRounds(g, arr, size, n)  BY <1>2
  <2> DEFINE f == [i \in 0 .. n + 1 |-> IF i <= n THEN g[i] ELSE OneRound(g[n])]
  <2>2. \A i \in 0 .. n : g[i] = IF i = 0 THEN first ELSE OneRound(g[i - 1])
    BY <2>1, Zenon DEF IsRounds
  <2> HIDE DEF first
  <2>3. ASSUME NEW i \in 0 .. n + 1
        PROVE  f[i] = IF i = 0 THEN first ELSE OneRound(f[i - 1])
    <3>1. CASE i = 0  BY <3>1, <2>2
    <3>2. CASE i # 0 /\ i <= n
      <4>1. i \in 0 .. n /\ i - 1 \in 0 .. n + 1 /\ i - 1 <= n  BY <3>2
      <4>2. f[i] = g[i] /\ f[i - 1] = g[i - 1]  BY <3>2, <4>1
      <4>3. QED BY <3>2, <4>1, <4>2, <2>2
    <3>3. CASE i = n + 1
      <4>1. ~(i <= n) /\ i # 0 /\ i - 1 = n /\ n \in 0 .. n + 1  BY <3>3
      <4>2. f[i] = OneRound(g[n]) /\ f[n] = g[n]  BY <3>3, <4>1
      <4>3. QED BY <4>1, <4>2
    <3>4. QED BY <3>1, <3>2, <3>3
  <2>4. IsRounds(f, arr, size, n + 1)
    <3>1. f = [i \in 0 .. n + 1 |-> f[i]]  OBVIOUS
    <3> HIDE DEF f
    <3>2. [i \in 0 .. n + 1 |-> f[i]]
            = [i \in 0 .. n + 1 |-> IF i = 0 THEN first ELSE OneRound(f[i - 1])]
      BY <2>3, Zenon
    <3>3. QED BY <3>1, <3>2, Zenon DEF IsRounds, first
  <2>5. QED BY <2>4
<1> HIDE DEF S
<1>3. \A n \in Nat : n \in S  BY <1>1, <1>2, SetInduction
<1>4. QED BY <1>3 DEF S

(* What the two recursions are at each of their arguments.                 *)
LEMMA LevelsOfAt ==
  ASSUME NEW leaves, Len(leaves) \in Nat
  PROVE  /\ LevelsOf(leaves)[0] = leaves
         /\ \A h \in 1 .. Len(leaves) :
              LevelsOf(leaves)[h] = Above(LevelsOf(leaves)[h - 1])
<1> DEFINE level == CHOOSE g : IsLevels(g, leaves, Len(leaves))
<1>1. LevelsOf(leaves) = level  BY Zenon DEF LevelsOf, IsLevels, Above
<1>2. IsLevels(level, leaves, Len(leaves))  BY LevelsExist
<1> HIDE DEF level
<1>3. \A h \in 0 .. Len(leaves) : level[h] = IF h = 0 THEN leaves ELSE Above(level[h - 1])
  BY <1>2, Zenon DEF IsLevels
<1>4. level[0] = leaves  BY <1>3
<1>5. ASSUME NEW h \in 1 .. Len(leaves) PROVE level[h] = Above(level[h - 1])
  BY <1>3
<1>6. QED BY <1>1, <1>4, <1>5

LEMMA RoundsAt ==
  ASSUME NEW arr, NEW size \in Nat
  PROVE  /\ Rounds(arr, size)[0].a = arr /\ Rounds(arr, size)[0].size = size
         /\ \A i \in 1 .. size :
              Rounds(arr, size)[i] = OneRound(Rounds(arr, size)[i - 1])
<1> DEFINE after == CHOOSE g : IsRounds(g, arr, size, size)
           first == [a |-> arr, size |-> size]
<1>1. Rounds(arr, size) = after  BY Zenon DEF Rounds, IsRounds, OneRound
<1>2. IsRounds(after, arr, size, size)  BY RoundsExist
<1> HIDE DEF after
<1>3. \A i \in 0 .. size : after[i] = IF i = 0 THEN first ELSE OneRound(after[i - 1])
  BY <1>2, Zenon DEF IsRounds
<1> HIDE DEF first
<1>4. after[0] = first  BY <1>3
<1>5. first.a = arr /\ first.size = size  BY DEF first
<1>6. ASSUME NEW i \in 1 .. size PROVE after[i] = OneRound(after[i - 1])
  BY <1>3
<1>7. QED BY <1>1, <1>4, <1>5, <1>6

IsArray(s) == Len(s) \in Nat /\ s = [k \in 1 .. Len(s) |-> s[k]]

(* The level above: half as many nodes, each made of two neighbours.       *)
LEMMA AboveIs ==
  ASSUME NEW s, IsArray(s)
  PROVE  /\ Len(s) > 1 => /\ IsArray(Above(s)) /\ Len(Above(s)) = NewSize(Len(s))
                          /\ \A k \in 1 .. NewSize(Len(s)) : Above(s)[k] = ParentOf(s, k, Len(s))
         /\ ~(Len(s) > 1) => Above(s) = s
<1>1. CASE Len(s) > 1
  <2> DEFINE n == NewSize(Len(s))
  <2>1. n \in Nat  BY NewSizeHalves DEF IsArray
  <2>2. Above(s) = [k \in 1 .. n |-> ParentOf(s, k, Len(s))]  BY <1>1, Zenon DEF Above
  <2> HIDE DEF n
  <2>3. Above(s) = [k \in 1 .. n |-> Above(s)[k]]  BY <2>2
  <2>4. Len(Above(s)) = n  BY <2>1, <2>3, LenOfArray
  <2>5. QED BY <1>1, <2>1, <2>2, <2>3, <2>4 DEF IsArray, n
<1>2. CASE ~(Len(s) > 1)  BY <1>2 DEF Above
<1>3. QED BY <1>1, <1>2

(* The front of an array holds a level.                                    *)
Holds(t, s, room) ==
  /\ IsArray(s) /\ Len(s) >= 1 /\ Len(s) <= room
  /\ IsArray(t.a) /\ Len(t.a) = room /\ t.size = Len(s)
  /\ \A k \in 1 .. Len(s) : t.a[k] = s[k]

(* A round in place leaves the level above in the front.                   *)
LEMMA RoundHolds ==
  ASSUME NEW t, NEW s, NEW room \in Nat, Holds(t, s, room)
  PROVE  Holds(OneRound(t), Above(s), room)
<1>1. CASE ~(t.size > 1)
  <2>1. OneRound(t) = t /\ Above(s) = s  BY <1>1, AboveIs DEF OneRound, Holds
  <2>2. QED BY <2>1
<1>2. CASE t.size > 1
  <2> DEFINE n == NewSize(Len(s))
             u == OneRound(t)
             b == Partly(t.a, Len(s), n)
  <2>1. Len(s) \in Nat /\ Len(s) > 1 /\ t.size = Len(s) /\ IsArray(s) /\ IsArray(t.a)
        /\ Len(t.a) = room /\ Len(s) <= room
    BY <1>2 DEF Holds, IsArray
  <2>2. n \in Nat /\ n < Len(s) /\ n >= 1 /\ 2 * n <= Len(s) + 1  BY <2>1, NewSizeHalves
  <2>3. Level(t.a, Len(s)) = b  BY <2>1, LevelInPlace DEF IsArray
  <2>4. u = [a |-> b, size |-> n]  BY <1>2, <2>1, <2>3 DEF OneRound
  <2>5. u.a = b /\ u.size = n  BY <2>4
  <2>6. b = [i \in 1 .. room |-> IF i <= n THEN ParentOf(t.a, i, Len(s)) ELSE t.a[i]]
    BY <2>1 DEF Partly
  <2>7. b = [i \in 1 .. room |-> b[i]]
    <3> HIDE DEF b
    <3> QED BY <2>6
  <2>8. IsArray(b) /\ Len(b) = room
    <3> HIDE DEF b
    <3> QED BY <2>7, LenOfArray DEF IsArray
  <2>9. IsArray(Above(s)) /\ Len(Above(s)) = n  BY <2>1, AboveIs
  <2>10. ASSUME NEW k \in 1 .. n PROVE b[k] = Above(s)[k]
    <3>1. 2 * k - 1 \in 1 .. Len(s) /\ (2 * k <= Len(s) => 2 * k \in 1 .. Len(s)) /\ k \in 1 .. room
      <4>1. 2 * k <= 2 * n /\ 2 * k - 1 >= 1  BY <2>2
      <4>2. QED BY <4>1, <2>1, <2>2
    <3>2. t.a[2 * k - 1] = s[2 * k - 1] /\ (2 * k <= Len(s) => t.a[2 * k] = s[2 * k])
      BY <3>1 DEF Holds
    <3>3. ParentOf(t.a, k, Len(s)) = ParentOf(s, k, Len(s))  BY <3>2 DEF ParentOf
    <3>4. b[k] = ParentOf(t.a, k, Len(s))
      <4> HIDE DEF b, n
      <4> QED BY <2>6, <3>1, <2>2
    <3>5. Above(s)[k] = ParentOf(s, k, Len(s))  BY <2>1, AboveIs
    <3>6. QED BY <3>3, <3>4, <3>5
  <2> HIDE DEF b, n, u
  <2>11. QED BY <2>1, <2>2, <2>5, <2>8, <2>9, <2>10 DEF Holds, u
<1>3. QED BY <1>1, <1>2

(* Round by round, the front of the array is the level; and each round     *)
(* leaves one node less at least.                                          *)
LEMMA RoundsHold ==
  ASSUME NEW arr, NEW leaves, IsArray(arr), IsArray(leaves), Len(leaves) >= 1,
         Len(leaves) <= Len(arr), \A k \in 1 .. Len(leaves) : arr[k] = leaves[k]
  PROVE  \A i \in 0 .. Len(leaves) :
           /\ Holds(Rounds(arr, Len(leaves))[i], LevelsOf(leaves)[i], Len(arr))
           /\ Len(LevelsOf(leaves)[i]) = 1 \/ Len(LevelsOf(leaves)[i]) + i <= Len(leaves)
<1> DEFINE n == Len(leaves)
           room == Len(arr)
           T == Rounds(arr, n)
           L == LevelsOf(leaves)
           Fewer(i) == Len(L[i]) = 1 \/ Len(L[i]) + i <= n
           S == {i \in Nat : i <= n => Holds(T[i], L[i], room) /\ Fewer(i)}
<1>1. n \in Nat /\ room \in Nat  BY DEF IsArray
<1>2. T[0].a = arr /\ T[0].size = n /\ \A i \in 1 .. n : T[i] = OneRound(T[i - 1])
  <2>1. n \in Nat  BY <1>1
  <2> HIDE DEF n
  <2>2. QED BY <2>1, RoundsAt
<1>3. L[0] = leaves /\ \A i \in 1 .. n : L[i] = Above(L[i - 1])
  BY <1>1, LevelsOfAt, Zenon
<1> HIDE DEF T, L
<1>4. Holds(T[0], L[0], room) /\ Fewer(0)
  BY <1>1, <1>2, <1>3 DEF Holds
<1> HIDE DEF n, room
<1>5. ASSUME NEW i \in Nat, i + 1 <= n, Holds(T[i], L[i], room), Fewer(i)
      PROVE  Holds(T[i + 1], L[i + 1], room) /\ Fewer(i + 1)
  <2>1. i + 1 \in 1 .. n /\ (i + 1) - 1 = i  BY <1>1, <1>5
  <2>2. T[i + 1] = OneRound(T[i]) /\ L[i + 1] = Above(L[i])  BY <1>2, <1>3, <2>1
  <2>3. Holds(T[i + 1], L[i + 1], room)  BY <1>1, <1>5, <2>2, RoundHolds
  <2>4. IsArray(L[i]) /\ Len(L[i]) \in Nat /\ Len(L[i]) >= 1  BY <1>5 DEF Holds, IsArray
  <2> DEFINE now == Len(L[i])
             next == Len(L[i + 1])
  <2>5. next = 1 \/ next + (i + 1) <= n
   <3>0. now \in Nat /\ now >= 1 /\ (now = 1 \/ now + i <= n)  BY <1>5, <2>4
   <3>1. CASE now > 1
    <4>1. next = NewSize(now)  BY <2>2, <2>4, <3>1, AboveIs
    <4>2. NewSize(now) \in Nat /\ NewSize(now) < now  BY <3>0, <3>1, NewSizeHalves
    <4> HIDE DEF now, next
    <4>3. QED BY <1>1, <3>0, <3>1, <4>1, <4>2
   <3>2. CASE ~(now > 1)
    <4>1. next = now  BY <2>2, <2>4, <3>2, AboveIs
    <4> HIDE DEF now, next
    <4>2. QED BY <3>0, <3>2, <4>1
   <3>3. QED BY <3>1, <3>2
  <2>6. QED BY <2>3, <2>5
<1>6. \A i \in Nat : i \in S
  <2> HIDE DEF Fewer
  <2>1. 0 \in S  BY <1>4
  <2>2. ASSUME NEW i \in Nat, i \in S PROVE i + 1 \in S
    BY <1>1, <1>5, <2>2
  <2> HIDE DEF S
  <2>3. QED BY <2>1, <2>2, SetInduction
<1>7. ASSUME NEW i \in 0 .. n PROVE Holds(T[i], L[i], room) /\ Fewer(i)
  <2> HIDE DEF Fewer
  <2> QED BY <1>1, <1>6
<1>8. QED BY <1>7 DEF T, L, n, room

(* BuildMerkleTree, for an array of any length with any leaves in front:   *)
(* its loop ends with one node, in place of the first leaf, and that is    *)
(* the root; the rest of the array stays an array of the same length.      *)
THEOREM OneNodeIsLeft ==
  ASSUME NEW arr, NEW leaves, IsArray(arr), IsArray(leaves), Len(leaves) >= 1,
         Len(leaves) <= Len(arr), \A k \in 1 .. Len(leaves) : arr[k] = leaves[k]
  PROVE  /\ IsArray(BuildMerkleTree(arr, Len(leaves)))
         /\ Len(BuildMerkleTree(arr, Len(leaves))) = Len(arr)
         /\ Rounds(arr, Len(leaves))[Len(leaves)].size = 1
         /\ Len(LevelsOf(leaves)[Len(leaves)]) = 1
         /\ BuildMerkleTree(arr, Len(leaves))[1] = RootOf(leaves)
<1> DEFINE n == Len(leaves)
           t == Rounds(arr, n)[n]
           s == LevelsOf(leaves)[n]
<1>1. n \in Nat /\ n \in 0 .. n  BY DEF IsArray
<1>2. Holds(t, s, Len(arr)) /\ (Len(s) = 1 \/ Len(s) + n <= n)  BY <1>1, RoundsHold
<1> HIDE DEF t, s, n
<1>3. IsArray(t.a) /\ Len(t.a) = Len(arr) /\ t.size = Len(s) /\ Len(s) \in Nat /\ Len(s) >= 1
      /\ t.a[1] = s[1]
  <2>1. Len(s) \in Nat /\ Len(s) >= 1  BY <1>2 DEF Holds, IsArray
  <2>2. 1 \in 1 .. Len(s)  BY <2>1
  <2>3. QED BY <1>2, <2>1, <2>2 DEF Holds
<1>4. Len(s) = 1  BY <1>1, <1>2, <1>3
<1>5. BuildMerkleTree(arr, n) = t.a  BY Zenon DEF BuildMerkleTree, t
<1>6. RootOf(leaves) = s[1]  BY Zenon DEF RootOf, s, n
<1>7. QED BY <1>3, <1>4, <1>5, <1>6 DEF t, s, n

-----------------------------------------------------------------------------
(* Until the tree is built, the front of the array holds the leaves that   *)
(* were added; what lies behind them is whatever an earlier tree left.     *)
LeavesInFront == ~built => \A i \in 1 .. curNum : nodes[i] = Leaf(given[i])

TreeInv ==
  /\ IsArray(nodes) /\ given \in Seq({"a", "b"}) /\ built \in BOOLEAN
  /\ curNum = Len(given) /\ curNum <= Len(nodes)
  /\ LeavesInFront /\ RootIsOfLeaves

LEMMA TreeInvInit == TreeInit => TreeInv
<1> SUFFICES ASSUME TreeInit PROVE TreeInv  OBVIOUS
<1>1. InitCount \in Nat  BY CountsAssumption
<1>2. nodes = [i \in 1 .. InitCount |-> nodes[i]]  BY DEF TreeInit
<1>3. Len(nodes) = InitCount  BY <1>1, <1>2, LenOfArray
<1>4. given \in Seq({"a", "b"}) /\ Len(given) = 0 /\ built = FALSE /\ curNum = 0  BY DEF TreeInit
<1>5. IsArray(nodes) /\ curNum <= Len(nodes)  BY <1>1, <1>2, <1>3, <1>4 DEF IsArray
<1>6. LeavesInFront /\ RootIsOfLeaves
  BY <1>4 DEF LeavesInFront, RootIsOfLeaves
<1>7. QED BY <1>4, <1>5, <1>6 DEF TreeInv

(* A leaf goes behind those before, in an array that has room for it.      *)
LEMMA TreeInvAdd ==
  ASSUME TreeInv, NEW d \in {"a", "b"}, AddLeafNode(d)
  PROVE  TreeInv'
<1> DEFINE room == IF curNum >= Len(nodes) THEN InceaseNode(nodes, curNum) ELSE nodes
<1>1. ~built /\ nodes' = [room EXCEPT ![curNum + 1] = Leaf(d)] /\ curNum' = curNum + 1
      /\ given' = Append(given, d) /\ built' = built
  BY DEF AddLeafNode
<1>2. curNum \in Nat /\ Len(nodes) \in Nat /\ curNum <= Len(nodes) /\ IsArray(nodes)
      /\ given \in Seq({"a", "b"}) /\ curNum = Len(given)
  BY DEF TreeInv, IsArray
<1>3. IsArray(room) /\ curNum + 1 <= Len(room) /\ \A i \in 1 .. curNum : room[i] = nodes[i]
  <2>1. CASE curNum >= Len(nodes)
    <3> DEFINE n == Len(nodes) + Increase
    <3>1. n \in Nat /\ n >= curNum + 1  BY <1>2, CountsAssumption
    <3>2. room = [i \in 1 .. n |-> IF i <= curNum THEN nodes[i] ELSE Unset]
      BY <2>1 DEF InceaseNode
    <3> HIDE DEF n, room
    <3>3. room = [i \in 1 .. n |-> room[i]]  BY <3>2
    <3>4. Len(room) = n  BY <3>1, <3>3, LenOfArray
    <3>5. \A i \in 1 .. curNum : room[i] = nodes[i]  BY <1>2, <3>1, <3>2
    <3>6. QED BY <3>1, <3>3, <3>4, <3>5 DEF IsArray
  <2>2. CASE ~(curNum >= Len(nodes))
    <3>1. room = nodes  BY <2>2
    <3>2. QED BY <1>2, <2>2, <3>1
  <2>3. QED BY <2>1, <2>2
<1> HIDE DEF room
<1>4. nodes' = [i \in 1 .. Len(room) |-> nodes'[i]]  BY <1>1, <1>3 DEF IsArray
<1>5. IsArray(nodes') /\ Len(nodes') = Len(room)
  <2>1. Len(room) \in Nat  BY <1>3 DEF IsArray
  <2>2. Len(nodes') = Len(room)  BY <1>4, <2>1, LenOfArray
  <2>3. QED BY <1>4, <2>1, <2>2 DEF IsArray
<1>6. given' \in Seq({"a", "b"}) /\ Len(given') = curNum + 1 /\ given'[curNum + 1] = d
      /\ \A i \in 1 .. curNum : given'[i] = given[i]
  BY <1>1, <1>2
<1>7. ASSUME NEW i \in 1 .. curNum + 1 PROVE nodes'[i] = Leaf(given'[i])
  <2>1. CASE i = curNum + 1
    <3>1. i \in 1 .. Len(room)  BY <1>2, <1>3, <2>1 DEF IsArray
    <3>2. nodes'[i] = Leaf(d)  BY <1>1, <1>3, <2>1, <3>1 DEF IsArray
    <3>3. QED BY <1>6, <2>1, <3>2
  <2>2. CASE i # curNum + 1
    <3>1. i \in 1 .. curNum /\ i \in 1 .. Len(room)  BY <1>2, <1>3, <2>2 DEF IsArray
    <3>2. nodes'[i] = nodes[i]  BY <1>1, <1>3, <2>2, <3>1 DEF IsArray
    <3>3. nodes[i] = Leaf(given[i])  BY <1>1, <3>1 DEF TreeInv, LeavesInFront
    <3>4. QED BY <1>6, <3>1, <3>2, <3>3
  <2>3. QED BY <2>1, <2>2
<1>8. LeavesInFront'  BY <1>1, <1>7 DEF LeavesInFront
<1>9. RootIsOfLeaves'  BY <1>1 DEF RootIsOfLeaves
<1>10. IsArray(nodes)'  BY <1>5 DEF IsArray
<1>11. built' \in BOOLEAN  BY <1>1 DEF TreeInv
<1>12. (curNum = Len(given))' /\ (curNum <= Len(nodes))'  BY <1>1, <1>3, <1>5, <1>6
<1>13. QED BY <1>6, <1>8, <1>9, <1>10, <1>11, <1>12 DEF TreeInv

(* The front holds the leaves, so the build leaves their root there.       *)
LEMMA TreeInvBuild ==
  ASSUME TreeInv, Build
  PROVE  TreeInv'
<1> DEFINE leaves == [i \in DOMAIN given |-> Leaf(given[i])]
<1>1. ~built /\ curNum > 0 /\ nodes' = BuildMerkleTree(nodes, curNum) /\ built' = TRUE
      /\ curNum' = curNum /\ given' = given
  BY DEF Build
<1>2. curNum \in Nat /\ Len(nodes) \in Nat /\ curNum <= Len(nodes) /\ IsArray(nodes)
      /\ given \in Seq({"a", "b"}) /\ curNum = Len(given)
  BY DEF TreeInv, IsArray
<1>3. DOMAIN given = 1 .. curNum  BY <1>2
<1>4. leaves = [i \in 1 .. curNum |-> leaves[i]]  BY <1>3
<1>5. Len(leaves) = curNum  BY <1>2, <1>4, LenOfArray
<1>6. IsArray(leaves)  BY <1>2, <1>4, <1>5 DEF IsArray
<1>7. \A i \in 1 .. Len(leaves) : nodes[i] = leaves[i]
  BY <1>1, <1>3, <1>5 DEF TreeInv, LeavesInFront
<1> HIDE DEF leaves
<1>8. Len(leaves) >= 1 /\ Len(leaves) <= Len(nodes)  BY <1>1, <1>2, <1>5
<1>9. IsArray(nodes') /\ Len(nodes') = Len(nodes) /\ nodes'[1] = RootOf(leaves)
  BY <1>1, <1>2, <1>5, <1>6, <1>7, <1>8, OneNodeIsLeft
<1>10. RootIsOfLeaves'  BY <1>1, <1>9 DEF RootIsOfLeaves, leaves
<1>11. IsArray(nodes)'  BY <1>9 DEF IsArray
<1>12. LeavesInFront'  BY <1>1 DEF LeavesInFront
<1>13. (curNum = Len(given))' /\ (curNum <= Len(nodes))'  BY <1>1, <1>2, <1>9
<1>14. (given \in Seq({"a", "b"}))' /\ (built \in BOOLEAN)'  BY <1>1, <1>2
<1>15. QED BY <1>10, <1>11, <1>12, <1>13, <1>14 DEF TreeInv

LEMMA TreeInvStep == TreeInv /\ [TreeNext]_treeVars => TreeInv'
<1> SUFFICES ASSUME TreeInv, [TreeNext]_treeVars PROVE TreeInv'  OBVIOUS
<1>1. CASE Build  BY <1>1, TreeInvBuild
<1>2. CASE \E d \in {"a", "b"} : AddLeafNode(d)  BY <1>2, TreeInvAdd
<1>3. CASE Clear
  <2>1. curNum' = 0 /\ built' = FALSE /\ given' = <<>> /\ nodes' = nodes  BY <1>3 DEF Clear
  <2>2. given' \in Seq({"a", "b"}) /\ Len(given') = 0  BY <2>1
  <2>3. IsArray(nodes)' /\ Len(nodes') \in Nat  BY <2>1 DEF TreeInv, IsArray
  <2>4. LeavesInFront' /\ RootIsOfLeaves'  BY <2>1 DEF LeavesInFront, RootIsOfLeaves
  <2>5. (curNum = Len(given))' /\ (curNum <= Len(nodes))'  BY <2>1, <2>2, <2>3
  <2>6. (given \in Seq({"a", "b"}))' /\ (built \in BOOLEAN)'  BY <2>1, <2>2
  <2>7. QED BY <2>3, <2>4, <2>5, <2>6 DEF TreeInv
<1>4. CASE UNCHANGED treeVars
  <2>1. nodes' = nodes /\ curNum' = curNum /\ built' = built /\ given' = given
    BY <1>4 DEF treeVars
  <2>2. IsArray(nodes)' /\ LeavesInFront' /\ RootIsOfLeaves'
    BY <2>1 DEF TreeInv, LeavesInFront, RootIsOfLeaves
  <2>3. (given \in Seq({"a", "b"}))' /\ (built \in BOOLEAN)' /\ (curNum = Len(given))'
        /\ (curNum <= Len(nodes))'
    BY <2>1 DEF TreeInv
  <2>4. QED BY <2>2, <2>3 DEF TreeInv
<1>5. QED BY <1>1, <1>2, <1>3, <1>4 DEF TreeNext

(* The root of a tree that was built is the root of the leaves that were   *)
(* added, in their order: for arrays of any size, grown by any step, and   *)
(* whatever an earlier tree left in them (merkel_tree.cpp:17-65).          *)
THEOREM TreeSafe == TreeSpec => []RootIsOfLeaves
<1>1. TreeSpec => []TreeInv  BY TreeInvInit, TreeInvStep, PTL DEF TreeSpec
<1>2. TreeInv => RootIsOfLeaves  BY DEF TreeInv
<1>3. QED BY <1>1, <1>2, PTL

-----------------------------------------------------------------------------
(* The functions of the encryption library: what each holds before each of *)
(* its steps, and what that means for the calls that fail.                 *)

(* A step that starts with the resources h and leaves g frees no more than *)
(* what is held; a clean one keeps nothing when it fails.                  *)
StepOK(s, h, g) ==
  /\ s.op \in {"new", "trynew", "try", "free"}
  /\ s.op \in {"new", "trynew"} => g = h \cup {s.res}
  /\ s.op = "free" => s.res \in h /\ g = h \ {s.res}
  /\ s.op = "try" => g = h
  /\ s.op \in {"try", "trynew"} => s.frees \subseteq h

CleanOK(s, h, g) ==
  StepOK(s, h, g) /\ (s.op \in {"try", "trynew"} => s.frees = h)

(* The last step returns what is held, or frees it.                        *)
EndOK(s, h, g) ==
  \/ s.op = "return" /\ g = h
  \/ s.op = "free" /\ s.res \in h /\ g = h \ {s.res}

LEMMA NewOK == \A r, h, g : g = h \cup {r} => CleanOK(New(r), h, g)
BY DEF CleanOK, StepOK, New

LEMMA TryNewOK == \A r, h, g : g = h \cup {r} => CleanOK(TryNew(r, h), h, g)
BY DEF CleanOK, StepOK, TryNew

LEMMA TryOK == \A h, g : g = h => CleanOK(Try(h), h, g)
BY DEF CleanOK, StepOK, Try

LEMMA FreeOK == \A r, h, g : r \in h /\ g = h \ {r} => CleanOK(Free(r), h, g)
BY DEF CleanOK, StepOK, Free

LEMMA CleanIsOK == \A s, h, g : CleanOK(s, h, g) => StepOK(s, h, g)
BY DEF CleanOK

LEMMA TryPartOK == \A f, h, g : g = h /\ f \subseteq h => StepOK(Try(f), h, g)
BY DEF StepOK, Try

(* What a function that ends with the step s has returned.                 *)
Returned(s) == IF s.op = "return" THEN {s.res} ELSE {}

LEMMA ReturnOK == \A r, h, g : g = h => EndOK(Return(r), h, g) /\ Returned(Return(r)) = {r}
BY DEF EndOK, Returned, Return

LEMMA FreeLastOK ==
  \A r, h, g : r \in h /\ g = h \ {r} => EndOK(Free(r), h, g) /\ Returned(Free(r)) = {}
BY DEF EndOK, Returned, Free

(* H says what the function P holds before each of its steps, and when it  *)
(* has returned.                                                           *)
Holding(P, taken, H) ==
  /\ Len(P) \in Nat \ {0} /\ H[1] = taken
  /\ \A i \in 1 .. Len(P) - 1 : StepOK(P[i], H[i], H[i + 1])
  /\ EndOK(P[Len(P)], H[Len(P)], H[Len(P) + 1])

(* A function that keeps nothing but what it returns.                      *)
Clean(P, H) ==
  /\ \A i \in 1 .. Len(P) - 1 : CleanOK(P[i], H[i], H[i + 1])
  /\ H[Len(P) + 1] = Returned(P[Len(P)])

LEMMA VbhCreateKeyFromPublicHexHolds ==
  \E H : Holding(vbhCreateKeyFromPublicHex, {}, H) /\ Clean(vbhCreateKeyFromPublicHex, H)
<1> DEFINE P == vbhCreateKeyFromPublicHex
           H ==
             <<{}, {"key"}, {"key"}, {"key", "point"}, {"key", "point"}, {"key"},
               {"key"}>>
<1>1. Len(P) = 6 /\ Len(H) = 7 /\ H[1] = {}  BY DEF vbhCreateKeyFromPublicHex
<1>2. ASSUME NEW i \in 1 .. 5 PROVE CleanOK(P[i], H[i], H[i + 1])
  <2>1. CASE i = 1  BY <2>1, NewOK DEF vbhCreateKeyFromPublicHex
  <2>2. CASE i = 2  BY <2>2, TryOK DEF vbhCreateKeyFromPublicHex
  <2>3. CASE i = 3  BY <2>3, TryNewOK DEF vbhCreateKeyFromPublicHex
  <2>4. CASE i = 4  BY <2>4, TryOK DEF vbhCreateKeyFromPublicHex
  <2>5. CASE i = 5  BY <2>5, FreeOK DEF vbhCreateKeyFromPublicHex
  <2>6. QED BY <2>1, <2>2, <2>3, <2>4, <2>5
<1>3. EndOK(P[6], H[6], H[7]) /\ H[7] = Returned(P[6])
  BY ReturnOK DEF vbhCreateKeyFromPublicHex
<1> HIDE DEF P, H
<1>4. QED BY <1>1, <1>2, <1>3, CleanIsOK DEF Holding, Clean, P

LEMMA VbhCreateKeyFromPrivateHexHolds ==
  \E H : Holding(vbhCreateKeyFromPrivateHex, {}, H) /\ Clean(vbhCreateKeyFromPrivateHex, H)
<1> DEFINE P == vbhCreateKeyFromPrivateHex
           H ==
             <<{}, {"key"}, {"key"}, {"key", "bn"}, {"key", "bn"}, {"key"}, {"key"}>>
<1>1. Len(P) = 6 /\ Len(H) = 7 /\ H[1] = {}  BY DEF vbhCreateKeyFromPrivateHex
<1>2. ASSUME NEW i \in 1 .. 5 PROVE CleanOK(P[i], H[i], H[i + 1])
  <2>1. CASE i = 1  BY <2>1, NewOK DEF vbhCreateKeyFromPrivateHex
  <2>2. CASE i = 2  BY <2>2, TryOK DEF vbhCreateKeyFromPrivateHex
  <2>3. CASE i = 3  BY <2>3, TryNewOK DEF vbhCreateKeyFromPrivateHex
  <2>4. CASE i = 4  BY <2>4, TryOK DEF vbhCreateKeyFromPrivateHex
  <2>5. CASE i = 5  BY <2>5, FreeOK DEF vbhCreateKeyFromPrivateHex
  <2>6. QED BY <2>1, <2>2, <2>3, <2>4, <2>5
<1>3. EndOK(P[6], H[6], H[7]) /\ H[7] = Returned(P[6])
  BY ReturnOK DEF vbhCreateKeyFromPrivateHex
<1> HIDE DEF P, H
<1>4. QED BY <1>1, <1>2, <1>3, CleanIsOK DEF Holding, Clean, P

LEMMA VbhEcGroupHolds ==
  \E H : Holding(vbhEcGroup, {}, H) /\ Clean(vbhEcGroup, H)
<1> DEFINE P == vbhEcGroup
           H ==
             <<{}, {"group"}, {"group"}, {"group"}>>
<1>1. Len(P) = 3 /\ Len(H) = 4 /\ H[1] = {}  BY DEF vbhEcGroup
<1>2. ASSUME NEW i \in 1 .. 2 PROVE CleanOK(P[i], H[i], H[i + 1])
  <2>1. CASE i = 1  BY <2>1, TryNewOK DEF vbhEcGroup
  <2>2. CASE i = 2  BY <2>2, TryOK DEF vbhEcGroup
  <2>3. QED BY <2>1, <2>2
<1>3. EndOK(P[3], H[3], H[4]) /\ H[4] = Returned(P[3])
  BY ReturnOK DEF vbhEcGroup
<1> HIDE DEF P, H
<1>4. QED BY <1>1, <1>2, <1>3, CleanIsOK DEF Holding, Clean, P

LEMMA VbhCreateKeyHolds ==
  \E H : Holding(vbhCreateKey, {}, H) /\ Clean(vbhCreateKey, H)
<1> DEFINE P == vbhCreateKey
           H ==
             <<{}, {"key"}, {"key"}, {"key"}, {"key"}>>
<1>1. Len(P) = 4 /\ Len(H) = 5 /\ H[1] = {}  BY DEF vbhCreateKey
<1>2. ASSUME NEW i \in 1 .. 3 PROVE CleanOK(P[i], H[i], H[i + 1])
  <2>1. CASE i = 1  BY <2>1, NewOK DEF vbhCreateKey
  <2>2. CASE i = 2  BY <2>2, TryOK DEF vbhCreateKey
  <2>3. CASE i = 3  BY <2>3, TryOK DEF vbhCreateKey
  <2>4. QED BY <2>1, <2>2, <2>3
<1>3. EndOK(P[4], H[4], H[5]) /\ H[5] = Returned(P[4])
  BY ReturnOK DEF vbhCreateKey
<1> HIDE DEF P, H
<1>4. QED BY <1>1, <1>2, <1>3, CleanIsOK DEF Holding, Clean, P

LEMMA VbhGetHexFromPrivateKeyHolds ==
  \E H : Holding(vbhGetHexFromPrivateKey, {}, H) /\ Clean(vbhGetHexFromPrivateKey, H)
<1> DEFINE P == vbhGetHexFromPrivateKey
           H ==
             <<{}, {}, {"hex"}, {"hex"}>>
<1>1. Len(P) = 3 /\ Len(H) = 4 /\ H[1] = {}  BY DEF vbhGetHexFromPrivateKey
<1>2. ASSUME NEW i \in 1 .. 2 PROVE CleanOK(P[i], H[i], H[i + 1])
  <2>1. CASE i = 1  BY <2>1, TryOK DEF vbhGetHexFromPrivateKey
  <2>2. CASE i = 2  BY <2>2, TryNewOK DEF vbhGetHexFromPrivateKey
  <2>3. QED BY <2>1, <2>2
<1>3. EndOK(P[3], H[3], H[4]) /\ H[4] = Returned(P[3])
  BY ReturnOK DEF vbhGetHexFromPrivateKey
<1> HIDE DEF P, H
<1>4. QED BY <1>1, <1>2, <1>3, CleanIsOK DEF Holding, Clean, P

LEMMA VbhGetHexFromPublicKeyHolds ==
  \E H : Holding(vbhGetHexFromPublicKey, {}, H) /\ Clean(vbhGetHexFromPublicKey, H)
<1> DEFINE P == vbhGetHexFromPublicKey
           H ==
             <<{}, {}, {}, {"hex"}, {"hex"}>>
<1>1. Len(P) = 4 /\ Len(H) = 5 /\ H[1] = {}  BY DEF vbhGetHexFromPublicKey
<1>2. ASSUME NEW i \in 1 .. 3 PROVE CleanOK(P[i], H[i], H[i + 1])
  <2>1. CASE i = 1  BY <2>1, TryOK DEF vbhGetHexFromPublicKey
  <2>2. CASE i = 2  BY <2>2, TryOK DEF vbhGetHexFromPublicKey
  <2>3. CASE i = 3  BY <2>3, TryNewOK DEF vbhGetHexFromPublicKey
  <2>4. QED BY <2>1, <2>2, <2>3
<1>3. EndOK(P[4], H[4], H[5]) /\ H[5] = Returned(P[4])
  BY ReturnOK DEF vbhGetHexFromPublicKey
<1> HIDE DEF P, H
<1>4. QED BY <1>1, <1>2, <1>3, CleanIsOK DEF Holding, Clean, P

LEMMA VbhEncryptHolds ==
  \E H : Holding(vbhEncrypt, {}, H) /\ Clean(vbhEncrypt, H)
<1> DEFINE P == vbhEncrypt
           H ==
             <<{}, {"outbuf"}, {"outbuf", "ctx"}, {"outbuf", "ctx"}, {"outbuf", "ctx"},
               {"outbuf", "ctx"}, {"outbuf", "ctx"}, {"outbuf"}, {"outbuf"}>>
<1>1. Len(P) = 8 /\ Len(H) = 9 /\ H[1] = {}  BY DEF vbhEncrypt
<1>2. ASSUME NEW i \in 1 .. 7 PROVE CleanOK(P[i], H[i], H[i + 1])
  <2>1. CASE i = 1  BY <2>1, NewOK DEF vbhEncrypt
  <2>2. CASE i = 2  BY <2>2, NewOK DEF vbhEncrypt
  <2>3. CASE i = 3  BY <2>3, TryOK DEF vbhEncrypt
  <2>4. CASE i = 4  BY <2>4, TryOK DEF vbhEncrypt
  <2>5. CASE i = 5  BY <2>5, TryOK DEF vbhEncrypt
  <2>6. CASE i = 6  BY <2>6, TryOK DEF vbhEncrypt
  <2>7. CASE i = 7  BY <2>7, FreeOK DEF vbhEncrypt
  <2>8. QED BY <2>1, <2>2, <2>3, <2>4, <2>5, <2>6, <2>7
<1>3. EndOK(P[8], H[8], H[9]) /\ H[9] = Returned(P[8])
  BY ReturnOK DEF vbhEncrypt
<1> HIDE DEF P, H
<1>4. QED BY <1>1, <1>2, <1>3, CleanIsOK DEF Holding, Clean, P

LEMMA VbhDecryptHolds ==
  \E H : Holding(vbhDecrypt, {}, H) /\ Clean(vbhDecrypt, H)
<1> DEFINE P == vbhDecrypt
           H ==
             <<{}, {}, {"outbuf"}, {"outbuf", "ctx"}, {"outbuf", "ctx"},
               {"outbuf", "ctx"}, {"outbuf", "ctx"}, {"outbuf", "ctx"}, {"outbuf"},
               {"outbuf"}>>
<1>1. Len(P) = 9 /\ Len(H) = 10 /\ H[1] = {}  BY DEF vbhDecrypt
<1>2. ASSUME NEW i \in 1 .. 8 PROVE CleanOK(P[i], H[i], H[i + 1])
  <2>1. CASE i = 1  BY <2>1, TryOK DEF vbhDecrypt
  <2>2. CASE i = 2  BY <2>2, NewOK DEF vbhDecrypt
  <2>3. CASE i = 3  BY <2>3, NewOK DEF vbhDecrypt
  <2>4. CASE i = 4  BY <2>4, TryOK DEF vbhDecrypt
  <2>5. CASE i = 5  BY <2>5, TryOK DEF vbhDecrypt
  <2>6. CASE i = 6  BY <2>6, TryOK DEF vbhDecrypt
  <2>7. CASE i = 7  BY <2>7, TryOK DEF vbhDecrypt
  <2>8. CASE i = 8  BY <2>8, FreeOK DEF vbhDecrypt
  <2>9. QED BY <2>1, <2>2, <2>3, <2>4, <2>5, <2>6, <2>7, <2>8
<1>3. EndOK(P[9], H[9], H[10]) /\ H[10] = Returned(P[9])
  BY ReturnOK DEF vbhDecrypt
<1> HIDE DEF P, H
<1>4. QED BY <1>1, <1>2, <1>3, CleanIsOK DEF Holding, Clean, P

LEMMA VbhSignHolds ==
  \E H : Holding(vbhSign, {"pEcKey"}, H) /\ Clean(vbhSign, H)
<1> DEFINE P == vbhSign
           H ==
             <<{"pEcKey"}, {"pEcKey", "signature"}, {"pEcKey", "signature"},
               {"signature"}, {"signature"}>>
<1>1. Len(P) = 4 /\ Len(H) = 5 /\ H[1] = {"pEcKey"}  BY DEF vbhSign
<1>2. ASSUME NEW i \in 1 .. 3 PROVE CleanOK(P[i], H[i], H[i + 1])
  <2>1. CASE i = 1  BY <2>1, NewOK DEF vbhSign
  <2>2. CASE i = 2  BY <2>2, TryOK DEF vbhSign
  <2>3. CASE i = 3  BY <2>3, FreeOK DEF vbhSign
  <2>4. QED BY <2>1, <2>2, <2>3
<1>3. EndOK(P[4], H[4], H[5]) /\ H[5] = Returned(P[4])
  BY ReturnOK DEF vbhSign
<1> HIDE DEF P, H
<1>4. QED BY <1>1, <1>2, <1>3, CleanIsOK DEF Holding, Clean, P

LEMMA VbhVerifySignHolds ==
  \E H : Holding(vbhVerifySign, {"pEcKey"}, H) /\ Clean(vbhVerifySign, H)
<1> DEFINE P == vbhVerifySign
           H ==
             <<{"pEcKey"}, {"pEcKey"}, {}>>
<1>1. Len(P) = 2 /\ Len(H) = 3 /\ H[1] = {"pEcKey"}  BY DEF vbhVerifySign
<1>2. ASSUME NEW i \in 1 .. 1 PROVE CleanOK(P[i], H[i], H[i + 1])
  <2>1. CASE i = 1  BY <2>1, TryOK DEF vbhVerifySign
  <2>2. QED BY <2>1
<1>3. EndOK(P[2], H[2], H[3]) /\ H[3] = Returned(P[2])
  BY FreeLastOK DEF vbhVerifySign
<1> HIDE DEF P, H
<1>4. QED BY <1>1, <1>2, <1>3, CleanIsOK DEF Holding, Clean, P

LEMMA SmxEncryptHolds ==
  \E H : Holding(smxEncrypt, {}, H) /\ Clean(smxEncrypt, H)
<1> DEFINE P == smxEncrypt
           H ==
             <<{}, {"outbuf"}, {"outbuf", "ctx"}, {"outbuf", "ctx"}, {"outbuf", "ctx"},
               {"outbuf", "ctx"}, {"outbuf"}, {"outbuf", "mac_ctx"},
               {"outbuf", "mac_ctx"}, {"outbuf", "mac_ctx"}, {"outbuf", "mac_ctx"},
               {"outbuf"}, {"outbuf"}>>
<1>1. Len(P) = 12 /\ Len(H) = 13 /\ H[1] = {}  BY DEF smxEncrypt
<1>2. ASSUME NEW i \in 1 .. 11 PROVE CleanOK(P[i], H[i], H[i + 1])
  <2>1. CASE i = 1  BY <2>1, NewOK DEF smxEncrypt
  <2>2. CASE i = 2  BY <2>2, NewOK DEF smxEncrypt
  <2>3. CASE i = 3  BY <2>3, TryOK DEF smxEncrypt
  <2>4. CASE i = 4  BY <2>4, TryOK DEF smxEncrypt
  <2>5. CASE i = 5  BY <2>5, TryOK DEF smxEncrypt
  <2>6. CASE i = 6  BY <2>6, FreeOK DEF smxEncrypt
  <2>7. CASE i = 7  BY <2>7, NewOK DEF smxEncrypt
  <2>8. CASE i = 8  BY <2>8, TryOK DEF smxEncrypt
  <2>9. CASE i = 9  BY <2>9, TryOK DEF smxEncrypt
  <2>10. CASE i = 10  BY <2>10, TryOK DEF smxEncrypt
  <2>11. CASE i = 11  BY <2>11, FreeOK DEF smxEncrypt
  <2>12. QED BY <2>1, <2>2, <2>3, <2>4, <2>5, <2>6, <2>7, <2>8, <2>9, <2>10, <2>11
<1>3. EndOK(P[12], H[12], H[13]) /\ H[13] = Returned(P[12])
  BY ReturnOK DEF smxEncrypt
<1> HIDE DEF P, H
<1>4. QED BY <1>1, <1>2, <1>3, CleanIsOK DEF Holding, Clean, P

LEMMA SmxDecryptHolds ==
  \E H : Holding(smxDecrypt, {}, H) /\ Clean(smxDecrypt, H)
<1> DEFINE P == smxDecrypt
           H ==
             <<{}, {}, {"ctx"}, {"outbuf", "ctx"}, {"outbuf", "ctx"}, {"outbuf", "ctx"},
               {"outbuf", "ctx"}, {"outbuf"}, {"outbuf", "mac_ctx"},
               {"outbuf", "mac_ctx"}, {"outbuf", "mac_ctx"}, {"outbuf", "mac_ctx"},
               {"outbuf", "mac_ctx"}, {"outbuf"}, {"outbuf"}>>
<1>1. Len(P) = 14 /\ Len(H) = 15 /\ H[1] = {}  BY DEF smxDecrypt
<1>2. ASSUME NEW i \in 1 .. 13 PROVE CleanOK(P[i], H[i], H[i + 1])
  <2>1. CASE i = 1  BY <2>1, TryOK DEF smxDecrypt
  <2>2. CASE i = 2  BY <2>2, NewOK DEF smxDecrypt
  <2>3. CASE i = 3  BY <2>3, NewOK DEF smxDecrypt
  <2>4. CASE i = 4  BY <2>4, TryOK DEF smxDecrypt
  <2>5. CASE i = 5  BY <2>5, TryOK DEF smxDecrypt
  <2>6. CASE i = 6  BY <2>6, TryOK DEF smxDecrypt
  <2>7. CASE i = 7  BY <2>7, FreeOK DEF smxDecrypt
  <2>8. CASE i = 8  BY <2>8, NewOK DEF smxDecrypt
  <2>9. CASE i = 9  BY <2>9, TryOK DEF smxDecrypt
  <2>10. CASE i = 10  BY <2>10, TryOK DEF smxDecrypt
  <2>11. CASE i = 11  BY <2>11, TryOK DEF smxDecrypt
  <2>12. CASE i = 12  BY <2>12, TryOK DEF smxDecrypt
  <2>13. CASE i = 13  BY <2>13, FreeOK DEF smxDecrypt
  <2>14. QED BY <2>1, <2>2, <2>3, <2>4, <2>5, <2>6, <2>7, <2>8, <2>9, <2>10, <2>11, <2>12, <2>13
<1>3. EndOK(P[14], H[14], H[15]) /\ H[15] = Returned(P[14])
  BY ReturnOK DEF smxDecrypt
<1> HIDE DEF P, H
<1>4. QED BY <1>1, <1>2, <1>3, CleanIsOK DEF Holding, Clean, P

LEMMA SmxSignHolds ==
  \E H : Holding(smxSign, {"pEcKey"}, H)
<1> DEFINE P == smxSign
           H ==
             <<{"pEcKey"}, {"pEcKey", "pkey"}, {"pEcKey", "pkey"}, {"pEcKey", "pkey"},
               {"pEcKey", "pkey", "pkey_ctx"}, {"pEcKey", "pkey", "pkey_ctx"},
               {"pEcKey", "pkey", "pkey_ctx", "md_ctx"},
               {"pEcKey", "pkey", "pkey_ctx", "md_ctx"},
               {"pEcKey", "pkey", "pkey_ctx", "md_ctx"},
               {"pEcKey", "pkey", "pkey_ctx", "md_ctx"},
               {"pEcKey", "pkey", "pkey_ctx", "md_ctx", "signature"},
               {"pEcKey", "pkey", "pkey_ctx", "md_ctx", "signature"},
               {"pEcKey", "pkey", "pkey_ctx", "md_ctx", "signature"}>>
<1>1. Len(P) = 12 /\ Len(H) = 13 /\ H[1] = {"pEcKey"}  BY DEF smxSign
<1>2. ASSUME NEW i \in 1 .. 11 PROVE StepOK(P[i], H[i], H[i + 1])
  <2>1. CASE i = 1  BY <2>1, NewOK, CleanIsOK DEF smxSign
  <2>2. CASE i = 2  BY <2>2, TryPartOK DEF smxSign
  <2>3. CASE i = 3  BY <2>3, TryPartOK DEF smxSign
  <2>4. CASE i = 4  BY <2>4, NewOK, CleanIsOK DEF smxSign
  <2>5. CASE i = 5  BY <2>5, TryPartOK DEF smxSign
  <2>6. CASE i = 6  BY <2>6, NewOK, CleanIsOK DEF smxSign
  <2>7. CASE i = 7  BY <2>7, TryPartOK DEF smxSign
  <2>8. CASE i = 8  BY <2>8, TryPartOK DEF smxSign
  <2>9. CASE i = 9  BY <2>9, TryPartOK DEF smxSign
  <2>10. CASE i = 10  BY <2>10, NewOK, CleanIsOK DEF smxSign
  <2>11. CASE i = 11  BY <2>11, TryPartOK DEF smxSign
  <2>12. QED BY <2>1, <2>2, <2>3, <2>4, <2>5, <2>6, <2>7, <2>8, <2>9, <2>10, <2>11
<1>3. EndOK(P[12], H[12], H[13])
  BY ReturnOK DEF smxSign
<1> HIDE DEF P, H
<1>4. QED BY <1>1, <1>2, <1>3 DEF Holding, P

LEMMA SmxVerifySignHolds ==
  \E H : Holding(smxVerifySign, {"pEcKey"}, H)
<1> DEFINE P == smxVerifySign
           H ==
             <<{"pEcKey"}, {"pEcKey", "pkey"}, {"pEcKey", "pkey"}, {"pEcKey", "pkey"},
               {"pEcKey", "pkey", "pkey_ctx"}, {"pEcKey", "pkey", "pkey_ctx"},
               {"pEcKey", "pkey", "pkey_ctx", "md_ctx"},
               {"pEcKey", "pkey", "pkey_ctx", "md_ctx"},
               {"pEcKey", "pkey", "pkey_ctx", "md_ctx"},
               {"pEcKey", "pkey", "pkey_ctx", "md_ctx"}, {"pEcKey", "pkey", "pkey_ctx"},
               {"pEcKey", "pkey"}, {"pEcKey"}, {}>>
<1>1. Len(P) = 13 /\ Len(H) = 14 /\ H[1] = {"pEcKey"}  BY DEF smxVerifySign
<1>2. ASSUME NEW i \in 1 .. 12 PROVE StepOK(P[i], H[i], H[i + 1])
  <2>1. CASE i = 1  BY <2>1, NewOK, CleanIsOK DEF smxVerifySign
  <2>2. CASE i = 2  BY <2>2, TryPartOK DEF smxVerifySign
  <2>3. CASE i = 3  BY <2>3, TryPartOK DEF smxVerifySign
  <2>4. CASE i = 4  BY <2>4, NewOK, CleanIsOK DEF smxVerifySign
  <2>5. CASE i = 5  BY <2>5, TryPartOK DEF smxVerifySign
  <2>6. CASE i = 6  BY <2>6, NewOK, CleanIsOK DEF smxVerifySign
  <2>7. CASE i = 7  BY <2>7, TryPartOK DEF smxVerifySign
  <2>8. CASE i = 8  BY <2>8, TryPartOK DEF smxVerifySign
  <2>9. CASE i = 9  BY <2>9, TryPartOK DEF smxVerifySign
  <2>10. CASE i = 10  BY <2>10, FreeOK, CleanIsOK DEF smxVerifySign
  <2>11. CASE i = 11  BY <2>11, FreeOK, CleanIsOK DEF smxVerifySign
  <2>12. CASE i = 12  BY <2>12, FreeOK, CleanIsOK DEF smxVerifySign
  <2>13. QED BY <2>1, <2>2, <2>3, <2>4, <2>5, <2>6, <2>7, <2>8, <2>9, <2>10, <2>11, <2>12
<1>3. EndOK(P[13], H[13], H[14])
  BY FreeLastOK DEF smxVerifySign
<1> HIDE DEF P, H
<1>4. QED BY <1>1, <1>2, <1>3 DEF Holding, P

-----------------------------------------------------------------------------
Sm2 == {"smxSign", "smxVerify"}

TakenBy(f) == IF f \in TakesKey THEN {"pEcKey"} ELSE {}

IsHeldIn(f, H) == Holding(Code[f], TakenBy(f), H) /\ (f \notin Sm2 => Clean(Code[f], H))

LEMMA EveryHolds == \A f \in DOMAIN Code : \E H : IsHeldIn(f, H)
<1> SUFFICES ASSUME NEW f \in DOMAIN Code PROVE \E H : IsHeldIn(f, H)  OBVIOUS
<1>1. CASE f = "pubKey"
  BY <1>1, VbhCreateKeyFromPublicHexHolds DEF Code, IsHeldIn, TakenBy, TakesKey
<1>2. CASE f = "priKey"
  BY <1>2, VbhCreateKeyFromPrivateHexHolds DEF Code, IsHeldIn, TakenBy, TakesKey
<1>3. CASE f = "group"  BY <1>3, VbhEcGroupHolds DEF Code, IsHeldIn, TakenBy, TakesKey
<1>4. CASE f = "newKey"  BY <1>4, VbhCreateKeyHolds DEF Code, IsHeldIn, TakenBy, TakesKey
<1>5. CASE f = "priHex"
  BY <1>5, VbhGetHexFromPrivateKeyHolds DEF Code, IsHeldIn, TakenBy, TakesKey
<1>6. CASE f = "pubHex"
  BY <1>6, VbhGetHexFromPublicKeyHolds DEF Code, IsHeldIn, TakenBy, TakesKey
<1>7. CASE f = "encrypt"  BY <1>7, VbhEncryptHolds DEF Code, IsHeldIn, TakenBy, TakesKey
<1>8. CASE f = "decrypt"  BY <1>8, VbhDecryptHolds DEF Code, IsHeldIn, TakenBy, TakesKey
<1>9. CASE f = "sign"  BY <1>9, VbhSignHolds DEF Code, IsHeldIn, TakenBy, TakesKey
<1>10. CASE f = "verify"  BY <1>10, VbhVerifySignHolds DEF Code, IsHeldIn, TakenBy, TakesKey
<1>11. CASE f = "smxEncrypt"  BY <1>11, SmxEncryptHolds DEF Code, IsHeldIn, TakenBy, TakesKey
<1>12. CASE f = "smxDecrypt"  BY <1>12, SmxDecryptHolds DEF Code, IsHeldIn, TakenBy, TakesKey
<1>13. CASE f = "smxSign"  BY <1>13, SmxSignHolds DEF Code, IsHeldIn, TakenBy, TakesKey, Sm2
<1>14. CASE f = "smxVerify"
  BY <1>14, SmxVerifySignHolds DEF Code, IsHeldIn, TakenBy, TakesKey, Sm2
<1>15. QED
  BY <1>1, <1>2, <1>3, <1>4, <1>5, <1>6, <1>7, <1>8, <1>9, <1>10, <1>11, <1>12, <1>13, <1>14
     DEF Code

HeldIn(f) == CHOOSE H : IsHeldIn(f, H)

LEMMA HeldInIs == \A f \in DOMAIN Code : IsHeldIn(f, HeldIn(f))
BY EveryHolds DEF HeldIn

(* A function that runs holds what its table says and has returned         *)
(* nothing; one that is over holds what it returned.                       *)
EncInv ==
  /\ fn \in DOMAIN Code \cup {"none"} /\ pc \in Nat \ {0} /\ wild = FALSE
  /\ fn # "none" /\ pc <= Len(Code[fn]) => held = HeldIn(fn)[pc] /\ returned = {}
  /\ fn \notin {"none"} \cup Sm2 /\ ~(pc <= Len(Code[fn])) => held = returned

LEMMA NoneIsNoFunction == "none" \notin DOMAIN Code
BY DEF Code

LEMMA EncInvCall ==
  ASSUME EncInv, NEW f \in DOMAIN Code, Call(f)
  PROVE  EncInv'
<1>1. fn' = f /\ pc' = 1 /\ returned' = {} /\ held' = TakenBy(f) /\ wild' = wild
  BY DEF Call, TakenBy
<1>2. Len(Code[f]) \in Nat \ {0} /\ HeldIn(f)[1] = TakenBy(f)
  BY HeldInIs DEF IsHeldIn, Holding
<1>3. pc' <= Len(Code[f])  BY <1>1, <1>2
<1>4. held' = HeldIn(f)[pc'] /\ wild' = FALSE  BY <1>1, <1>2 DEF EncInv
<1>5. QED BY <1>1, <1>3, <1>4 DEF EncInv

(* The step at pc, by the table of its function.                           *)
LEMMA StepAt ==
  ASSUME EncInv, Running
  PROVE  LET P == Code[fn]
             H == HeldIn(fn) IN
         /\ fn \in DOMAIN Code /\ Len(P) \in Nat /\ pc \in 1 .. Len(P) /\ held = H[pc] /\ returned = {}
         /\ pc < Len(P) => StepOK(P[pc], H[pc], H[pc + 1])
         /\ pc < Len(P) /\ fn \notin Sm2 => CleanOK(P[pc], H[pc], H[pc + 1])
         /\ pc = Len(P) => EndOK(P[pc], H[pc], H[pc + 1])
         /\ pc = Len(P) /\ fn \notin Sm2 => H[pc + 1] = Returned(P[pc])
<1> DEFINE P == Code[fn]
           H == HeldIn(fn)
<1>1. fn \in DOMAIN Code /\ pc \in Nat \ {0} /\ pc <= Len(P) /\ held = H[pc] /\ returned = {}
  BY DEF EncInv, Running
<1>2. Holding(P, TakenBy(fn), H) /\ (fn \notin Sm2 => Clean(P, H))  BY <1>1, HeldInIs DEF IsHeldIn
<1> HIDE DEF P, H
<1>3. Len(P) \in Nat /\ pc \in 1 .. Len(P)  BY <1>1, <1>2 DEF Holding
<1>4. pc < Len(P) => pc \in 1 .. Len(P) - 1  BY <1>3
<1>5. pc < Len(P) => StepOK(P[pc], H[pc], H[pc + 1])  BY <1>2, <1>4 DEF Holding
<1>6. pc < Len(P) /\ fn \notin Sm2 => CleanOK(P[pc], H[pc], H[pc + 1])  BY <1>2, <1>4 DEF Clean
<1>7. pc = Len(P) => EndOK(P[pc], H[pc], H[pc + 1])  BY <1>2 DEF Holding
<1>8. pc = Len(P) /\ fn \notin Sm2 => H[pc + 1] = Returned(P[pc])  BY <1>2 DEF Clean
<1>9. QED BY <1>1, <1>3, <1>5, <1>6, <1>7, <1>8 DEF P, H

LEMMA EncInvSucceeds ==
  ASSUME EncInv, Succeeds
  PROVE  EncInv'
<1> DEFINE P == Code[fn]
           H == HeldIn(fn)
           s == P[pc]
<1>1. /\ fn \in DOMAIN Code /\ Len(P) \in Nat /\ pc \in 1 .. Len(P) /\ held = H[pc] /\ returned = {}
      /\ pc < Len(P) => StepOK(s, H[pc], H[pc + 1])
      /\ pc = Len(P) => EndOK(s, H[pc], H[pc + 1])
      /\ pc = Len(P) /\ fn \notin Sm2 => H[pc + 1] = Returned(s)
  BY StepAt DEF Succeeds
<1>2. /\ s.op \in {"new", "trynew"} => held' = held \cup {s.res}
      /\ s.op = "free" => held' = held \ {s.res}
      /\ s.op \in {"try", "return"} => held' = held
      /\ returned' = IF s.op = "return" THEN {s.res} ELSE returned
      /\ wild' = (wild \/ (s.op = "free" /\ s.res \notin held))
      /\ pc' = pc + 1 /\ fn' = fn
  BY DEF Succeeds
<1> HIDE DEF P, H, s
<1>3. wild = FALSE  BY DEF EncInv
<1>4. CASE pc < Len(P)
  <2>1. StepOK(s, H[pc], H[pc + 1])  BY <1>1, <1>4
  <2>2. held' = H[pc'] /\ returned' = {} /\ wild' = FALSE
    BY <1>1, <1>2, <1>3, <2>1 DEF StepOK
  <2>3. pc' <= Len(P) /\ pc' \in Nat \ {0}  BY <1>1, <1>2, <1>4
  <2>4. QED BY <1>1, <1>2, <2>2, <2>3 DEF EncInv, P, H
<1>5. CASE pc = Len(P)
  <2>1. EndOK(s, H[pc], H[pc + 1])  BY <1>1, <1>5
  <2>2. held' = H[pc + 1] /\ returned' = Returned(s) /\ wild' = FALSE
    BY <1>1, <1>2, <1>3, <2>1 DEF EndOK, Returned
  <2>3. ~(pc' <= Len(P)) /\ pc' \in Nat \ {0}  BY <1>1, <1>2, <1>5
  <2>4. QED BY <1>1, <1>2, <1>5, <2>2, <2>3 DEF EncInv, P
<1>6. QED BY <1>1, <1>4, <1>5

LEMMA EncInvFails ==
  ASSUME EncInv, Fails
  PROVE  EncInv'
<1> DEFINE P == Code[fn]
           H == HeldIn(fn)
           s == P[pc]
<1>1. /\ fn \in DOMAIN Code /\ Len(P) \in Nat /\ pc \in 1 .. Len(P) /\ held = H[pc] /\ returned = {}
      /\ pc < Len(P) => StepOK(s, H[pc], H[pc + 1])
      /\ pc < Len(P) /\ fn \notin Sm2 => CleanOK(s, H[pc], H[pc + 1])
      /\ pc = Len(P) => EndOK(s, H[pc], H[pc + 1])
  BY StepAt DEF Fails
<1>2. /\ s.op \in {"try", "trynew"}
      /\ held' = held \ s.frees /\ wild' = (wild \/ ~(s.frees \subseteq held))
      /\ pc' = Len(P) + 1 /\ fn' = fn /\ returned' = returned
  BY DEF Fails
<1> HIDE DEF P, H, s
<1>3. wild = FALSE  BY DEF EncInv
<1>4. pc < Len(P)  BY <1>1, <1>2 DEF EndOK
<1>5. s.frees \subseteq held  BY <1>1, <1>2, <1>4 DEF StepOK
<1>6. fn \notin Sm2 => held' = {}  BY <1>1, <1>2, <1>4 DEF CleanOK
<1>7. ~(pc' <= Len(P)) /\ pc' \in Nat \ {0}  BY <1>1, <1>2
<1>8. wild' = FALSE  BY <1>2, <1>3, <1>5, Zenon
<1>9. QED BY <1>1, <1>2, <1>6, <1>7, <1>8 DEF EncInv, P

LEMMA EncInvariant == EncSpec => []EncInv
<1>1. EncInit => EncInv  BY NoneIsNoFunction DEF EncInit, EncInv
<1>2. EncInv /\ [EncNext]_encVars => EncInv'
  <2> SUFFICES ASSUME EncInv, [EncNext]_encVars PROVE EncInv'  OBVIOUS
  <2>1. CASE Succeeds  BY <2>1, EncInvSucceeds
  <2>2. CASE Fails  BY <2>2, EncInvFails
  <2>3. CASE \E f \in DOMAIN Code : Call(f)  BY <2>3, EncInvCall
  <2>4. CASE UNCHANGED encVars  BY <2>4 DEF encVars, EncInv
  <2>5. QED BY <2>1, <2>2, <2>3, <2>4 DEF EncNext
<1>3. QED BY <1>1, <1>2, PTL DEF EncSpec

(* Whatever calls fail, in whatever order the functions are called, none   *)
(* frees what it does not hold, and none but the signatures of SM2 keeps   *)
(* anything but what it returns (vbh_encrypt_lib.cpp:88-686).              *)
THEOREM FreesSafe == EncSpec => []FreesWhatItHolds
<1>1. EncInv => FreesWhatItHolds  BY DEF EncInv, FreesWhatItHolds, Running, Sm2
<1>2. QED BY <1>1, EncInvariant, PTL
=============================================================================
