# Formal models of vprotocol

TLA+ modules, TLC configurations and TLAPS proofs for the parts of vprotocol
(a permissioned blockchain, "vbh") whose code is in this repository: the two
client services that collect endorsements, the chaincode service of a peer, the
message queue, the SDKs that applications link, the libraries of the node and
the watchdog. All paths below are relative to the repository; many sources are
encoded in GB18030.

## 1. Inventory

vprotocol plugs services into the DSC framework, which is not part of the
repository. A service lives on one reactor thread: connections, messages,
timers and requests of other services reach it as calls of its handlers, one at
a time. Between two calls nothing of it runs, so one handler is one action of a
model. What makes this code hard is not parallelism inside a service but the
order in which these calls arrive, what they find when they arrive late, and
sessions whose ownership is spread over a map, a timer and the connections they
use. Only the SDKs are called from several threads.

| component | sources | state | operations | hard behaviour | correct when | modules |
|---|---|---|---|---|---|---|
| client service (`CVbhClientService`) | `src/src/vbh/sdk/plugin/vbh_client_service` | session maps by kind, sessions per connection, next session id | register, propose, query; answers of endorsers; timer; lost connection; exit | answers of several endorsers interleave with timers and losses; send failures half way | a submit stands for the endorsements of its own request; one answer each; no lost request | `VbhClient`, `UserCall` |
| its connection pool and queries | same files | array of peers, array of connections per peer, rotating indices; sessions of queries | connect, lose, pick; query | indices outlive the arrays they index; answer, timer and loss race | picks go to distinct peers and rotate; a query is answered once, with its own answer | `PeerPool`, `VbhQuery`, `UserCall` |
| encrypted client service (`CVbhCryptClientService`) | `src/src/vbh/sdk/plugin/vbh_crypt_client_service` | as the client service, with a nonce per session, a callback and a ready flag | as above, and the registration of the callback | as above, and ids that are reused after a failed send | as above; the nonce binds an endorsement to its request | `VbhCryptClient`, `UserCall` |
| chaincode service (`CCcService`) | `src/src/vbh/cc/common` | a session per request in one of two maps, with the users and informations it asked for, set and created | register, propose; get, set, create, respond (called by the chaincode); answers of the ledger; timer; exit | the chaincode calls back inside a handler or later; late answers; two maps and one counter of ids | one answer per request; an answer fills the entry that asked; a write follows the version read | `CcService`, `UserCall` |
| message queue | `src/src/mq` | topics and clients of a forwarder; forwarders and agents of the scheduler; topics of the nodes of p2p_mq | register, subscribe, publish, connect, lose, restart | tables of several processes that see one loss at different times | the tables agree; messages go to live subscribers, in turn | `TypeArray`, `MqForwarder`, `MqDirectory`, `P2pMq` |
| SDK interface | `src/src/vbh/sdk/common`, `client_sdk`, `client_c_sdk`; `src/src/idc` client; `src/src/mq` interfaces | initialised flag, worker thread, key file | init from several threads, requests, read and write a key | the worker writes to the caller's stack; failures cross threads | init returns, with the truth; a key comes back whole | `ClientSdk`, `KeyStore` |
| block cache | `src/src/vbh/common/vbh_block_cache_manager.*` | ring of blocks in mapped files | open, push, pop, grow, save and restore the context, reopen | crash, failure half-way, wrap-around, full ring | first in, first out across restarts | `BlockCache` |
| Merkle tree, versions | `src/src/vbh/common/merkel_tree`, `vbh_comm_func.inl` | array of nodes that grows | add, build, clear; compare, increase | odd levels, built in place | the root is that of the leaves in order | `MerkelTree`; versions in `CcService` |
| encryption, key codec | `src/src/vbh/common/vbh_encrypt_lib.*`, `crypt_key_codec.*` | resources of OpenSSL | create, encrypt, decrypt, sign, verify; encode, decode | a dozen calls that may fail in the middle | nothing is kept, nothing is freed twice | `EncryptLib`, `KeyStore` |
| watchdog | `src/src/ztools/watchdog` | table of applications and their processes | start, exit of a process | ids that the system deals again | an application that ended is started again, once | `Watchdog` |
| IDC service (database access) | `src/src/idc` | request sessions, connections | request, answer | unfinished | - | not modelled (section 14) |
| committer router, message definitions | `src/src/vbh/common` | a table read once; records | lookup; none | - | - | not modelled |
| demo chaincode | `src/src/vbh/cc/plugin` | trade of one call | transfer, create | does not compile against this `CCcService` | - | not modelled |
| demos, tests, GUI, jssdk, scripts, configuration | `src/src/demo`, `src/src/test`, `src/src/vbh/client4test`, `src/jssdk`, `src/scripts`, `src/conf` | - | - | - | - | not modelled |

How they interact. An application (SDK interface, demo client) starts a worker
thread and posts messages (`CRegistUserCltCltReq`, `CProposeCltCltReq`, queries)
to the queue of the client service that runs in it. The service picks endorser
connections of distinct peers and sends them the request. An endorser (not in
the repository) has the chaincode of its peer run it through `CCcService` and
returns the content it would write. When enough contents agree, the client
service asks the one endorser it elected beforehand to submit the transaction,
answers the application with a key or transaction id, and forwards the peer's
result later if the application asked for it. The message queue is separate: a
scheduler tells agents which forwarders there are, an agent registers its topics
with each of them, and a forwarder hands publications to its agents; p2p_mq does
the same between nodes without a forwarder. Endorser, orderer and committer
services, the DSC framework with its containers (`CBareHashMap`,
`CDscTypeArray`), timers and transport are outside the repository: their
behaviour is taken from how the code here uses them.

The hazards of each component are listed in `PROJECT.json`, at their lines, with
the properties that would catch them; those that no property covers are in
section 12.

## 2. Plan

| no. | modules | subject | run | proved |
|---|---|---|---|---|
| 1 | `UserCall`, `VbhClient` | endorsement, submit, answers; refinement of `UserCall` | `client_*` | safety and the safety part of the refinement |
| 2 | `CcService` | chaincode service; refinement of `UserCall` | `cc_*` | safety, with that of the refinement |
| 3 | `PeerPool`, `VbhQuery` | connection pool and the queries that use it; refinement of `UserCall` | `queries` | safety, with that of the refinement |
| 4 | `VbhCryptClient` | encrypted client service; refinement of `UserCall` | `crypt` | safety, with the refinement |
| 5 | `TypeArray`, `MqForwarder`, `P2pMq` | delivery of publications | `mq` | safety |
| 6 | `MqDirectory` | scheduler, forwarders, agents | `libraries` | safety |
| 7 | `ClientSdk`, `KeyStore` | start of the SDKs, key files | `libraries` | safety |
| 8 | `BlockCache`, `MerkelTree`, `EncryptLib`, `Watchdog` | libraries and tools | `libraries` | safety |

All modules of the plan are written and checked, and every safety property that
a run checks is a theorem; liveness is model-checked only (section 13).

## 3. `VbhClient`: one module per protocol, not per class

| model | code (`vbh_client_service.cpp` unless said otherwise) |
|---|---|
| `sess[r]` | the `CRegistUserSession` or `CProposeSession` of request `r`, then its wait-for-result session |
| stage `endorsing` / `waiting` | the session is in its map (`m_mapRegistUserSession`, `m_mapProposeSession`, `m_map...WaitNotifySession`) |
| stage `orphan` | taken out of its map by a failed submit answer, still armed and still listed under its connections (478-481, 633-636) |
| `Find(kind, id, stage)` | the map lookup by session id, one map per kind |
| `arrHandle`, `submitEs`, `nEsSessionID`, `nSucceedRspNum`, `content` | `m_arrHandleSession`, `m_pSubmitEsMcpHandleSession`, `m_nEsSessionID`, `m_nSucceedRspNum`, `m_ccGenerateUserInfo` / `m_transContent` |
| `Unset` | the value of `m_nEsSessionID` before anything wrote it (the constructor does not); it names no session of an endorser |
| `connected` | peers with a connection; the picks themselves are `PeerPool` |
| `OnReqRefused`, `OnReqSent`, `OnReqSendFailed` | the two request handlers (700-791, 814-907), by outcome |
| `OnEsCltRsp` and its five outcomes, `OnLateEndorsement` | 339-433 and 515-596 |
| `OnSubmitEsCltRsp`, `OnSubscribeNotify` | 435-507 and 598-662 |
| `OnTimeOut`, `OnNetworkError`, `OnExit` | 184-252, 1100-1198, 110-165 |
| `EndorserAnswers`, `EndorserSubmits` | external: the endorser, with no more freedom than the handlers allow for |
| `submits`, `cancels`, `votes` | history: messages that left the service and the endorsements behind them |
| `nSubmits` | history: how often `Submit` sent one for a request, so that one that looks like the last also counts |

The handlers of registrations and proposals are written twice in the code and
differ in four places, all kept: a refusal exists for registrations only; a
proposal may fail to decode its key; a late registration answer dereferences
a null pointer while a late proposal answer does not; and a proposal tests the
count outside the comparison, so a differing answer after the endorsement
submits once more before it cancels.

Abstractions. A message is a record with the fields the handlers read. The
network is a set; connections deliver in order, and the only pair of messages of
one request that travels the same way on one connection at a time is the submit
answer and the notify, which `OnSubscribeNotify` keeps in order. A lost
connection loses its messages. Each peer has one connection here, because a
request uses one connection of each of `EndorseCount` distinct peers, which is
what `PicksDistinctPeers` of `PeerPool` says of the real pool. The random choice
of the elected endorser and of picks is nondeterministic. The encoding of keys
after a submit (452-456) does not fail. Session ids do not wrap.

`UserCall` is the promise to the user, from `src/TODO.md` (lines 3-8): a request
is answered at most once, with a result or an error, the notify comes only to a
user who waits and only after a success, and every request is answered unless
the service ends. Four services make this promise, to an application or to an
endorser, and implement the one specification: `KeepsPromise` of each module is
the refinement, under the mapping `Call` at its end, which says what the service
may answer (`Codes`), when it is up and which requests it has taken.

| | up | asked | waits | answers | as long as |
|---|---|---|---|---|---|
| `VbhClient` | `svc = "up"` | a session was made or refused | `wait` of the session | `out` | every message can be sent |
| `VbhQuery` | always | `asked` | nobody | the codes of `answers`; an endorser's answer is "OK" | - |
| `VbhCryptClient` | before the first start, and up | a session was made or refused | nobody | `out` | no send failed half-way |
| `CcService` | `svc = "up"` | a session was made | nobody | `replies` | the chaincode is `Orderly` |

For the encrypted client only the steps are compared, those before the first
send that failed (`failedSends' = {}`): after one the code may answer twice.

## 4. `PeerPool` and `VbhQuery`

`peers` is `m_parrPeerConnInfo`, each entry with its connections and its own
`m_nIndex`; `nIndex` is that of the summary. An entry is created with an index
that nobody initialised (header, line 44): `Garbage`. `OnConnectedNodify` is
split by whether the peer is new, `OnNetworkError` by whether the connection was
the peer's last. `GetMcpHandler` is one pick; a request makes `EndorseCount` of
them without a break, and since `PicksDistinctPeers` speaks of every window of
picks between two changes of the pool, it covers the window of any request.

`VbhQuery` extends the pool with the two queries of the service. A query is one
pick and one session; both kinds draw ids from `m_nSessionID` and wait in a map
of their own kind (`sessions`, told apart by `kind`). The three ways a session
ends are `OnHtsMsg` (664-698), `OnTimeOut` (293-299, 325-330) and `OnNetError`
(301-307, 332-338), the last one together with the change of the pool that the
same lost connection makes, since both happen in `OnNetworkError`. A query whose
key does not decode, or that cannot be sent, is answered in the handler.
`LoadPeerInfo` and `GetPeerID` are the configuration: the model instance derives
peers and connections from rows of the endorser table with them.
The merged properties are conjunctions of named parts: `PoolMirrors` is
`QueryTypeOK` and `MirrorsConnections`, `PicksGoRound` is `PicksDistinctPeers`
and `HandlersTakeTurns`: between two picks of one connection of a peer, as long
as the pool stays the same, the peer is picked as often as it has connections
(`PicksBetween`).

## 5. `CcService`

| model | code (`cc_service.cpp` unless said otherwise) |
|---|---|
| `sess[r]`, `kind` | the `CRegistUserSession` or `CProcessProposalSession` of request `r` |
| `stage`, `inMap` | whether the session is allocated, and whether its own map holds it; these differ after line 96 |
| `lst[k]` | the entry of key `k` in `m_lstUser` or `m_lstInfo`; `asked`: there is one |
| `created` | `m_lstCreatedInfo` |
| `inProc` | the request whose `RegistUserProc` or `ProposalProc` is on the stack |
| `IdType`, `Serves` | `CombineUserCCSessionID`, `SplitUserCCSessionID` and the map lookup, by what they tell apart |
| `OnRequest`; `ProcReturns`, `ProcFails` | the two request handlers up to the callback, and after it, by what it returned |
| `Get`, `GetListed`, `Set`, `Create`, `CallRefused`, `RegistUserRsp`, `PorposalRsp` | the interface of a chaincode (265-742) |
| `OnQueryRsp`, `OnQueryFailed` | 137-235 |
| `OnTimeOut`, `OnExit` | 237-263, 51-72 |
| `XcsAnswers`, `LedgerMoves` | external: the ledger, which answers late or never and changes meanwhile |
| `wrote`, `got`, `replies`, `read`, `rver` | history: what endorser and chaincode were told, and which version was read |

The chaincode is a class derived from this one. It may make any call of the
interface, inside its callback or later (from `OnGetVbhInfoRsp` or of its own
accord), so a callback of an answer is not kept on the stack: what is called
from it are the next steps. Two constants say what kind of chaincode it is.
`Orderly`: it does not ask again for, or set, a key whose answer has not come,
and does not answer a request it has failed. `Composes`: it puts the type into
the id of a proposal itself. The code does not do that (line 122), and with
`Composes = FALSE` no proposal can be answered before its timer: what the rest
of the service does can only be seen with `Composes = TRUE`. A callback that
answers and then reports an error is excluded (the session would be freed
twice).

Calls that fail without a change of state (an unknown session, a channel without
ledger service, a key that does not decode, a key created twice) are not steps;
a question that cannot be sent is one, since its key stays listed. Using a freed
session ends the process or does as if the memory were intact. What a freed
session does to the chains of the hash map it is left in is not modelled.
Ids do not wrap; versions do, after `MaxVersion` (`IncreaseVersion`,
`IsVersionMatch`).

## 6. `VbhCryptClient`

| model | code (`vbh_crypt_client_service.cpp` unless said otherwise) |
|---|---|
| `sess[r]` | the session of request `r`, of any kind; `arrHandle`, `submitEs`, `nEsSessionID`, `content`, `votes` as in `VbhClient` |
| stage `open` / `complete` | in its map; `complete`: `m_bCompleteRegistRsp`, the user has its answer and the session stays for a notify |
| `nonce` of a message | `m_nNonce`; those of different requests differ, so the request stands for its nonce |
| `Opened(m, r)` | decrypting, decoding and comparing the nonce; an error code comes in clear and is believed without one |
| `RegistRefusals` and its like, `OnReqSent`, `OnReqSendFailed` | `RegistUser`, `Propose`, `GetUserInfo`, `GetTransInfo`, `UnRegistUser`, by outcome |
| `OnRegistUserRsp`, `OnSubmitProposalRsp` | the two handlers of endorsements (364-488, 622-722), which differ where those of the plain client do |
| `OnSubmitRegistRsp`, `OnSubmitProposalTransRsp`, `OnQueryUserRsp`, `OnQueryTransRsp` | the answers to submits and queries |
| `OnInit`, `OnInitBcUserSdk`, `OnConnectedNodify`, `OnNetworkError`, `OnExit` | start, callback, connections and what the application is told (`told`, `bReady`) |
| `failedSends`, `submits`, `cancels` | history |

Ciphers are sealed values: a message is read by whom it is for, and what cannot
be decrypted or decoded is the result `SYSTEM`. `EncryptFails` says whether
`vbhEncrypt` may fail. `OnTimeOut` of `CProposeSession` does not compile as it
stands (line 257, a copy of the line for registrations); the model takes it as
its twin. `Propose` never writes `m_bWaitNotify`, so whether a proposal waits is
a free choice. The pool is that of section 4, taken as `Dealings(n)`.

`OwnEndorsement` is stronger than its counterpart for the plain client: it holds
although ids are reused after a failed send, because of the nonce. `OneAnswer`
and `SubmitOrCancel` are stated for behaviours without a failed send, since
after one the code answers twice and believes late error codes (section 12);
`KeepsPromise` says the same of every single step.

## 7. The message queue

`TypeArray` is `CTypeArray` (`src/src/mq`): an element knows its index, deleting
moves the last element into the hole, and `Get` rotates. An element is in the
array at most once, so its place stands for the index it keeps.

| model | code (`mq_forwarder_service.cpp`) |
|---|---|
| `byClient`, `byHandle`, `members` | `m_mapMqClientIDSession`, `m_mapHandlerSession`, `m_mapTopicSession` |
| `stage`, `broken` | a connection as the forwarder sees it, and what happened to it |
| `OnRegMqTopicReq`, `OnNetworkError` | a registration flushes the one before of the same client; a loss removes the session of this connection |
| `OnPubMqTopicMsg`, `OnPubMqAddrMsg` | one receiver in turn, or by id; the send may find the connection broken and remove it at once (`Send`) |
| `OnPubMqBroadcastMsg`, `PopStack` | all receivers; those whose send failed wait on `m_stackMcpHandler` and are removed afterwards |
| `OnExit` | everything is freed |

`MqDirectory` is the other half: `addrs`, `handles`, `lastID` are the
scheduler's; `id`, `known`, `array`, `said` are those of an agent
(`CMqClientSdkAgentService`); `node` is a forwarder's connection to the
scheduler, and `unseen` counts the ends of earlier ones that the scheduler has
not noticed. Forwarders exit with a farewell or crash, the scheduler restarts
without its table, and any connection breaks. A forwarder may connect and
register before the end of its last connection was noticed: the scheduler still
lists it and ignores the registration (85), and `OnDisConnected` then erases it
by its node type and id (143-168). `overtaken` remembers where that happened.
Assumed of the environment: the library opens a lost connection again, what was
not read when a connection ends is lost, a forwarder that exited is not started
before its farewell was read, and handle numbers are not used twice.

`P2pMq` is p2p_mq: `wanted`, `remotes`, `registry`, `cursor` are `m_lstMsgID`,
`m_setRemoteAddr`, `m_mapTopicRegistry` and the iterator of its subscribers
(`CMqCallbackService`). `linked` are the connections that are there. Each end
notices one (`met`) and its end in its own time: `late[n][m]` counts the
connections whose end `n` has yet to notice, and a new one may be there, and be
noticed, before that. Then `m` is still in `m_setRemoteAddr`, so it is sent no
topics (142-144), and the late `OnDisConnected` takes it out of the registry
while it is connected (165-187); `overtaken` remembers it until the two meet
with no end outstanding. Assumed of the library: at most one connection of two
nodes at a time, messages go over the newest one that the sender knows of, what
was not read when a connection ends is lost, and an end is told to those who
were told of the start. `m_nPubMsgType` is not among the encoded
members (`mq_comm_def.h`, 112), so what the service reads is a free choice.

## 8. `ClientSdk` and `KeyStore`

`ClientSdk` is the start of five SDKs, chosen by `sdk`. `caller[t]` is where the
application's thread is in `InitBlockChainSdk` or its like: `spin` (waiting for
`m_lock`), `locked`, `first`, `spawn`, `wait` (for the event), `send` (the
callback), `ok` or `failed`. `worker[t]` is the thread it spawned, which uses the
parameter on the caller's stack until it signals. The SDKs differ as the code
does: "mq" and "p2p" have no lock and report no failure of the worker; "idc" does
not look at the result of spawning or of sending; "c" refuses without its
callbacks. A message is taken by the dispatcher once a worker has made its
services (`Posted`) or refused. Once an application has been told 0 it makes
requests or ends the SDK.

`KeyStore` is the key file between the service that encodes a key and the one
that decodes it: fields and marks are symbols, a write is one of the three
`fwrite`-like calls taken field by field, and any of them fails or is the last
before a crash. `Decode` takes as many fields as it binds and stops at the
terminator, and `ReadyCryptKeyToFile` moves the text to the front of its buffer
and leaves the old end behind it, both as the code does.

## 9. `BlockCache`, `MerkelTree`, `EncryptLib`

`BlockCache`: `cac` is the mapped control file, `shareMem` and `files` the cache
files, `opened` and `mapped` what the process has. Its user keeps to the header's
comments (62-72): it saves the context, pushes or pops, and restores when what it
does in between fails. `Open` makes the directory, the control file and the
caches one by one, and may stop after any of them; what it made stays. A crash
keeps what was written. `PushBack` and `PopFront` take two writes each; a crash
between them leaves a ring that the model marks `torn` and does not follow.

`MerkelTree` builds level by level in place, as the code does, over an array that
grows: `Level` is the inner loop as a recursive function of the parents computed
so far, `Rounds` the outer loop as one of the levels built so far, which has
ended after as many rounds as there were leaves. The reference definition
`RootOf` builds new levels from the leaves. A digest is the sequence it was made
from.

`EncryptLib` says of each function of both builds which resources it takes, which
calls may fail and what each way out frees. The functions are data (`Code`), the
actions run one of them step by step.

## 10. `Watchdog`

`watched` is the list of the configuration, `pidApp` the process id in each
entry, `runs` and `ended` the processes of the system. `handle_exit` looks for
the first entry with the id and starts its application, whose process may get
the same id again.

## 11. Runs

| run | instance | shows |
|---|---|---|
| `client_safety` | 3 connections, 2 endorsements, 2 requests of both kinds, 2 contents, no send failure | a submit stands for the endorsements of its request, once, never beside a cancel; answers find their own session |
| `client_faults` | 2 connections, both of which may fail to send; contents may be empty | differing non-empty endorsements never mix; owed answers use live connections |
| `client_promise` | 2 connections, 1 endorsement, 2 requests | implements `UserCall`, with liveness |
| `client_answered` | the same with send failures | every request is answered |
| `cc_reads` | 1 request, 2 informations, 1 user, versions 0-2 that wrap, the ledger moves without limit | what is given for an information is of that information; a write follows the version read |
| `cc_sessions` | 2 requests of both kinds, 1 information, 1 key to create, versions 0-1 | implements `UserCall`, with liveness: one answer each, and that it comes; types |
| `queries` | 2 peers with 2 and 1 connections, garbage index 0 or 7, 5 picks, 2 queries of either kind | the pool mirrors the connections, picks are distinct and rotate; a query hears its own answer and never waits on a lost connection; implements `UserCall`, with liveness |
| `crypt` | 2 peers, 2 endorsements, 2 requests of all five kinds, an empty and a full content, sends fail on one connection, encryption fails | endorsements are bound by nonces, submit or cancel, one answer, what the application is told; its steps are those of `UserCall` |
| `mq` | a forwarder, 3 clients of which one reconnects twice, 2 topics, 3 turns; or a node of p2p_mq connected to 2 others, 1 topic, 2 subscriptions, 2 breaks, 3 polls | the tables agree with each other and with the connections, deliveries go round, a late loss unregisters no client of the forwarder |
| `libraries` | 1 agent, 2 forwarders, 3 faults; 2 threads, 2 requests, 5 SDKs; a ring of 3 with 2 blocks; 7 leaves; 14 functions; 2 users with 2 writes; 3 applications with 4 process ids | agents find every forwarder again that was not overtaken (section 12); SDKs start; blocks in order; root of the leaves; nothing kept; a key comes back whole; the watchdog's table |
| `cc_user`, `client_stale` | small instances of the above | two places where the code does not do what its comments say (section 12) |

`mq` and `libraries` compose parts that do not interact: each behaviour is that
of one part, chosen by `part` in the initial state, so their state spaces add up
and do not multiply. `DirectoryFairness` of `MCLibraries` is `Fairness` of
`MqDirectory`, restricted to the behaviours of that part.

Bounds. Requests are finite in number, each with its own session, so the state
space is finite without a state constraint. Two requests are the least with
which ids can be confused, two endorsements the least that can differ, and a
third connection the least with which two requests share some connections and
not others. Connections may be lost and return without limit, except where a
fault is counted. The three connections of the pool make every shape of the
arrays up to two peers; five picks take the rotation past its start twice. In
`cc_reads` the numbers of the two informations are also versions, so that
looking one up by the other would show; one request suffices there because
sessions only meet through ids, which `cc_sessions` has two of. A client that
reconnects twice is the least with which the loss of an older connection can be
noticed after two newer registrations; three clients are the least for a
rotation in which deleting moves an element over the cursor. Three faults of the
directory allow a forwarder to leave, register too early, lose its connection
once more and recover, with a restart of the scheduler between any two of these.
Two breaks of p2p_mq are the least with which a registration that was overtaken
outlives the connection and meets the next one. A ring
of three wraps with two blocks in it; up to seven leaves make trees whose odd
levels are the leaves, or above them, or both; four process ids leave one free to be dealt again. Two writes of a key
leave a longer key under a shorter one. Services may end, and bounds be used up,
so the runs where that happens allow a deadlock. Symmetry is used on connections and contents in
safety runs only.

Fairness. `SetDscTimer` arms a timer for every session of the services and the
reactor runs timers and dispatches what arrived: weak fairness on the timer of
each request (`client_*`, `cc_sessions`, `queries`) and on the dispatch of
messages. Nothing is assumed of endorsers, the ledger or the network there, so
these liveness properties hold although every endorser may stay silent.
`Converges` assumes that reactors read what arrives, the library connects where
it was told to, and the end of a process or connection is noticed; it excepts
the forwarders that were overtaken. `InitReturns` assumes that
the threads are scheduled.

Each property of a passing run has a mutant in its module (named in
`PROJECT.json`): a plausible slip in the code under which TLC finds that
property violated, so no property holds for want of behaviour.

## 12. What the code does not do

Checked by a run that finds the violation:

- `CountsOwnEndorsers` (`client_stale`): the session id of the client service is
  not consumed by a request whose sending failed; endorsers that did receive it
  answer into the next request.
- `UserIsItsOwn` (`cc_user`): in `cc_service.cpp` an answer about a user is
  matched by comparing the user's system number with the version (156). This is
  why `WritesFollowReads` and `InfoIsItsOwn` speak of informations only.

Stated in the modules without a run of their own; TLC refutes each when it is
asked for:

- `OneAnswerAndResult` (`VbhClient`): a registration whose sending fails is
  answered twice (761 and 782-790).
- `ProposalServed` (`CcService`): `ProposalProc` is given an id without the type
  (122) that every call of the interface demands.
- `FailedIsForgotten` (`CcService`): a failed registration is erased from the
  other map (96).
- `KeyIsReleased` (`EncryptLib`): `smxSign` and `smxVerifySign` keep the key, and
  on some failures a context, although the header says that the key is released
  (`vbh_encrypt_lib.h`, 44).

In the models as the code has it:

- client service, an empty first endorsement is taken for none (354): the next
  one is counted without being compared. `NoMixedEndorsement` and
  `OwnEndorsement` therefore except empty endorsements, and the proofs assume
  `Empty \notin Contents` where it matters;
- a cancel that is sent before the elected endorser answered carries an id that
  was never written (416): `Unset`, which `SubmitOrCancel` excepts;
- the overrides of `OnTimer` and `OnNetError` of the wait-for-result sessions
  are empty (`vbh_client_service.inl`, 11-19, 41-49): such a session may keep a
  handle session that is freed, so `LinksConnected` excludes it;
- a late endorsement of a registration is logged through a null pointer (429,
  and line 501 of the encrypted client): `svc = "crashed"`;
- an entry of the chaincode service is listed when it is asked for, before the
  answer comes: it can be set although it was never read (490, against header
  line 174), and a second question is answered with its empty value (445). Both
  need a chaincode that is not `Orderly`, and are why runs and proofs take one
  that is;
- a query that finds no connection uses the null pointer of `GetMcpHandler`:
  `VbhQuery` asks queries only while a peer is connected; `OnQuerySendFailed` of
  `VbhCryptClient` has the crash;
- encrypted client, *reused ids*: an id whose request was not sent is given to
  the next one, and a late failure of the first, which carries no nonce, ends
  the second. *Answers twice*: a send that fails half-way is answered by
  `OnNetError` and again by the handler. *Envelope key*: the answer to a submit
  is decrypted with a key that the session never got (519), which needs the
  ciphers to be seen;
- *overtaken forwarder*: a forwarder that registers before the end of its last
  connection was noticed is ignored (`mq_scheduler_service.cpp`, 85) and then
  erased (143-168). If its agents forgot it by its farewell they do not hear of
  it until it connects again; `Converges` excepts it, and is violated without
  the exception;
- *overtaken node*: the same in p2p_mq (`mq_callback_service.cpp`, 142-144 and
  165-187). The node is sent no topics, its own leave the registry while it is
  connected, and if it subscribes after that and leaves, it stays registered,
  since it is not among the known addresses any more. `RegistryAgrees` excepts
  it until it is met with no end outstanding, and is violated without;
- the loop after a broadcast of the forwarder reads the top of a stack that may
  be empty (336) and handles the first connection twice: `PopStack` lets the
  process go on or end;
- `SDK`: a second caller of Init is told 0 while the first is still starting the
  worker, and after a failed start the flag stays set, so that the next Init is
  told 0 without a worker. `ZeroMeansReady` is about the thread that started it.

`SendFails = {}` in the proofs of `VbhEndorseProofs` and in `client_safety` and
`client_promise` keeps a failed send away, and `NoFaults`, which
`SubmitIsEndorsed` alone needs, an empty endorsement as well;
`NoMixedEndorsement`, `LinksConnected` and `AskedIsAnswered` hold without them.

Hazards that no property covers, and why:

| where | what | why |
|---|---|---|
| `vbh_client_service.inl:11` | The timer of a session that waits for a result does nothing: a user whose notify never comes is not told, and the session stays for ever. | The result is optional by TODO.md, line 6 (the user has to query the final outcome), so no property demands it; the session that stays is in the model. |
| `vbh_client_service.h:71` | One m_nIndex per session serves the arrays of several connections: a container that stores the place of an element in it erases the wrong one. | Depends on CDscTypeArray, which is not in the repository. |
| `vbh_client_service.cpp:773` | Session ids wrap after 2^32 requests while a wait-for-result session never leaves its map: DirectInsert of a duplicate key. | Out of reach of a small instance; ids are unbounded in the model. |
| `vbh_client_service.cpp:452` | The keys of a registered user may fail to encode after the endorser submitted: the user gets the error and a session still waits for the result. | Encodings do not fail in the model. |
| `vbh_client_service.cpp:156` | OnExit frees the arrays of the pool and leaves m_nPeerSessionNum and the handle sessions in their map, and forgets the sessions of transaction queries and of notifies. | What the framework calls after OnExit is not in the repository. |
| `cc_service.cpp:443` | A question that could not be sent leaves its key listed: a later one is answered with the empty entry, and no answer will ever fill it. | The model has it; the runs and proofs take a chaincode that waits for its answers (Orderly), since otherwise the code breaks the property above. |
| `cc_service.cpp:96` | Sessions of two kinds live in two maps with ids of one counter; one that is freed must leave its own map. | The code does not have it: a registration whose callback fails is freed and stays in its own map. The model does the same; the promise of an answer does not tell the two apart. |
| `cc_service.cpp:126` | A chaincode that answered in its callback and then returns an error has the session freed twice. | The interface asks for an error only when the handling failed; ProcFails takes the session to be live. |
| `vbh_client_service.cpp:1184` | The loop runs to the size read before it, while each OnNetError erases its session from the array it runs over. | Depends on CDscTypeArray, which is not in the repository; the models take the sessions of a connection as a set. |
| `vbh_crypt_client_service.cpp:477` | A cancel may be sent before the elected endorser answered: its session id is not known. | The model sends `Unset` in its place; no property can demand an id that is not known yet. |
| `vbh_crypt_client_service.cpp:99` | OnExit forgets the sessions of transaction queries. | What the framework calls after OnExit is not in the repository; the model does as the code. |
| `mq_client_sdk_agent_service.cpp:178` | When the last forwarder leaves by a notice the application is not told that none is left. | SaysReady demands the word "ready" only; no comment says that OnAbnormal is certain. |
| `mq_scheduler_service.inl:3` | Client ids start again after 2^32 and may meet one that is in use; a restarted scheduler starts from 1 at once. | The ids of agents that were asked before a restart do collide in the model; no document demands that they differ. |
| `mq_callback_service.cpp:204` | A new list of topics adds to the old one at the other end: a topic that is no longer wanted is delivered still. | The direction WantedIsRegistered leaves out; nothing says that a list replaces the one before. |
| `mq_comm_def.h:112` | m_nPubMsgType is not in the list of encoded members: the service reads whatever the memory holds, and may broadcast a poll. | A nondeterministic choice in the model (PubP2pMqMsgImpl), under which the properties of P2pMq hold. |
| `mq_client_sdk_interface.cpp:157` | InitMqClientSdk and InitP2pMqMsgSdk wait for the event and return 0 whatever happened in the worker. | In the model; FailureIsReported is about the SDKs that report. |
| `client_c_api.cpp:70` | The C interface does not set m_nCcID and m_nSrcRequestID of the requests it fills: the service reads what the memory holds. | The model of the SDK does not tell requests apart. |
| `sdk_comm_if.cpp:152` | A write that stores less than it was given is not an error. | Writes of the model store all or nothing; the end mark catches a short last field only. |
| `crypt_key_codec.cpp:90` | The decoder of the Base64 text stops at the terminator of the string, not at its length. | Depends on Base64decode, which is not in the repository. |
| `watchdog_handler.cpp:116` | A spawn that fails is not tried again: the application stays down. | NoneForgotten allows it, as the code does. |
| `merkel_tree.cpp:24` | The tree is built in place over its leaves: leaves added after a build without Clear come to a root over inner nodes. | AddLeafNode of the model is for a tree that was cleared, as its callers outside the repository must. |
| `vbh_block_cache_manager.inl:24` | PushBack increments the index and wraps it in a second write: a crash between the two leaves an index past the array in the mapped file. | The model stops there (torn): the next push would write past the end of the array. |
| `vbh_block_cache_manager.cpp:99` | ResizeCache closes the mapping before it maps again: when that fails the block has no memory and the old pointer stays. | In the model the slot is unmapped; callers outside the repository must not use it. |
| `vbh_block_cache_manager.cpp:60` | Reopening with another number of blocks than the file has allocates one and reads and frees the other. | Out of the model: one CacheCount per behaviour. |

## 13. Proofs

All proofs are checked by TLAPS for every value of the constants that satisfies
the assumptions of the module they are about. For `VbhClient`: `EndorseCount` is
positive, `Handlers` finite, `SendFails` a subset of it, and `Unset` differs from
every endorser session.

- `VbhClientProofs`: `TypeCorrect`, `LinksAlwaysConnected`, `NeverMixed`, with no
  further assumption. `TypeOK` is not inductive: a submit is addressed to
  `submitEs`, so `TypeInv` adds that a session in its map has elected one of the
  connections it uses. `MixInv` adds that the stored content is that of all
  non-empty votes.
- `VbhEndorseProofs`: `SubmitHappensOnce`, `SubmitExcludesCancel`,
  `AnswersReachTheirRequest` and `OwnEndorsersCounted`, assuming `SendFails = {}`
  and nothing of the contents; `SubmitIsEndorsed` assuming `NoFaults`, since an
  empty content agrees with any other: it combines `IInv` with `NeverMixed`.
  `OwnEndorsersCounted` is what the run `client_stale` refutes once a send can
  fail: the failed send is the whole cause. `SubmittedOnce` bounds a counter; what is
  inductive is `SubmitsCounted`, that it is the number of recorded submits. The inductive invariant `IInv` says that ids below `nSessionID` tell live sessions
  and messages apart; that an endorser is in one of three places for a request
  (asked, answered, counted), never two; that `nSucceedRspNum` is the
  cardinality of the votes; and what a submit in flight implies of its session.
  Counting is where the argument needs finite sets: `EndorseCount` votes out of
  `EndorseCount` picked endorsers are all of them.
  `PromiseKept`, in the same module: each step is a step of `UserCall` or a
  stutter, assuming `SendFails = {}`. `AnsweredByStage` relates what the user
  received to the stage of the session: a session that endorses, or was taken out
  of its map by a failed submit, has answered nothing yet.
- `CcServiceProofs`: `CcTypeCorrect` without further assumption, and
  `CcOneAnswer`, `CcWritesFollowReads`, `CcInfoIsItsOwn` for an `Orderly`
  chaincode, with any number of requests, keys and versions. `IdsOK` says that
  ids tell sessions apart and that what the map of proposals holds is alive.
  `Reads` is the argument for the other two: a question of a session is asked
  once, so at most one message about a key carries its id (`QuestionsOK`), and
  while one is under way the entry is unread and therefore not set; hence an
  answer never overwrites what the chaincode set, and a set entry has the
  version after the one it read (`EntriesOK`). `CcPromiseKept` is the refinement
  of `UserCall`: whoever answers finds the session alive, and what is alive was
  not answered.
- `VbhQueryProofs`: `PoolMirrorsConnections`, `PoolGoesRound`, `QueryHeardOnce`,
  `QueryWaitsOnLive`, for any number of callers, connections and peers and
  whatever index a new entry starts with.
  - `MirrorsConnections` is inductive with the types (`PoolInv`); the lemmas say
    what `RemoveAt` and an append leave of a sequence without repetition.
  - The turns need a description of the past: `PeersRound` and `HandlersRound` say
    that the pick `d` turns ago was of the place `Back(nIndex, d, size)`, counted
    from the index backwards and around the array, for as many turns as the array
    is long. Two equal picks less than a turn apart would be at two places of an
    array without repetition. For the connections of one peer, `d` is the number
    of later picks of that peer (`After`), since picks of others come in between.
  - `QueryPromiseKept` is the refinement of `UserCall`. A lost connection maps to
    one step that answers all callers on it (`LossTells`), any other end of a
    session to the answer of its caller.
  - `IdsTell` says that an id, of a session or of a request that an endorser may
    still answer, belongs to one caller; `WaitingHeardNothing` that a caller whose
    session waits, or who has not asked, has no answer yet. `WaitsOnLive` is
    inductive only beside the pool: a pick is a connection of the arrays, and those
    are the established ones.
- `VbhCryptClientProofs`: `CryptOwnEndorsement`, `CryptSubmitOrCancel`,
  `CryptSessionsSound`, `CryptSaysReady`, for any requests, kinds, contents and
  configuration. Unlike `VbhEndorseProofs` they do not suppose that every message
  can be sent: an endorsement proves the nonce of its request, so it is that
  nonce, and not the session id, that decides whose vote it is. `IdsOK` therefore
  claims that ids tell messages apart only of queries, and of all kinds while no
  send has failed. `VotesOK` counts the votes of a session, `MessagesOK` places an
  endorser either among the voters or behind a message under way, `HistoryOK`
  says what a submit or a cancel that was sent implies of the session now.
  `OutOK` counts the answers: a send that failed half-way costs one answer too
  many. `CryptPromiseKept` is the refinement of `UserCall` up to the first such
  send, step by step from the same invariant: an endorsement, a submit answer or
  the answer to a query that finds a session finds one that has not answered. `ReadyInv` adds that before the registration of the callback nobody was
  told anything.
- `TypeArrayProofs`: no theorem, but the lemmas about `CTypeArray` that the next
  modules cite: insert, delete and deal keep it `Sound` (each element once, index
  inside) and what they do to its elements.
- `MqProofs`, for any finite number of nodes (they are those of the sequence
  `Order`), any clients, connections, topics and bounds:
  - `P2pRegistryAgrees`. `WantedIsRegistered` speaks only of moments when nothing is
    under way, so it is not inductive. `WantedIsUnderWay` says that what a node
    wants is registered at the other end or in a message on its way, from the
    moment the node met the other end with no end outstanding, and is on its way
    as long as the other end has not met it. `RemotesAgree` is what that rests on:
    an address is known only of a node that was met or has an end outstanding, so
    one that is met with none outstanding is new, is sent the topics, and cannot
    be erased before its connection ends.
  - `P2pPollsGoRound` and `ForwarderServesInTurn`, with the argument of the pool's
    turns (`PollsEndAtCursor`, `TurnsEndAtIndex`).
  - `ForwarderSessionsAgree`, with what is on the stack of lost connections: a
    connection there is broken, and its session may be that of its client no
    longer (`OneSession`). `ForwarderKeepsRegistered` is an action property.
- `LibraryProofs`:
  - `ParamStays`, `StartsOneWorker`, `ZeroIsMeant`, for any number of threads, of
    which none is the value `NoThread`. `FirstHoldsLock` is the mutual exclusion:
    who is about to set `m_bInited` holds the lock and found it unset.
    `WorkerOfCaller` ties each worker to the thread that waits for it.
  - `AgentsStayInAgreement`, for any agents, forwarders and faults. What an agent
    deals and says depends on nothing but its own three handlers, so `ArraysSound`
    and `SaysReady` are inductive with the types; scheduler and forwarders only
    have to keep the types of what they send.
  - `CacheKeepsOrder` and `CacheOpensWhole`, for any length of the ring. `Between`
    says for every phase of a push or a pop how the indices stand to the saved
    context, and that both the ring and the context read as the blocks of that
    moment; `DiskOK` that a ring without all its files never had a block. The
    arithmetic is that of indices modulo the length: `PushReads`, `PopReads`, and
    `WriteReads` for the block that is written at the rear before it counts.
  - `KeyFileIsWhole`, for any users and number of writes. `KeyInv` says that the
    file is a beginning of the text of the key last written. A field is never a
    mark, so only the whole text ends with the end mark, and the first terminator
    of the buffer is the one behind the last field.
  - `TableIsRight`, for any applications and process ids (`PidsAssumption`:
    positive, and more than there are applications). `TableOK` adds that an
    application with a process is in the list and that a process whose exit is to
    be handled does not run; then `handle_exit` finds exactly the application that
    ended.
  - `TreeSafe` and `OneNodeIsLeft`, for any number of leaves. `LevelInPlace` is
    about the inner loop: after `k` parents the first `k` places hold those of the
    new level and the places from `2k + 1` on are untouched, so a parent is
    computed from nodes that nobody overwrote. `RoundHolds` says the same of the
    outer loop against the levels of the reference, and that a round makes the
    level shorter until one node is left. The library's theorems on induction and
    on recursive functions take an operator as their parameter, which the provers
    cannot instantiate; `SetInduction` states induction for a set of naturals
    instead, and `LevelsExist`, `RoundsExist` and their like solve each recursion
    by building its function step by step.
  - `FreesSafe`, for every function of both builds of the library. `EncInv` says
    for each place of a function what it holds there, as tables of the resources
    taken on the way; each call that succeeds moves to the next place, each that
    fails to a way out whose frees are compared with the table.

Only model-checked: liveness, which TLAPS does not support (the fairness part of
`KeepsPromise`, `AskedIsAnswered`, `Converges`, `InitReturns`).

## 14. Not modelled

- Demo chaincodes (`cc/plugin`): written against an older `CCcService` and do
  not compile with this one.
- IDC service (`src/src/idc`): unfinished in this commit. `CIdcClientService` has
  no `OnConnectedNodify`, so its pool stays empty and it drops each request;
  `SendVbhSdkServiceMessage` sends nothing. Only `CIdcClient`, which starts like
  the other SDKs, is in `ClientSdk`.
- Committer router: a table read once; its user is not in the repository.
- Message definitions: records without behaviour; their fields are those of the
  models' messages.
- `PubTopicPollMqMsg` of the message queue does not compile; the test programs
  of the queue, demos, GUI, jssdk and scripts promise nothing of their own.
- `CUnRegistUserReq` has an empty handler. The parts of `OnInit` that read the
  configuration are modelled as far as the tables they build; wording of logs,
  serialisation and the ciphers are not.
- The containers of the framework are ideal maps and sets, so the hazards that
  depend on their internals (an intrusive index shared by several arrays, erasing
  while iterating) are in the table of section 12.
