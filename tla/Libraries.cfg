\* One agent, two forwarders, three faults; two threads; a ring of three
\* blocks; up to seven leaves; three applications.
CONSTANTS
  agent1 = agent1
  app1 = app1
  app2 = app2
  app3 = app3
  Agents <- MCAgents
  Given <- MCGiven
  Forwarders = {f1, f2}
  MaxFaults = 3
  Threads = {t1, t2}
  MaxRequests = 2
  CacheCount = 3
  Blocks = {b1, b2}
  InitCount = 2
  Increase = 2
  MaxLeaves = 7
  Users = {u1, u2}
  MaxWrites = 2
  Apps <- MCApps
  AppOrder <- MCAppOrder
  Pids = {1, 2, 3, 4}
SPECIFICATION MCSpec
CHECK_DEADLOCK FALSE
INVARIANT AgentsAgree
PROPERTY Converges
INVARIANT ParamIsThere
INVARIANT OneWorker
INVARIANT ZeroMeansReady
PROPERTY InitReturns
INVARIANT BlocksInOrder
INVARIANT OpenedIsWhole
INVARIANT RootIsOfLeaves
INVARIANT FreesWhatItHolds
INVARIANT KeyComesBackWhole
INVARIANT EachIsWatched
