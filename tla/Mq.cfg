\* A forwarder with three clients, one of which reconnects twice; three
\* nodes of p2p_mq, one topic, two subscriptions, two breaks.
CONSTANTS
  k1 = k1
  k2 = k2
  k3 = k3
  a1 = a1
  a2 = a2
  a3 = a3
  b1 = b1
  c1 = c1
  topic1 = topic1
  topic2 = topic2
  n1 = n1
  n2 = n2
  n3 = n3
  None = None
  Clients <- MCClients
  Handles <- MCHandles
  Topics <- MCTopics
  ClientOf <- MCClientOf
  TopicsOf <- MCTopicsOf
  MaxTurns = 3
  Nodes <- MCNodes
  Order <- MCOrder
  P2pTopics = {topic1}
  MaxSubs = 2
  MaxBreaks = 2
  MaxPolls = 3
SPECIFICATION MCSpec
CHECK_DEADLOCK FALSE
INVARIANT SessionsAgree
INVARIANT ServedInTurn
PROPERTY OnlyOwnLossUnregisters
INVARIANT RegistryAgrees
INVARIANT PollsGoRound
