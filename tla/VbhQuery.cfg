\* Two peers with three connections and two queries of either kind.
CONSTANTS
  Callers = {1, 2}
  Handlers <- MCHandlers
  Peers <- MCPeers
  PeerOf <- MCPeerOf
  Garbage = {0, 7}
  MaxPicks = 5
SPECIFICATION LiveQuerySpec
INVARIANT PoolMirrors
INVARIANT PicksGoRound
INVARIANT HearsOwnOnce
INVARIANT WaitsOnLive
PROPERTY KeepsPromise
