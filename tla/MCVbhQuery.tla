----------------------------- MODULE MCVbhQuery -----------------------------
(* An instance of VbhQuery for TLC.  The connections are those LoadPeerInfo *)
(* makes of three rows of the endorser table: two of one peer, one of      *)
(* another.                                                                *)
EXTENDS VbhQuery

Rows == <<"A", "A", "B">>

MCHandlers == DOMAIN Rows
MCPeers == ToSet(Rows)
MCPeerOf == [h \in MCHandlers |-> PeersById(LoadPeerInfo(Rows), h)]
=============================================================================
