-------------------------- MODULE MCVbhCryptClient --------------------------
(* Instances of VbhCryptClient for TLC.                                    *)
EXTENDS VbhCryptClient, TLC

CONSTANTS h1, h2, r1, r2, c1

(* Two peers with one endorser connection each.                            *)
Cfg == <<[h |-> h1, peer |-> 1], [h |-> h2, peer |-> 2]>>

Symmetry == Permutations(Requests) \cup Permutations(Contents \ {Empty})
=============================================================================
