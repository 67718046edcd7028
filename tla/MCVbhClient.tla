---------------------------- MODULE MCVbhClient ----------------------------
(* Instances of VbhClient for TLC.                                         *)
EXTENDS VbhClient, TLC

Symmetry == Permutations(Handlers) \cup Permutations(Requests)
            \cup Permutations(Contents \ {Empty})
=============================================================================
