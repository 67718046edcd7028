---------------------------- MODULE MCCcService ----------------------------
(* An instance of CcService for TLC: the numbers of users and informations *)
(* are also versions.                                                      *)
EXTENDS CcService

CONSTANTS i1, i2, u1, u2

NumberOf == [k \in {i1, i2, u1, u2} |-> IF k \in {i1, u1} THEN 1 ELSE 2]
MCSysId == [k \in Keys |-> NumberOf[k]]
=============================================================================
