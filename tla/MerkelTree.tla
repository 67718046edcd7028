----------------------------- MODULE MerkelTree -----------------------------
(***************************************************************************)
(* CMerkelTree: leaves are added to an array that grows, and the levels of *)
(* the tree are computed in place, each over the front of the one below.   *)
(* A digest is the sequence it was made from.                              *)
(***************************************************************************)
EXTENDS Integers, Sequences

CONSTANTS
  InitCount,  (* MERKEL_TREE_INIT_NODE_COUNT                               *)
  Increase,   (* MERKEL_TREE_NODE_INCREASE_STEP                            *)
  MaxLeaves   (* bound: leaves of a tree                                   *)

ASSUME CountsAssumption == {InitCount, Increase} \subseteq Nat \ {0} /\ MaxLeaves \in Nat

VARIABLES
  nodes,   (* m_pNodes: the array, as long as m_nAllocNum                  *)
  curNum,  (* m_nCurNum                                                    *)
  built,   (* the root was computed                                        *)
  given    (* history: the data of the leaves since the tree was cleared   *)

treeVars == <<nodes, curNum, built, given>>

Unset == <<"unset">>
Leaf(d) == <<"leaf", d>>

(* CalculateHashValue digests the right child followed by the left one.    *)
CalculateHashValue(left, right) == <<"node", right, left>>

(* InceaseNode: a longer array with the nodes of the old one.              *)
InceaseNode(array, n) ==
  [i \in 1 .. Len(array) + Increase |-> IF i <= n THEN array[i] ELSE Unset]

(* newSize: how many nodes the level above has; the k-th of them is made   *)
(* of two neighbours, a node without a neighbour being its own.            *)
NewSize(size) == (size + 1) \div 2

ParentOf(s, k, size) ==
  CalculateHashValue(s[2 * k - 1], IF 2 * k <= size THEN s[2 * k] ELSE s[2 * k - 1])

(* Mutant: the last node of an odd level is left as it is.                 *)
Level_OddStays(array, size) ==
  LET done[k \in 0 .. NewSize(size)] ==
        IF k = 0 THEN array
        ELSE LET a == done[k - 1] IN
             IF 2 * k <= size THEN [a EXCEPT ![k] = ParentOf(a, k, size)] ELSE a
  IN done[NewSize(size)]

(* One level: each parent overwrites a node whose own parent is computed   *)
(* already.                                                                *)
Level(array, size) ==
  LET done[k \in 0 .. NewSize(size)] ==
        IF k = 0 THEN array
        ELSE LET a == done[k - 1] IN [a EXCEPT ![k] = ParentOf(a, k, size)]
  IN done[NewSize(size)]

(* The loop: a level each time, until one node is left.  A tree has fewer  *)
(* levels than leaves, so the loop has ended after size rounds.            *)
Rounds(array, size) ==
  LET after[i \in 0 .. size] ==
        IF i = 0 THEN [a |-> array, size |-> size]
        ELSE LET t == after[i - 1] IN
             IF t.size > 1 THEN [a |-> Level(t.a, t.size), size |-> NewSize(t.size)] ELSE t
  IN after

BuildMerkleTree(array, size) == Rounds(array, size)[size].a

-----------------------------------------------------------------------------
TreeInit ==
  /\ nodes = [i \in 1 .. InitCount |-> Unset]
  /\ curNum = 0 /\ built = FALSE /\ given = <<>>

(* Leaves are added to a tree that was not built since it was cleared: the *)
(* build overwrites the leaves of those before.                            *)
AddLeafNode(d) ==
  /\ ~built /\ Len(given) < MaxLeaves
  /\ LET room == IF curNum >= Len(nodes) THEN InceaseNode(nodes, curNum) ELSE nodes IN
     nodes' = [room EXCEPT ![curNum + 1] = Leaf(d)]
  /\ curNum' = curNum + 1
  /\ given' = Append(given, d)
  /\ UNCHANGED built

(* A tree without leaves is not built.                                     *)
Build ==
  /\ ~built /\ curNum > 0
  /\ nodes' = BuildMerkleTree(nodes, curNum)
  /\ built' = TRUE
  /\ UNCHANGED <<curNum, given>>

(* Clear keeps the array and what is in it.                                *)
Clear ==
  /\ curNum' = 0 /\ built' = FALSE /\ given' = <<>>
  /\ UNCHANGED nodes

TreeNext == Build \/ Clear \/ \E d \in {"a", "b"} : AddLeafNode(d)

TreeSpec == TreeInit /\ [][TreeNext]_treeVars

-----------------------------------------------------------------------------
(* The levels above a sequence of digests, none of them in place, and the *)
(* root: the one node of the last.                                         *)
LevelsOf(leaves) ==
  LET level[h \in 0 .. Len(leaves)] ==
        IF h = 0 THEN leaves
        ELSE LET s == level[h - 1] IN
             IF Len(s) > 1 THEN [k \in 1 .. NewSize(Len(s)) |-> ParentOf(s, k, Len(s))] ELSE s
  IN level

RootOf(leaves) == LevelsOf(leaves)[Len(leaves)][1]

(* GetRoot of a tree that was built is the root of the leaves that were    *)
(* added, in their order, however the array grew and whatever an earlier   *)
(* tree left in it (merkel_tree.cpp:17-65).                                *)
RootIsOfLeaves ==
  built => nodes[1] = RootOf([i \in DOMAIN given |-> Leaf(given[i])])
=============================================================================
