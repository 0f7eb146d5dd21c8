------------------------------ MODULE MCBSTree ------------------------------
(* Constants of BSTree for TLC.  malloc may place a node anywhere. *)
EXTENDS BSTree, TLC

CONSTANTS a1, a2, a3, a4, a5

\* Numbers of both signs, and 0.
MCKey == -1 .. 3

MCAddr == {a1, a2, a3, a4, a5}
Symmetry == Permutations(MCAddr)
=============================================================================
