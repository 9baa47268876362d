-------------------------- MODULE MCGraphExecution --------------------------
(* Instances of GraphExecution for TLC.                                    *)
EXTENDS GraphExecution, TLC

CONSTANTS n1, n2

TwoNodes == {n1, n2}
OneNode  == {n1}
NodeSymmetry == Permutations(Nodes)
=============================================================================
