---------------------------- MODULE MCRunControl ----------------------------
(* Instances of RunControl for TLC.                                        *)
EXTENDS RunControl, TLC

CONSTANTS c1, c2

OneClient  == {c1}
TwoClients == {c1, c2}
AllKinds   == {"start", "pause", "cancel", "resume", "recover"}
Symmetry   == Permutations(TwoClients)
=============================================================================
