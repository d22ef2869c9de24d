---------------------------- MODULE MCRaftEngine ----------------------------
(* The instances of RaftEngine that TLC checks.                            *)
EXTENDS RaftEngine, TLC

CONSTANTS a, b

OneValue == {a}
TwoValues == {a, b}
SameSize == [v \in Values |-> 1]
TwoPeers == {1, 2}
ThreePeers == {1, 2, 3}

Symmetry == Permutations(Values)
=============================================================================
