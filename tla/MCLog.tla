------------------------------- MODULE MCLog --------------------------------
(* Log on a small disk.                                                    *)
EXTENDS Log, TLC

CONSTANTS p1, p2, b1, b2, b3

TwoProcs == {p1, p2}
ThreeBlocks == {b1, b2, b3}
Symmetry == Permutations(TwoProcs) \cup Permutations(ThreeBlocks)
=============================================================================
