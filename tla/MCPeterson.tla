----------------------------- MODULE MCPeterson -----------------------------
(* Model values for the Peterson lock table.                               *)
EXTENDS Peterson, TLC

Symmetry == Permutations(Proc)
=============================================================================
