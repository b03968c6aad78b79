------------------------------- MODULE MCProc -------------------------------
(* Proc on a small table.                                                  *)
EXTENDS Proc

CONSTANTS c1, c2

TwoCPUs == {c1, c2}
OneCPU == {c1}
=============================================================================
