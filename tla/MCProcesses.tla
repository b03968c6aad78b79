---------------------------- MODULE MCProcesses -----------------------------
(* Processes, the table of Peterson locks at the level of statements, and  *)
(* the sequential code that user programs share: the tree arithmetic of    *)
(* the tournament, malloc() and the shell's parser.  A behaviour is one of *)
(* the part chosen at the start, the others rest.                          *)
EXTENDS MCProc, PetersonSpin, TreeWalk, UserHeap, ShellParse, TLC

VARIABLE part
processesVars == <<part, vars, svars, wvars, heapVars, parseVars>>

ProcessesInit ==
  /\ part \in {"proc", "table", "walk", "heap", "parse"}
  /\ Init /\ SpinTableInit /\ TreeWalkInit /\ HeapInit /\ ParseInit
  /\ part # "walk" => n = 0
  /\ part # "parse" => line = <<>>

ProcessesNext ==
  /\ UNCHANGED part
  /\ \/ part = "proc" /\ Next /\ UNCHANGED <<svars, wvars, heapVars, parseVars>>
     \/ part = "table" /\ SpinTableNext /\ UNCHANGED <<vars, wvars, heapVars, parseVars>>
     \/ part = "walk" /\ TreeWalkNext /\ UNCHANGED <<vars, svars, heapVars, parseVars>>
     \/ part = "heap" /\ HeapNext /\ UNCHANGED <<vars, svars, wvars, parseVars>>
     \/ part = "parse" /\ ParseNext /\ UNCHANGED <<vars, svars, wvars, heapVars>>

ProcessesSpec == ProcessesInit /\ [][ProcessesNext]_processesVars

(* The callers of the lock table can be exchanged, and the processors. *)
ProcessSymmetry == Permutations(Proc) \cup Permutations(CPU)
=============================================================================
