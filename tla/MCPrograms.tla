----------------------------- MODULE MCPrograms -----------------------------
(* Two user programs that are many processes: the tournament, of up to     *)
(* four processes on tables that have just enough slots for its largest    *)
(* tree, some of them lost to earlier runs, and the shell with the         *)
(* processes of a command.  A behaviour is one of either, the other rests. *)
EXTENDS Tournament, ShellRun

MCProc == 0 .. 3
MCRunLines ==
  { <<"a", "|", "a", "|", "a">>, <<"(", "a", ";", "a", ")", "|", "a">>, <<"a", "&", ";", "a">>,
    <<"a", "|", "a", ">", "a">>, <<"(", "a", "&", ")", "|", "a">>,
    <<"a", "<", "a", ">", ">", "a">>, <<"a", ")">>, <<"|">> }

VARIABLE part
shellVars == <<runVars, parseVars>>
programsVars == <<part, tvars, shellVars>>

OfTournament(A) == part = "tournament" /\ A /\ UNCHANGED <<part, shellVars>>
OfShell(A) == part = "shell" /\ A /\ UNCHANGED <<part, tvars, parseVars>>

ProgramsInit ==
  /\ part \in {"tournament", "shell"}
  /\ TInit /\ RunInit /\ line = <<>> /\ tree = <<>>
  /\ part = "shell" => N = 0 /\ \A i \in Id : ptable[i] = Unused
ProgramsNext == OfTournament(TNext \/ TDone) \/ OfShell(RunNext)

(* The fairness of TSpec and of RunSpec, a condition of the one with a     *)
(* condition of the other: only one of the two programs ever moves.        *)
ProgramsFairness ==
  /\ \A p \in Proc : WF_programsVars(OfTournament(Step(p)) \/ OfShell(RunStep(p + 1)))
  /\ WF_programsVars(OfTournament(Start) \/ OfShell(RunStep(5)))
  /\ WF_programsVars(OfTournament(CreateLock) \/ OfShell(RunStep(6)))
  /\ WF_programsVars(OfTournament(Fork))
  /\ WF_programsVars(OfTournament(Wait))

ProgramsSpec == ProgramsInit /\ [][ProgramsNext]_programsVars /\ ProgramsFairness

(* Tournament: every process that starts to climb gets into the critical   *)
(* section, and the program ends and leaves no flag raised in the locks it *)
(* leaves behind, unless one of its processes is killed (tournament.c,     *)
(* main; libtournament.c:145, 175).                                        *)
TournamentCompletes == EveryoneGetsIn /\ (part = "tournament" => EndsClean)
=============================================================================
