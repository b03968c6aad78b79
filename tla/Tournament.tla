----------------------------- MODULE Tournament -----------------------------
(***************************************************************************)
(* user/tournament.c with user/libtournament.c over the Peterson locks of  *)
(* the kernel: one process creates a tree of locks, forks the others, and  *)
(* each climbs from its leaf to the root, is in the critical section, and  *)
(* releases from the root down.  A system call of a process is the action  *)
(* of module Peterson; the library's and the program's code between two    *)
(* calls touches the process's own memory only and belongs to the step of  *)
(* the call before it.  Processes are named by their tournament numbers.   *)
(***************************************************************************)
EXTENDS Peterson, TournamentTree, Sequences, FiniteSets

CONSTANTS MaxProcesses,  \* the limit of tournament_create (16)
          MayFail        \* whether malloc and fork may fail

ASSUME Bounds == MaxProcesses \in Nat \ {0} /\ Proc = 0 .. MaxProcesses - 1 /\ MayFail \in BOOLEAN

VARIABLES N,       \* N_processes: the argument of the program
          ids,     \* peterson_lock_ids_array, as far as it is filled
          forked,  \* children process 0 has forked
          reaped,  \* children process 0 has waited for
          at,      \* where each process is
          lvl      \* loop variable l of acquire and release

uvars == <<N, ids, forked, reaped, at, lvl>>
tvars == <<vars, uvars>>

At == {"unborn", "start", "create", "fork", "acquire", "critical", "release", "wait",
       "exit0", "exit1"}

\* get_log2_if_power_of_2
IsPowerOf2(n) == \E k \in 0 .. n : 2 ^ k = n
L_levels == CHOOSE k \in 0 .. N : 2 ^ k = N

TTypeOK ==
  /\ TypeOK
  /\ N \in 0 .. MaxProcesses + 1
  /\ ids \in Seq(Id) /\ Len(ids) < MaxProcesses
  /\ forked \in 0 .. MaxProcesses - 1 /\ reaped \in 0 .. forked
  /\ at \in [Proc -> At]
  /\ lvl \in [Proc -> 0 .. MaxProcesses]

\* The program may find the table as earlier runs left it: they never destroy
\* their locks.  leaked is how many slots they took.
TInit ==
  /\ \E leaked \in 0 .. NPETERSONLOCKS :
       ptable = [i \in Id |-> IF i < leaked THEN Fresh ELSE Unused]
  /\ waiting = {} /\ held = {} /\ doomed = {} /\ dead = {} /\ ret = [p \in Proc |-> 0]
  /\ N \in 0 .. MaxProcesses + 1
  /\ ids = <<>> /\ forked = 0 /\ reaped = 0
  /\ at = [p \in Proc |-> IF p = 0 THEN "start" ELSE "unborn"]
  /\ lvl = [p \in Proc |-> 0]

Goes(p, place) == at' = [at EXCEPT ![p] = place]
ClimbsFrom(p, l) == Goes(p, "acquire") /\ lvl' = [lvl EXCEPT ![p] = l]

-----------------------------------------------------------------------------
(* tournament_create                                                       *)

\* The checks of main and tournament_create, and malloc.
Start ==
  /\ at[0] = "start" /\ 0 \notin dead
  /\ \/ N \in 1 .. MaxProcesses /\ IsPowerOf2(N) /\ Goes(0, IF N = 1 THEN "fork" ELSE "create")
     \/ (N \notin 1 .. MaxProcesses \/ ~IsPowerOf2(N)) /\ Goes(0, "exit1")
     \/ MayFail /\ N > 1 /\ N <= MaxProcesses /\ IsPowerOf2(N) /\ Goes(0, "exit1")
  /\ UNCHANGED <<vars, N, ids, forked, reaped, lvl>>

\* bug: a failed peterson_create ends the loop, not the program
AfterCreateUnchecked ==
  IF ret'[0] < 0
    THEN Goes(0, "fork") /\ UNCHANGED ids
    ELSE /\ ids' = Append(ids, ret'[0])
         /\ Goes(0, IF Len(ids') = N - 1 THEN "fork" ELSE "create")
\* Fill the next entry of the array, or give up.
AfterCreate ==
  IF ret'[0] < 0
    THEN Goes(0, "exit1") /\ UNCHANGED ids
    ELSE /\ ids' = Append(ids, ret'[0])
         /\ Goes(0, IF Len(ids') = N - 1 THEN "fork" ELSE "create")

\* One round of the loop of peterson_create calls.
CreateLock ==
  /\ at[0] = "create"
  /\ sys_peterson_create(0)
  /\ AfterCreate
  /\ UNCHANGED <<N, forked, reaped, lvl>>

\* One round of the loop of forks; a child starts to climb at once, while its
\* parent goes on forking.  After a failed fork the parent gives up and the
\* children it has go on.
Fork ==
  /\ at[0] = "fork" /\ 0 \notin dead
  /\ \/ /\ forked < N - 1
        /\ forked' = forked + 1
        /\ at' = [at EXCEPT ![forked + 1] = "acquire"]
        /\ lvl' = [lvl EXCEPT ![forked + 1] = L_levels - 1]
     \/ /\ forked = N - 1
        /\ IF N = 1 THEN Goes(0, "critical") /\ UNCHANGED lvl ELSE ClimbsFrom(0, L_levels - 1)
        /\ UNCHANGED forked
     \/ /\ MayFail /\ forked < N - 1
        /\ Goes(0, "exit1") /\ UNCHANGED <<forked, lvl>>
  /\ UNCHANGED <<vars, N, ids, reaped>>

-----------------------------------------------------------------------------
(* tournament_acquire, the critical section and tournament_release         *)

\* The kernel's number of the process's lock on level l; -1, which the kernel
\* rejects like the library, if the index is outside the array.
LockAt(p, l) ==
  LET i == ArrayIdx(L_levels, p, l) IN IF i + 1 \in DOMAIN ids THEN ids[i + 1] ELSE -1
RoleAt(p, l) == RoleAtLevel(L_levels, p, l)

\* What follows when an acquire call on a level has returned: the next level
\* up, the critical section, or the end after a failure.
AfterAcquire(p) ==
  IF ret'[p] < 0 THEN Goes(p, "exit1") /\ UNCHANGED lvl
  ELSE IF lvl[p] = 0 THEN Goes(p, "critical") /\ UNCHANGED lvl
  ELSE ClimbsFrom(p, lvl[p] - 1)

Climb(p) ==
  /\ at[p] = "acquire"
  /\ LET id == LockAt(p, lvl[p])  role == RoleAt(p, lvl[p]) IN
       /\ sys_peterson_acquire(p, id, role) \/ Recheck(p, id, role)
       /\ IF <<p, id, role>> \in waiting' THEN UNCHANGED <<at, lvl>> ELSE AfterAcquire(p)
  /\ UNCHANGED <<N, ids, forked, reaped>>

\* The critical section ends; the loop of tournament_release starts at the root.
Leave(p) ==
  /\ at[p] = "critical" /\ p \notin dead
  /\ IF N = 1 THEN Goes(p, "wait") /\ UNCHANGED lvl
              ELSE Goes(p, "release") /\ lvl' = [lvl EXCEPT ![p] = 0]
  /\ UNCHANGED <<vars, N, ids, forked, reaped>>

\* bug: release climbs again, from the leaf to the root
ReleaseLevelUp(p) == L_levels - 1 - lvl[p]
\* the level of a round of the loop of tournament_release
ReleaseLevel(p) == lvl[p]

Descend(p) ==
  /\ at[p] = "release"
  /\ sys_peterson_release(p, LockAt(p, ReleaseLevel(p)), RoleAt(p, ReleaseLevel(p)))
  /\ IF ret'[p] < 0 THEN Goes(p, "exit1") /\ UNCHANGED lvl
     ELSE IF lvl[p] + 1 < L_levels THEN lvl' = [lvl EXCEPT ![p] = @ + 1] /\ UNCHANGED at
     ELSE Goes(p, IF p = 0 THEN "wait" ELSE "exit0") /\ UNCHANGED lvl
  /\ UNCHANGED <<N, ids, forked, reaped>>

\* bug: the parent waits again and again
WaitForever ==
  /\ at[0] = "wait" /\ 0 \notin dead
  /\ reaped' = IF reaped < N - 1 /\ Cardinality(dead) > reaped THEN reaped + 1 ELSE reaped
  /\ UNCHANGED <<vars, N, ids, forked, at, lvl>>
\* main: process 0 waits for N - 1 children.
Wait ==
  /\ at[0] = "wait" /\ 0 \notin dead
  /\ \/ reaped < N - 1 /\ Cardinality(dead) > reaped /\ reaped' = reaped + 1 /\ UNCHANGED at
     \/ reaped = N - 1 /\ Goes(0, "exit0") /\ UNCHANGED reaped
  /\ UNCHANGED <<vars, N, ids, forked, lvl>>

Exit(p) == at[p] \in {"exit0", "exit1"} /\ exit(p) /\ UNCHANGED uvars

\* kill: a process that has been killed exits when it next comes back to user
\* space, wherever that is; one in the loop of an acquire call stays there.
Killed(p) == at[p] # "unborn" /\ exit(p) /\ UNCHANGED uvars

Step(p) == Climb(p) \/ Leave(p) \/ Descend(p) \/ Exit(p)
TNext == Start \/ CreateLock \/ Fork \/ Wait \/ \E p \in Proc : Step(p) \/ Killed(p)

\* All processes have ended.
Over == \A p \in Proc : at[p] = "unborn" \/ p \in dead
\* A process was killed before it reached its own exit.
Casualty == \E p \in dead : at[p] \notin {"exit0", "exit1"}
\* What is left after a kill may wait for ever, for a flag or for an exit.
TDone == (Over \/ Casualty) /\ UNCHANGED tvars

\* Every process that can go on is eventually run: scheduler() is round robin.
TSpec ==
  /\ TInit /\ [][TNext \/ TDone]_tvars
  /\ WF_tvars(Start) /\ WF_tvars(CreateLock) /\ WF_tvars(Fork) /\ WF_tvars(Wait)
  /\ \A p \in Proc : WF_tvars(Step(p))

-----------------------------------------------------------------------------
(* Properties.                                                             *)

\* At most one process is past tournament_acquire and not yet in
\* tournament_release, one that was killed there included.
OneInCriticalSection ==
  \A p, q \in Proc : at[p] = "critical" /\ at[q] = "critical" => p = q

\* The library keeps to the protocol of the Peterson locks: the two roles of a
\* lock are never used by two processes each, only holders release.  This is
\* what the order of release, from the root down, is for.
KeepsDiscipline == [][DisciplinedNext]_vars

\* A process that is climbing at level l holds exactly its locks below l; one
\* in the critical section holds its whole path to the root; one that is
\* releasing at level l holds its path below and including l.
HoldsItsPath ==
  \A p \in Proc :
    LET Path(ls) == {<<p, LockAt(p, k), RoleAt(p, k)>> : k \in ls}
        mine == {c \in held : c[1] = p}
    IN  /\ at[p] = "acquire" => mine = Path(lvl[p] + 1 .. L_levels - 1)
        /\ at[p] = "critical" /\ N > 1 => mine = Path(0 .. L_levels - 1)
        /\ at[p] = "release" => mine = Path(lvl[p] .. L_levels - 1)

\* Nobody competes on a part of a tree: when peterson_create has failed no
\* child exists, and the locks of a tree are N - 1 different active ones.
TreeComplete ==
  forked > 0 => /\ Len(ids) = N - 1
                /\ \A i, j \in 1 .. Len(ids) : ids[i] = ids[j] => i = j
                /\ \A i \in 1 .. Len(ids) : ptable[ids[i]].active

\* The tree excludes, and as it should: nobody competes on a part of a tree, who
\* is in the critical section holds the whole path to the root, and there is one
\* such process at most (libtournament.c:67-88, 122-185); types are kept.
TreeExcludes == TTypeOK /\ TreeComplete /\ HoldsItsPath /\ OneInCriticalSection

\* Every process that starts to climb gets to the critical section, also when
\* a later fork failed and its parent is gone; only a kill can keep it out.
EveryoneGetsIn == \A p \in Proc : at[p] = "acquire" ~> at[p] = "critical" \/ Casualty

\* The program ends, and leaves no flag raised in the locks it leaves behind,
\* unless a process is killed.
EndsClean == <>(Casualty \/ (Over /\ \A i \in Id : ptable[i].flag = NoFlag))
=============================================================================
