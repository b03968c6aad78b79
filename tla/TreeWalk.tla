------------------------------ MODULE TreeWalk ------------------------------
(***************************************************************************)
(* One process's way through the library of user/libtournament.c, for      *)
(* every number of processes up to MaxArg and every process: the loop of   *)
(* get_log2_if_power_of_2, the loop of tournament_acquire and the loop of  *)
(* tournament_release, without the other processes.                        *)
(***************************************************************************)
EXTENDS TournamentTree, Bitwise, Sequences

CONSTANT MaxArg

ASSUME ArgBound == MaxArg \in Nat

VARIABLES n,         \* the argument
          temp,      \* temp and log_val of get_log2_if_power_of_2
          log_val,
          stage,        \* "log", "create", "up", "down", "end"
          my_id,
          l,         \* loop variable of acquire and release
          path       \* the <<array_idx, role>> acquired, then those released
wvars == <<n, temp, log_val, stage, my_id, l, path>>

\* bug: the test is for even numbers
NoPower2Odd(k) == k & 1 = 0
\* (n & (n - 1)) != 0
NoPower2(k) == k & (k - 1) # 0

\* The early returns of get_log2_if_power_of_2; -1 is its error.
TreeWalkInit ==
  /\ n \in -1 .. MaxArg
  /\ temp = n
  /\ log_val = IF n <= 0 THEN -1 ELSE IF n > 1 /\ NoPower2(n) THEN -1 ELSE 0
  /\ stage = "log" /\ my_id = 0 /\ l = 0 /\ path = <<>>

\* while (temp > 1) { temp >>= 1; log_val++; }
Log2Loop ==
  /\ stage = "log" /\ log_val >= 0
  /\ \/ temp > 1 /\ temp' = Shr(temp, 1) /\ log_val' = log_val + 1 /\ UNCHANGED stage
     \/ temp <= 1 /\ stage' = "create" /\ UNCHANGED <<temp, log_val>>
  /\ UNCHANGED <<n, my_id, l, path>>

Log2Fails == stage = "log" /\ log_val < 0 /\ stage' = "end" /\ UNCHANGED <<n, temp, log_val, my_id, l, path>>

\* tournament_create returns each process its number.
Created ==
  /\ stage = "create"
  /\ my_id' \in 0 .. n - 1
  /\ l' = log_val - 1
  /\ stage' = "up"
  /\ UNCHANGED <<n, temp, log_val, path>>

Here == <<ArrayIdx(log_val, my_id, l), RoleAtLevel(log_val, my_id, l)>>

\* for (l = L_levels - 1; l >= 0; l--)
Up ==
  /\ stage = "up"
  /\ \/ l >= 0 /\ path' = Append(path, Here) /\ l' = l - 1 /\ UNCHANGED stage
     \/ l < 0 /\ l' = 0 /\ stage' = "down" /\ UNCHANGED path
  /\ UNCHANGED <<n, temp, log_val, my_id>>

\* bug: one level too few is released
DownMoreShort == l + 1 < log_val
\* for (l = 0; l < L_levels; l++)
DownMore == l < log_val

Down ==
  /\ stage = "down"
  /\ \/ DownMore /\ path' = Append(path, Here) /\ l' = l + 1 /\ UNCHANGED stage
     \/ ~DownMore /\ stage' = "end" /\ UNCHANGED <<path, l>>
  /\ UNCHANGED <<n, temp, log_val, my_id>>

End == stage = "end" /\ UNCHANGED wvars

TreeWalkNext == Log2Loop \/ Log2Fails \/ Created \/ Up \/ Down \/ End

TreeWalkSpec == TreeWalkInit /\ [][TreeWalkNext]_wvars

-----------------------------------------------------------------------------
\* The result of get_log2_if_power_of_2 is the logarithm, or -1 where there is
\* none: for a number that is not positive or has an odd divisor.
Log2Correct ==
  /\ stage \notin {"log", "end"} => 2 ^ log_val = n
  /\ stage = "end" /\ log_val = -1 => n <= 0 \/ \E d \in 3 .. n : d % 2 = 1 /\ n % d = 0

\* The path acquired is the path from the process's leaf to the root of a
\* binary tree in breadth-first order: node k has the children 2k + 1 (role 0)
\* and 2k + 2 (role 1), and the processes are the leaves n - 1 .. 2n - 2.  So
\* two processes meet exactly at the root of the smallest subtree with both,
\* in different roles, and no index leaves the array of n - 1 locks.
PathIsTreePath ==
  \A i \in 1 .. Len(path) :
    i <= log_val =>
      LET below == IF i = 1 THEN n - 1 + my_id ELSE path[i - 1][1]
      IN  below = 2 * path[i][1] + 1 + path[i][2] /\ path[i][2] \in {0, 1} /\ path[i][1] \in 0 .. n - 2

\* What is released is what was acquired, in reverse.
ReleaseReverses ==
  stage = "end" /\ log_val >= 0 =>
    /\ Len(path) = 2 * log_val
    /\ \A i \in 1 .. log_val : path[i] = path[2 * log_val + 1 - i]

\* All of it, for every number of processes up to the bound: the logarithm, the
\* path up and the path down (libtournament.c:20-40, 122-185).
WalkIsRight == Log2Correct /\ PathIsTreePath /\ ReleaseReverses
=============================================================================
