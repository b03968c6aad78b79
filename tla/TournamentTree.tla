--------------------------- MODULE TournamentTree ---------------------------
(***************************************************************************)
(* The arithmetic of user/libtournament.c: where in the tree of locks a    *)
(* process meets its rivals.  The tree of L levels is kept as an array in  *)
(* breadth-first order, level 0 being the root.                            *)
(***************************************************************************)
EXTENDS Integers

\* my_id >> s
Shr(id, s) == id \div 2 ^ s

\* role_at_level: the bit number L - 1 - l of the process's number
RoleAtLevel(L, id, l) == Shr(id, L - 1 - l) % 2

\* bug: the offset of the level is 1 << l
ArrayIdxOffByOne(L, id, l) == Shr(id, L - l) + 2 ^ l
\* bug: the lock is taken by the process's number, not by its group's
ArrayIdxUngrouped(L, id, l) == Shr(id, L - 1 - l) + 2 ^ l - 1
\* array_idx: the process's group within level l, after the levels above
ArrayIdx(L, id, l) == Shr(id, L - l) + 2 ^ l - 1
=============================================================================
