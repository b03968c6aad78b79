------------------------------ MODULE MCBCache ------------------------------
(* A buffer cache smaller than its disk, a process that writes and holds   *)
(* two buffers, any one under any other, and one that holds one.  Blocks   *)
(* and buffers can be exchanged.  To bound the contents, a user changes a  *)
(* block only while all others are as they were at boot.                   *)
EXTENDS BCache, TLC

AnyUnderAny == {<<x, y>> \in Block \X Block : x # y}

Marked == {k \in Block : \/ sector[k] # Zero
                         \/ \E b \in Buf : blockno[b] = k /\ valid[b] /\ data[b] # Zero}
OneMarked == Cardinality(Marked) <= 1
UserWrites == data' # data /\ request' = request

MCBCacheSpec == BCacheInit /\ [][BCacheNext /\ (UserWrites => OneMarked')]_bcacheVars

Symmetry == Permutations(Block) \cup Permutations(Buf)
=============================================================================
