----------------------------- MODULE BlockStore -----------------------------
(***************************************************************************)
(* What the buffer cache promises its users (kernel/bio.c:1-16): blocks    *)
(* with contents, each used by one process at a time.  Neither the number  *)
(* of buffers nor the disk can be seen.                                    *)
(***************************************************************************)
CONSTANTS User, Block, Data, Zero, Nobody

VARIABLES contents,     \* Block -> Data
          user          \* Block -> the process that has it from bread()
storeVars == <<contents, user>>

StoreInit ==
  /\ contents = [k \in Block |-> Zero]
  /\ user = [k \in Block |-> Nobody]

Take(p, k) ==
  /\ user[k] = Nobody
  /\ user' = [user EXCEPT ![k] = p]
  /\ UNCHANGED contents

Change(p, k, v) ==
  /\ user[k] = p
  /\ contents' = [contents EXCEPT ![k] = v]
  /\ UNCHANGED user

Give(p, k) ==
  /\ user[k] = p
  /\ user' = [user EXCEPT ![k] = Nobody]
  /\ UNCHANGED contents

StoreNext ==
  \E p \in User, k \in Block :
    \/ Take(p, k) \/ Give(p, k)
    \/ \E v \in Data : Change(p, k, v)

StoreSpec == StoreInit /\ [][StoreNext]_storeVars
=============================================================================
