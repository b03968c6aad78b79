------------------------------- MODULE DiskIO -------------------------------
(***************************************************************************)
(* What a caller of virtio_disk_rw() may rely on (kernel/virtio_disk.c):   *)
(* the transfer between the buffer it has locked and the block it named    *)
(* happens exactly once, between the call and the return.  The driver and  *)
(* the device behind it are module Virtio; the buffer cache (module        *)
(* BCache) uses the disk through these three steps.                        *)
(***************************************************************************)
CONSTANTS Buf,          \* the struct bufs
          Block,        \* block numbers on the disk
          Data,         \* contents of a block
          Zero,         \* what the disk and the cache hold at boot
          NoRequest

ASSUME DataAssumption == Zero \in Data
ASSUME RequestAssumption ==
  NoRequest \notin [write : BOOLEAN, block : Block, done : BOOLEAN]

VARIABLES sector,       \* Block -> Data, what is on the platter
          data,         \* Buf -> Data, b->data
          request       \* Buf -> the call of virtio_disk_rw in progress
diskVars == <<sector, data, request>>

DiskInit ==
  /\ sector = [k \in Block |-> Zero]
  /\ data = [b \in Buf |-> Zero]
  /\ request = [b \in Buf |-> NoRequest]

(* The owner of an idle buffer changes its contents. *)
Store(b, v) ==
  /\ request[b] = NoRequest
  /\ data' = [data EXCEPT ![b] = v]
  /\ UNCHANGED <<sector, request>>

(* The call, with the contents v the buffer then has. *)
Submit(b, w, k, v) ==
  /\ request[b] = NoRequest
  /\ request' = [request EXCEPT ![b] = [write |-> w, block |-> k, done |-> FALSE]]
  /\ data' = [data EXCEPT ![b] = v]
  /\ UNCHANGED sector

Transfer(b) ==
  /\ request[b] # NoRequest
  /\ ~request[b].done
  /\ request' = [request EXCEPT ![b].done = TRUE]
  /\ IF request[b].write
     THEN /\ sector' = [sector EXCEPT ![request[b].block] = data[b]]
          /\ UNCHANGED data
     ELSE /\ data' = [data EXCEPT ![b] = sector[request[b].block]]
          /\ UNCHANGED sector

Return(b) ==
  /\ request[b] # NoRequest
  /\ request[b].done
  /\ request' = [request EXCEPT ![b] = NoRequest]
  /\ UNCHANGED <<sector, data>>

DiskNext ==
  \E b \in Buf :
    \/ \E v \in Data : Store(b, v)
    \/ \E w \in BOOLEAN, k \in Block, v \in Data : Submit(b, w, k, v)
    \/ Transfer(b)
    \/ Return(b)

=============================================================================
