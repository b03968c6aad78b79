------------------------------- MODULE Virtio -------------------------------
(***************************************************************************)
(* The virtio disk driver (kernel/virtio_disk.c) and the device behind it. *)
(* A call of virtio_disk_rw(b, write) is identified by its buffer, which   *)
(* the caller has locked.  A critical section of vdisk_lock up to the next *)
(* sleep() is one action; the interrupt handler's loop is a step per entry *)
(* because the device adds entries while it runs.                          *)
(***************************************************************************)
EXTENDS Integers, FiniteSets

CONSTANTS vBuf, vBlock, vNoRequest,
          SPB,          \* BSIZE / 512: sectors of a block
          NUM,          \* number of descriptors
          IdxRange,     \* range of the 16-bit ring indices; NUM divides it
          FirstIdx,     \* requests made, one at a time, before the model starts
          Kinds,        \* the calls made: TRUE to write, FALSE to read
          MaxCalls      \* bound on the calls of virtio_disk_rw()

ASSUME RingAssumption ==
  /\ NUM \in Nat /\ NUM >= 3
  /\ IdxRange \in Nat /\ IdxRange > 0 /\ IdxRange % NUM = 0
  /\ FirstIdx \in 0 .. IdxRange - 1
ASSUME SectorAssumption == SPB \in Nat \ {0} /\ vBlock \subseteq Nat /\ Kinds \subseteq BOOLEAN

VARIABLES
  platter,              \* sector -> 0 .. MaxCalls, the device's storage
  bdata,                \* vBuf -> contents of a block, b->data
  bdisk,                \* vBuf -> BOOLEAN, b->disk
  call,                 \* vBuf -> where its virtio_disk_rw() call stands
  desc, free, info, ops,\* the descriptor table and the driver's bookkeeping
  avail, used,          \* the rings, each with its idx
  used_idx,             \* how far the driver has looked in used
  handler,              \* vdisk_lock is held by virtio_disk_intr()
  calls,                \* calls made so far (bounded by MaxCalls)
  seen, taken, irq      \* device: avail read so far, heads in work, interrupt

driverVars == <<bdisk, call, desc, free, info, ops, avail, used_idx>>
virtioVars == <<platter, bdata, driverVars, used, handler, calls, seen, taken, irq>>

Desc == 0 .. NUM - 1
NoAddr == <<"none", 0>>
NoDesc == [addr |-> NoAddr, more |-> FALSE, next |-> 0]
NoBuf == 0
Idle == [at |-> "idle", write |-> FALSE, block |-> 0, head |-> 0]
Succ(i) == (i + 1) % IdxRange

\* A block is SPB sectors; the disk has what is in a block's sectors.
InBlock == 0 .. SPB - 1
AllOf(v) == [i \in InBlock |-> v]
Sectors == UNION {{k * SPB + i : i \in InBlock} : k \in vBlock}
OnDisk(s) == [i \in InBlock |-> platter[s + i]]

VirtioInit ==
  /\ platter = [s \in Sectors |-> 0]
  /\ bdata = [b \in vBuf |-> AllOf(0)]
  /\ bdisk = [b \in vBuf |-> FALSE]
  /\ call = [b \in vBuf |-> Idle]
  /\ desc = [i \in Desc |-> NoDesc]
  /\ free = [i \in Desc |-> TRUE]
  /\ info = [i \in Desc |-> [b |-> NoBuf, status |-> 255]]
  /\ ops = [i \in Desc |-> [write |-> FALSE, sector |-> 0]]
  /\ avail = [ring |-> [i \in Desc |-> 0], idx |-> FirstIdx]
  /\ used = [ring |-> [i \in Desc |-> 0], idx |-> FirstIdx]
  /\ used_idx = FirstIdx
  /\ handler = FALSE
  /\ calls = 0 /\ seen = FirstIdx /\ taken = {} /\ irq = FALSE

-----------------------------------------------------------------------------
(* The driver. *)

(* alloc_desc() hands out the lowest free descriptor; alloc3_desc() wants  *)
(* three and gives back what it got when there are fewer.                  *)
FreeDescs == {i \in Desc : free[i]}
Lowest(S) == CHOOSE i \in S : \A j \in S : i <= j
\* bug: alloc_desc() does not mark the second descriptor as taken
alloc3_descTwice ==
  LET d1 == Lowest(FreeDescs)
      d2 == Lowest(FreeDescs \ {d1})
  IN  <<d1, d2, d2>>
alloc3_desc ==
  LET d1 == Lowest(FreeDescs)
      d2 == Lowest(FreeDescs \ {d1})
      d3 == Lowest(FreeDescs \ {d1, d2})
  IN  <<d1, d2, d3>>

\* bug: free_desc() wakes nobody
WakeNobody(c) == c
(* free_desc() wakes every sleeper on &disk.free[0]. *)
WakeAllocators(c) ==
  [b \in vBuf |-> IF c[b].at = "asleep" THEN [c[b] EXCEPT !.at = "want"] ELSE c[b]]

(* A process that has locked b calls virtio_disk_rw(); to write, it has    *)
(* filled b with contents of its own, named by the number of the call.  No *)
(* other buffer has the same block (bio.c).  Of the idle buffers the first *)
(* stands for any, and of the blocks still as they were at boot, too.      *)
Named(k) == \E c \in vBuf : call[c] # Idle /\ call[c].block = k
AsAtBoot(k) == ~Named(k) /\ OnDisk(k * SPB) = AllOf(0)
Enter(b, w, k) ==
  /\ call[b] = Idle
  /\ \A c \in vBuf : c < b => call[c] # Idle
  /\ ~Named(k)
  /\ AsAtBoot(k) => \A j \in vBlock : j < k => ~AsAtBoot(j)
  /\ calls < MaxCalls /\ calls' = calls + 1
  /\ bdata' = [bdata EXCEPT ![b] = IF w THEN AllOf(calls') ELSE @]
  /\ call' = [call EXCEPT ![b] = [at |-> "want", write |-> w, block |-> k, head |-> 0]]
  /\ UNCHANGED <<platter, bdisk, desc, free, info, ops, avail, used_idx,
                 used, handler, seen, taken, irq>>

(* Fewer than three free: the ones taken go back, each with a wakeup of    *)
(* the others, and the caller goes to sleep.                               *)
AllocFails(b) ==
  /\ call[b].at = "want" /\ ~handler
  /\ Cardinality(FreeDescs) < 3
  /\ call' = [(IF FreeDescs # {} THEN WakeAllocators(call) ELSE call)
              EXCEPT ![b].at = "asleep"]
  /\ UNCHANGED <<calls, platter, bdata, bdisk, desc, free, info, ops, avail, used_idx,
                 used, handler, seen, taken, irq>>

\* bug: the number of the block is taken for that of its first sector
FormatBlock(b, c, d1, d2, d3) ==
  /\ ops' = [ops EXCEPT ![d1] = [write |-> c.write, sector |-> c.block]]
  /\ desc' = [desc EXCEPT
       ![d1] = [addr |-> <<"op", d1>>, more |-> TRUE, next |-> d2],
       ![d2] = [addr |-> <<"data", b>>, more |-> TRUE, next |-> d3],
       ![d3] = [addr |-> <<"status", d1>>, more |-> FALSE, next |-> 0]]
  /\ info' = [info EXCEPT ![d1] = [b |-> b, status |-> 255]]
(* Format the chain, record the buffer and publish the chain's head. *)
Format(b, c, d1, d2, d3) ==
  /\ ops' = [ops EXCEPT ![d1] = [write |-> c.write, sector |-> c.block * SPB]]
  /\ desc' = [desc EXCEPT
       ![d1] = [addr |-> <<"op", d1>>, more |-> TRUE, next |-> d2],
       ![d2] = [addr |-> <<"data", b>>, more |-> TRUE, next |-> d3],
       ![d3] = [addr |-> <<"status", d1>>, more |-> FALSE, next |-> 0]]
  /\ info' = [info EXCEPT ![d1] = [b |-> b, status |-> 255]]

Publish(b) ==
  /\ call[b].at = "want" /\ ~handler
  /\ Cardinality(FreeDescs) >= 3
  /\ LET d == alloc3_desc
     IN  /\ free' = [i \in Desc |-> free[i] /\ i \notin {d[1], d[2], d[3]}]
         /\ Format(b, call[b], d[1], d[2], d[3])
         /\ bdisk' = [bdisk EXCEPT ![b] = TRUE]
         /\ avail' = [ring |-> [avail.ring EXCEPT ![avail.idx % NUM] = d[1]],
                      idx |-> Succ(avail.idx)]
         /\ call' = [call EXCEPT ![b].at = "waiting", ![b].head = d[1]]
  /\ UNCHANGED <<calls, platter, bdata, used_idx, used, handler, seen, taken, irq>>

(* free_chain() follows the next fields of the chain that starts at i. *)
Chain(i) ==
  LET n == desc[i].next
      m == desc[n].next
  IN  IF ~desc[i].more THEN {i} ELSE IF ~desc[n].more THEN {i, n} ELSE {i, n, m}

\* bug: b->disk is not looked at again after the sleep
CompleteUnasked(b) ==
  /\ call[b].at = "ready" /\ ~handler
  /\ LET gone == Chain(call[b].head)
     IN  /\ info' = [info EXCEPT ![call[b].head].b = NoBuf]
         /\ desc' = [i \in Desc |-> IF i \in gone THEN NoDesc ELSE desc[i]]
         /\ free' = [i \in Desc |-> free[i] \/ i \in gone]
         /\ call' = [WakeAllocators(call) EXCEPT ![b] = Idle]
  /\ UNCHANGED <<calls, platter, bdata, bdisk, ops, avail, used_idx, used, handler,
                 seen, taken, irq>>
(* Woken, the caller looks at b->disk again; 0 ends the call. *)
Complete(b) ==
  /\ call[b].at = "ready" /\ ~handler
  /\ ~bdisk[b]
  /\ LET gone == Chain(call[b].head)
     IN  /\ info' = [info EXCEPT ![call[b].head].b = NoBuf]
         /\ desc' = [i \in Desc |-> IF i \in gone THEN NoDesc ELSE desc[i]]
         /\ free' = [i \in Desc |-> free[i] \/ i \in gone]
         /\ call' = [WakeAllocators(call) EXCEPT ![b] = Idle]
  /\ UNCHANGED <<calls, platter, bdata, bdisk, ops, avail, used_idx, used, handler,
                 seen, taken, irq>>

SleepAgain(b) ==
  /\ call[b].at = "ready" /\ ~handler
  /\ bdisk[b]
  /\ call' = [call EXCEPT ![b].at = "waiting"]
  /\ UNCHANGED <<calls, platter, bdata, bdisk, desc, free, info, ops, avail, used_idx,
                 used, handler, seen, taken, irq>>

(* kill() makes a sleeping process runnable whatever it sleeps on. *)
Kill(b) ==
  /\ call[b].at \in {"asleep", "waiting"}
  /\ call' = [call EXCEPT ![b].at = IF @ = "asleep" THEN "want" ELSE "ready"]
  /\ UNCHANGED <<calls, platter, bdata, bdisk, desc, free, info, ops, avail, used_idx,
                 used, handler, seen, taken, irq>>

(* virtio_disk_intr(): acknowledge, then one step per used entry. *)
IntrAck ==
  /\ irq /\ ~handler
  /\ irq' = FALSE /\ handler' = TRUE
  /\ UNCHANGED <<calls, platter, bdata, driverVars, used, seen, taken>>

WakeCaller(c, x) ==
  [b \in vBuf |-> IF b = x /\ c[b].at = "waiting"
                  THEN [c[b] EXCEPT !.at = "ready"] ELSE c[b]]

IntrEntry ==
  /\ handler /\ used_idx # used.idx
  /\ LET id == used.ring[used_idx % NUM]
     IN  /\ bdisk' = [b \in vBuf |-> bdisk[b] /\ b # info[id].b]
         /\ call' = WakeCaller(call, info[id].b)
  /\ used_idx' = Succ(used_idx)
  /\ UNCHANGED <<calls, platter, bdata, desc, free, info, ops, avail, used,
                 handler, seen, taken, irq>>

\* bug: the handler takes one entry, not all
IntrDoneAtOnce ==
  /\ handler /\ handler' = FALSE
  /\ UNCHANGED <<calls, platter, bdata, driverVars, used, seen, taken, irq>>
IntrDone ==
  /\ handler /\ used_idx = used.idx
  /\ handler' = FALSE
  /\ UNCHANGED <<calls, platter, bdata, driverVars, used, seen, taken, irq>>

-----------------------------------------------------------------------------
(* The device: it takes published heads in order, works on several at once *)
(* and finishes them in any order.                                         *)
DeviceTake ==
  /\ seen # avail.idx
  /\ taken' = taken \cup {avail.ring[seen % NUM]}
  /\ seen' = Succ(seen)
  /\ UNCHANGED <<calls, platter, bdata, driverVars, used, handler, irq>>

DeviceFinish(h) ==
  /\ h \in taken
  /\ LET d2 == desc[h].next
         op == ops[desc[h].addr[2]]
         b  == desc[d2].addr[2]
         st == desc[desc[d2].next].addr[2]
     IN  /\ IF op.write
            THEN /\ platter' = [s \in Sectors |->
                      IF s - op.sector \in InBlock THEN bdata[b][s - op.sector] ELSE platter[s]]
                 /\ UNCHANGED bdata
            ELSE /\ bdata' = [bdata EXCEPT ![b] = OnDisk(op.sector)]
                 /\ UNCHANGED platter
         /\ info' = [info EXCEPT ![st].status = 0]
  /\ used' = [ring |-> [used.ring EXCEPT ![used.idx % NUM] = h],
              idx |-> Succ(used.idx)]
  /\ taken' = taken \ {h}
  /\ irq' = TRUE
  /\ UNCHANGED <<calls, bdisk, call, desc, free, ops, avail, used_idx, handler, seen>>

DriverStep(b) == AllocFails(b) \/ Publish(b) \/ Complete(b) \/ SleepAgain(b)
Handler == IntrAck \/ IntrEntry \/ IntrDone

(* No calls left to make and none in progress. *)
VirtioQuiet ==
  /\ calls = MaxCalls /\ ~handler /\ ~irq
  /\ \A b \in vBuf : call[b] = Idle
  /\ UNCHANGED virtioVars

VirtioNext ==
  \/ \E b \in vBuf :
       \/ \E w \in Kinds, k \in vBlock : Enter(b, w, k)
       \/ DriverStep(b)
       \/ Kill(b)
  \/ Handler
  \/ DeviceTake
  \/ \E h \in Desc : DeviceFinish(h)
  \/ VirtioQuiet

(* The scheduler runs a process that is runnable; the device answers what  *)
(* it was given and an interrupt it raised is eventually taken.  Nothing   *)
(* says which of two processes gets descriptors first.                     *)
VirtioFairness ==
  /\ \A b \in vBuf : WF_virtioVars(DriverStep(b))
  /\ WF_virtioVars(Handler)
  /\ WF_virtioVars(DeviceTake)
  /\ WF_virtioVars(\E h \in Desc : DeviceFinish(h))

VirtioSpec == VirtioInit /\ [][VirtioNext]_virtioVars /\ VirtioFairness
-----------------------------------------------------------------------------
Published(b) == call[b].at \in {"waiting", "ready"}

(* Every descriptor is free or in the three-descriptor chain of exactly    *)
(* one call, and the bookkeeping of that chain's head names the call's     *)
(* buffer: free_desc()'s panics and a completion credited to the wrong     *)
(* buffer are impossible (virtio_disk.c:156-213, 319).                     *)
ChainsOwned ==
  /\ \A b \in vBuf : Published(b) =>
       /\ Cardinality(Chain(call[b].head)) = 3
       /\ info[call[b].head].b = b
       /\ \A c \in vBuf \ {b} :
            Published(c) => Chain(call[b].head) \cap Chain(call[c].head) = {}
  /\ {i \in Desc : ~free[i]} =
       UNION {Chain(call[b].head) : b \in {x \in vBuf : Published(x)}}

(* What virtio_disk_intr() finds at used_idx is a finished request of a    *)
(* caller still waiting for it, however the 16-bit indices have wrapped    *)
(* and however many entries the device added since (virtio_disk.c:312).    *)
UsedEntriesAreLive ==
  used_idx # used.idx =>
    LET e == info[used.ring[used_idx % NUM]]
    IN  e.status = 0 /\ e.b # NoBuf /\ bdisk[e.b] /\ Published(e.b)

(* A caller sleeps on &disk.free[0] only while three descriptors are not   *)
(* to be had: the wakeups of free_desc() lose nobody (virtio_disk.c:232).  *)
NoLostDescriptorWakeup ==
  \A b \in vBuf : call[b].at = "asleep" => Cardinality(FreeDescs) < 3

(* The driver and the device implement the disk callers rely on: one       *)
(* transfer per call, of the buffer and block named, before it returns.    *)
DIO == INSTANCE DiskIO WITH
  Buf <- vBuf, Block <- vBlock, Data <- {AllOf(v) : v \in 0 .. MaxCalls}, Zero <- AllOf(0),
  NoRequest <- vNoRequest, sector <- [k \in vBlock |-> OnDisk(k * SPB)], data <- bdata,
  request <- [b \in vBuf |->
    IF call[b] = Idle THEN vNoRequest
    ELSE [write |-> call[b].write, block |-> call[b].block,
          done |-> Published(b) /\ info[call[b].head].status = 0]]
ImplementsDiskIO ==
  DIO!DiskInit /\ [][UNCHANGED DIO!diskVars \/ DIO!DiskNext]_DIO!diskVars

(* A call of virtio_disk_rw() returns: the handler misses no completion    *)
(* although the device adds entries while it runs, and a caller that found *)
(* no descriptors gets them, at the latest when no new callers overtake it *)
(* any more (virtio_disk.c:228-233, 284-324).                              *)
RequestReturns == \A b \in vBuf : call[b] # Idle ~> call[b] = Idle
=============================================================================
