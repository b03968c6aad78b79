------------------------------- MODULE BCache -------------------------------
(***************************************************************************)
(* The buffer cache (kernel/bio.c) with the sleep-locks of its buffers     *)
(* (kernel/sleeplock.c), over the disk of module DiskIO.  A critical       *)
(* section of bcache.lock, or of a sleep-lock's spinlock, is one action.   *)
(* The users follow the interface of bio.c:8-14: after changing a buffer a *)
(* process calls bwrite(), or bpin() as log_write() does, before brelse(). *)
(* A process that writes may hold a second buffer with the first: the home *)
(* block under a log block in install_trans() and write_log(), a bitmap or *)
(* data block under an indirect block in bmap() and itrunc().              *)
(***************************************************************************)
EXTENDS DiskIO, Integers, Sequences, FiniteSets

CONSTANTS Proc,         \* the processes
          Nested,       \* those that write; the others hold one buffer at a time
          Under,        \* pairs of blocks, the second of which is read under the first
          MaxPins,      \* bound on pinLimit
          Nobody, NoBlock

\* The struct buf pointers of the processes: a first one, and perhaps a second.
User == (Proc \X {1}) \cup (Nested \X {2})

ASSUME UserAssumption == IsFiniteSet(Proc) /\ Nested \subseteq Proc /\ Nobody \notin User
ASSUME BufAssumption == IsFiniteSet(Buf) /\ Nobody \notin Buf
ASSUME BlockAssumption == NoBlock \notin Block
ASSUME PinAssumption == MaxPins \in Nat \ {0}

VARIABLES blockno, valid, refcnt,       \* fields of struct buf
          holder,                       \* b->lock: its holder, or Nobody
          lru,                          \* head.next ... head.prev
          pinned,                       \* blocks with a bpin() not yet undone
          at,                           \* User -> [pc, b]
          pinLimit,                     \* blocks the log may keep pinned (LOGSIZE)
          nobufs                        \* bget() has panicked
bcacheVars == <<blockno, valid, refcnt, holder, lru, pinned, at, pinLimit, nobufs, diskVars>>

Away == [pc |-> "away", b |-> Nobody]
BufSeqs == {s \in [1 .. Cardinality(Buf) -> Buf] : \A b \in Buf : \E i \in DOMAIN s : s[i] = b}

(* binit() links the buffers in some order; they hold no block. *)
BCacheInit ==
  /\ blockno = [b \in Buf |-> NoBlock]
  /\ valid = [b \in Buf |-> FALSE]
  /\ refcnt = [b \in Buf |-> 0]
  /\ holder = [b \in Buf |-> Nobody]
  /\ lru \in BufSeqs
  /\ pinned = {}
  /\ at = [p \in User |-> Away]
  /\ pinLimit \in 0 .. MaxPins
  /\ nobufs = FALSE
  /\ DiskInit

-----------------------------------------------------------------------------
Go(p, pc) == at' = [at EXCEPT ![p].pc = pc]

\* The process is not inside a call of bread(), bwrite() or brelse() for its other
\* pointer.
AtRest == {"away", "have", "dirty", "written"}
Turn(p) == \A q \in User : q[1] = p[1] /\ q # p => at[q].pc \in AtRest

\* bread(k) for the second pointer while the first has a block that k is read
\* under; for the first only when the second is not in use.
MayRead(p, k) ==
  /\ Turn(p)
  /\ \A q \in User : q[1] = p[1] /\ q # p =>
       IF p[2] = 1 THEN at[q].pc = "away"
       ELSE at[q].pc # "away" /\ <<blockno[at[q].b], k>> \in Under

(* bget(), first loop: the block is cached. *)
BgetHit(p, k) ==
  /\ at[p].pc = "away" /\ MayRead(p, k) /\ ~nobufs
  /\ \E b \in Buf :
       /\ blockno[b] = k
       /\ refcnt' = [refcnt EXCEPT ![b] = @ + 1]
       /\ at' = [at EXCEPT ![p] = [pc |-> "lock", b |-> b]]
  /\ UNCHANGED <<blockno, valid, holder, lru, pinned, pinLimit, nobufs, diskVars>>

(* Second loop: from head.prev, the first buffer nobody refers to. *)
Unused == {i \in DOMAIN lru : refcnt[lru[i]] = 0}
Victim == {lru[i] : i \in {j \in Unused : \A x \in Unused : x <= j}}

\* bug: the second loop runs although the block has been cached meanwhile
BgetRecycleLate(p, k) ==
  /\ at[p].pc = "away" /\ MayRead(p, k) /\ ~nobufs
  /\ \E b \in Victim :
       /\ blockno' = [blockno EXCEPT ![b] = k]
       /\ valid' = [valid EXCEPT ![b] = FALSE]
       /\ refcnt' = [refcnt EXCEPT ![b] = 1]
       /\ at' = [at EXCEPT ![p] = [pc |-> "lock", b |-> b]]
  /\ UNCHANGED <<holder, lru, pinned, pinLimit, nobufs, diskVars>>
\* bug: a recycled buffer stays valid
BgetRecycleValid(p, k) ==
  /\ at[p].pc = "away" /\ MayRead(p, k) /\ ~nobufs
  /\ \A b \in Buf : blockno[b] # k
  /\ \E b \in Victim :
       /\ blockno' = [blockno EXCEPT ![b] = k]
       /\ refcnt' = [refcnt EXCEPT ![b] = 1]
       /\ at' = [at EXCEPT ![p] = [pc |-> "lock", b |-> b]]
  /\ UNCHANGED <<valid, holder, lru, pinned, pinLimit, nobufs, diskVars>>
BgetRecycle(p, k) ==
  /\ at[p].pc = "away" /\ MayRead(p, k) /\ ~nobufs
  /\ \A b \in Buf : blockno[b] # k
  /\ \E b \in Victim :
       /\ blockno' = [blockno EXCEPT ![b] = k]
       /\ valid' = [valid EXCEPT ![b] = FALSE]
       /\ refcnt' = [refcnt EXCEPT ![b] = 1]
       /\ at' = [at EXCEPT ![p] = [pc |-> "lock", b |-> b]]
  /\ UNCHANGED <<holder, lru, pinned, pinLimit, nobufs, diskVars>>

BgetPanic(p, k) ==
  /\ at[p].pc = "away" /\ MayRead(p, k) /\ ~nobufs
  /\ \A b \in Buf : blockno[b] # k
  /\ Unused = {}
  /\ nobufs' = TRUE
  /\ UNCHANGED <<blockno, valid, refcnt, holder, lru, pinned, at, pinLimit, diskVars>>

(* panic() never returns. *)
PanicLoop == nobufs /\ UNCHANGED bcacheVars

(* acquiresleep(): take the lock, or sleep until it is released. *)
AcquireSleep(p) ==
  /\ at[p].pc = "lock"
  /\ LET b == at[p].b
     IN  IF holder[b] # Nobody
         THEN Go(p, "asleep") /\ UNCHANGED holder
         ELSE Go(p, "locked") /\ holder' = [holder EXCEPT ![b] = p]
  /\ UNCHANGED <<blockno, valid, refcnt, lru, pinned, pinLimit, nobufs, diskVars>>

(* bread(): read the block unless the buffer already has it. *)
BreadCached(p) ==
  /\ at[p].pc = "locked" /\ valid[at[p].b]
  /\ Go(p, "have")
  /\ UNCHANGED <<blockno, valid, refcnt, holder, lru, pinned, pinLimit, nobufs, diskVars>>

BreadStart(p) ==
  /\ at[p].pc = "locked" /\ ~valid[at[p].b]
  /\ Submit(at[p].b, FALSE, blockno[at[p].b], data[at[p].b])
  /\ Go(p, "reading")
  /\ UNCHANGED <<blockno, valid, refcnt, holder, lru, pinned, pinLimit, nobufs>>

BreadDone(p) ==
  /\ at[p].pc = "reading"
  /\ Return(at[p].b)
  /\ valid' = [valid EXCEPT ![at[p].b] = TRUE]
  /\ Go(p, "have")
  /\ UNCHANGED <<blockno, refcnt, holder, lru, pinned, pinLimit, nobufs>>

(* The user changes b->data; now the buffer differs from the disk. *)
Write(p, v) ==
  /\ at[p].pc \in {"have", "dirty"} /\ Turn(p)
  /\ Store(at[p].b, v)
  /\ Go(p, "dirty")
  /\ UNCHANGED <<blockno, valid, refcnt, holder, lru, pinned, pinLimit, nobufs>>

BwriteStart(p) ==
  /\ at[p].pc \in {"have", "dirty"} /\ Turn(p)
  /\ holder[at[p].b] = p
  /\ Submit(at[p].b, TRUE, blockno[at[p].b], data[at[p].b])
  /\ Go(p, "writing")
  /\ UNCHANGED <<blockno, valid, refcnt, holder, lru, pinned, pinLimit, nobufs>>

BwriteDone(p) ==
  /\ at[p].pc = "writing"
  /\ Return(at[p].b)
  /\ Go(p, IF blockno[at[p].b] \in pinned THEN "written" ELSE "have")
  /\ UNCHANGED <<blockno, valid, refcnt, holder, lru, pinned, pinLimit, nobufs>>

\* bug: log_write() pins a block that it has absorbed again
BpinAgain(p) ==
  /\ at[p].pc = "dirty" /\ Turn(p)
  /\ blockno[at[p].b] \in pinned \/ Cardinality(pinned) < pinLimit
  /\ pinned' = pinned \cup {blockno[at[p].b]}
  /\ refcnt' = [refcnt EXCEPT ![at[p].b] = @ + 1]
  /\ Go(p, "have")
  /\ UNCHANGED <<blockno, valid, holder, lru, pinLimit, nobufs, diskVars>>
(* log_write() pins a block once per transaction; install_trans() unpins   *)
(* it when it has been written home.                                       *)
Bpin(p) ==
  /\ at[p].pc = "dirty" /\ Turn(p)
  /\ LET k == blockno[at[p].b]
     IN  IF k \in pinned
         THEN UNCHANGED <<pinned, refcnt>>
         ELSE /\ Cardinality(pinned) < pinLimit
              /\ pinned' = pinned \cup {k}
              /\ refcnt' = [refcnt EXCEPT ![at[p].b] = @ + 1]
  /\ Go(p, "have")
  /\ UNCHANGED <<blockno, valid, holder, lru, pinLimit, nobufs, diskVars>>

Bunpin(p) ==
  /\ at[p].pc = "written" /\ Turn(p)
  /\ pinned' = pinned \ {blockno[at[p].b]}
  /\ refcnt' = [refcnt EXCEPT ![at[p].b] = @ - 1]
  /\ Go(p, "have")
  /\ UNCHANGED <<blockno, valid, holder, lru, pinLimit, nobufs, diskVars>>

\* bug: no wakeup()
WakeNone(b) == at
(* brelse(): releasesleep() wakes the sleepers; then, under bcache.lock,   *)
(* the reference goes, and a buffer nobody wants moves to the list's head. *)
Wake(b) == [q \in User |-> IF at[q] = [pc |-> "asleep", b |-> b]
                           THEN [pc |-> "lock", b |-> b] ELSE at[q]]

ReleaseSleep(p) ==
  /\ at[p].pc = "have" /\ Turn(p)
  /\ holder[at[p].b] = p
  /\ holder' = [holder EXCEPT ![at[p].b] = Nobody]
  /\ at' = [Wake(at[p].b) EXCEPT ![p].pc = "put"]
  /\ UNCHANGED <<blockno, valid, refcnt, lru, pinned, pinLimit, nobufs, diskVars>>

\* Those in front of b move back by one.
ToFront(b) ==
  [i \in DOMAIN lru |-> IF i = 1 THEN b
                        ELSE IF \E j \in DOMAIN lru : j < i /\ lru[j] = b THEN lru[i] ELSE lru[i - 1]]

\* bug: the reference is kept
BrelseKeeps(p) ==
  /\ at[p].pc = "put"
  /\ at' = [at EXCEPT ![p] = Away]
  /\ UNCHANGED <<blockno, valid, refcnt, holder, lru, pinned, pinLimit, nobufs, diskVars>>
Brelse(p) ==
  /\ at[p].pc = "put"
  /\ LET b == at[p].b
     IN  /\ refcnt' = [refcnt EXCEPT ![b] = @ - 1]
         /\ lru' = IF refcnt[b] = 1 THEN ToFront(b) ELSE lru
  /\ at' = [at EXCEPT ![p] = Away]
  /\ UNCHANGED <<blockno, valid, holder, pinned, pinLimit, nobufs, diskVars>>

DiskStep(b) ==
  /\ Transfer(b)
  /\ UNCHANGED <<blockno, valid, refcnt, holder, lru, pinned, at, pinLimit, nobufs>>

BCacheNext ==
  \/ \E p \in User :
       \/ \E k \in Block : BgetHit(p, k) \/ BgetRecycle(p, k) \/ BgetPanic(p, k)
       \/ AcquireSleep(p)
       \/ BreadCached(p) \/ BreadStart(p) \/ BreadDone(p)
       \/ \E v \in Data : Write(p, v)
       \/ BwriteStart(p) \/ BwriteDone(p) \/ Bpin(p) \/ Bunpin(p)
       \/ ReleaseSleep(p) \/ Brelse(p)
  \/ \E b \in Buf : DiskStep(b)
  \/ PanicLoop

BCacheSpec == BCacheInit /\ [][BCacheNext]_bcacheVars
-----------------------------------------------------------------------------
(* No block is in two buffers, so the buffer's lock is the block's lock    *)
(* (bget() looks and recycles in one critical section, bio.c:63-87).       *)
OneBufferPerBlock ==
  \A b, c \in Buf : blockno[b] = blockno[c] /\ blockno[b] # NoBlock => b = c

(* refcnt counts the processes that hold, wait for or are giving back the  *)
(* buffer, and its pin: a buffer is recycled only when no one needs it.    *)
RefcntCounts ==
  \A b \in Buf :
    refcnt[b] = Cardinality({p \in User : at[p].b = b})
                + (IF blockno[b] \in pinned THEN 1 ELSE 0)

(* bget() finds a buffer as long as there is one for each process that     *)
(* reads, two for each that writes, and one for each block the log may     *)
(* keep pinned (bio.c:88).                                                 *)
NeverOutOfBuffers ==
  Cardinality(User) + pinLimit <= Cardinality(Buf) => ~nobufs

(* releasesleep() leaves nobody asleep on a free lock (sleeplock.c:25,39). *)
SleepersHaveHolder ==
  \A p \in User : at[p].pc = "asleep" => holder[at[p].b] # Nobody

(* What bio.c's callers rely on, at once: one buffer per block, exact      *)
(* counts, a buffer for everybody, and no sleeper on a free lock.          *)
CacheSound == OneBufferPerBlock /\ RefcntCounts /\ NeverOutOfBuffers /\ SleepersHaveHolder

(* The cache implements the block store: a process sees the last contents  *)
(* any process gave the block, through any evictions, and has it alone.    *)
Cached(k) == \E b \in Buf : blockno[b] = k /\ valid[b]
Using(k) == {p \in User : /\ at[p].pc \in {"have", "dirty", "writing", "written"}
                          /\ blockno[at[p].b] = k}
Blocks == INSTANCE BlockStore WITH
  contents <- [k \in Block |->
                 IF Cached(k) THEN data[CHOOSE b \in Buf : blockno[b] = k /\ valid[b]]
                 ELSE sector[k]],
  user <- [k \in Block |->
             IF Using(k) = {} THEN Nobody ELSE CHOOSE p \in Using(k) : TRUE]
ImplementsBlockStore ==
  Blocks!StoreInit /\ [][UNCHANGED Blocks!storeVars \/ Blocks!StoreNext]_Blocks!storeVars
=============================================================================
