-------------------------------- MODULE Log ---------------------------------
(***************************************************************************)
(* The file system log: kernel/log.c.  Processes bracket their file system *)
(* calls with begin_op and end_op and write blocks with log_write; the     *)
(* last end_op commits.  The machine may crash between any two disk writes, *)
(* and recovers at the next start.                                         *)
(*                                                                         *)
(* A block of the disk is written at once (virtio_disk_rw).  The buffer    *)
(* cache is seen as one value per block; a buffer nobody holds or pins may *)
(* be recycled, and is then read from the disk again (kernel/bio.c).       *)
(***************************************************************************)
EXTENDS Integers, Sequences, FiniteSets, FiniteSetsExt

CONSTANTS Proc, Block, Value,
          Blank,         \* a block as mkfs leaves it
          MAXOPBLOCKS,   \* blocks one call writes at most
          LOGSIZE,       \* MAXOPBLOCKS * 3 in param.h
          NLOG           \* blocks of the log on disk, its header included

ASSUME LogBounds == /\ IsFiniteSet(Proc) /\ Blank \in Value
                    /\ MAXOPBLOCKS \in Nat \ {0} /\ LOGSIZE \in Nat /\ MAXOPBLOCKS <= LOGSIZE
                    /\ NLOG \in Nat \ {0}

VARIABLES home, logd, head,   \* the disk: blocks, log blocks, log header
          cache, pinned,      \* the buffer cache
          lh, outstanding, committing,   \* struct log
          at,                 \* where each process is
          wrote,              \* the blocks its current call has written
          phase, tail         \* where commit or recovery is

disk == <<home, logd, head>>
vars == <<disk, cache, pinned, lh, outstanding, committing, at, wrote, phase, tail>>

TypeOK ==
  /\ home \in [Block -> Value]
  /\ logd \in [1 .. LOGSIZE -> Value]
  /\ head \in Seq(Block) /\ Len(head) <= LOGSIZE
  /\ cache \in [Block -> Value] /\ pinned \subseteq Block
  /\ lh \in Seq(Block) /\ Len(lh) <= LOGSIZE
  /\ outstanding \in 0 .. Cardinality(Proc)
  /\ committing \in BOOLEAN
  /\ at \in [Proc -> {"out", "asleep", "in", "commit", "panic"}]
  /\ wrote \in [Proc -> SUBSET Block]
  /\ phase \in {"none", "write_log", "write_head", "install", "clear", "done",
                "read_head", "recover", "recovered"}
  /\ tail \in 1 .. LOGSIZE + 1

Init ==
  /\ home = [b \in Block |-> Blank] /\ logd = [i \in 1 .. LOGSIZE |-> Blank] /\ head = <<>>
  /\ cache = home /\ pinned = {}
  /\ lh = <<>> /\ outstanding = 0 /\ committing = FALSE
  /\ at = [p \in Proc |-> "out"] /\ wrote = [p \in Proc |-> {}]
  /\ phase = "none" /\ tail = 1

-----------------------------------------------------------------------------
(* File system calls.  A thread that panics keeps log.lock.                *)

Unlocked == \A p \in Proc : at[p] # "panic"

Running == phase \notin {"read_head", "recover", "recovered"}

\* bug: nobody is woken
WokenNot(ats) == ats
\* wakeup(&log)
Woken(ats) == [p \in Proc |-> IF ats[p] = "asleep" THEN "out" ELSE ats[p]]

\* bug: the calls already admitted are not counted
FitsAlone == Len(lh) + MAXOPBLOCKS <= LOGSIZE
\* Room for what the admitted calls and one more may write.
Fits == Len(lh) + (outstanding + 1) * MAXOPBLOCKS <= LOGSIZE

Admits == ~committing /\ Fits

begin_op(p) ==
  /\ Running /\ Unlocked /\ at[p] = "out"
  /\ \/ /\ Admits
        /\ outstanding' = outstanding + 1
        /\ at' = [at EXCEPT ![p] = "in"]
     \/ /\ ~Admits
        /\ at' = [at EXCEPT ![p] = "asleep"]
        /\ UNCHANGED outstanding
  /\ UNCHANGED <<disk, cache, pinned, lh, committing, wrote, phase, tail>>

\* bug: a new block is not pinned in the cache
LoggedUnpinned(b) == lh' = Append(lh, b) /\ UNCHANGED pinned
LoggedNew(b) == lh' = Append(lh, b) /\ pinned' = pinned \cup {b}

TooBig == Len(lh) >= LOGSIZE \/ Len(lh) >= NLOG - 1

InLog(b) == \E i \in DOMAIN lh : lh[i] = b

\* The caller changes the buffer and calls log_write.  A call keeps to its
\* MAXOPBLOCKS blocks.  Nobody sees the buffer of a call that panics: it stays
\* locked.
log_write(p, b, v) ==
  /\ Unlocked /\ at[p] = "in"
  /\ Cardinality(wrote[p] \cup {b}) <= MAXOPBLOCKS
  /\ \/ /\ TooBig
        /\ at' = [at EXCEPT ![p] = "panic"]
        /\ UNCHANGED <<cache, lh, pinned, wrote>>
     \/ /\ ~TooBig
        /\ cache' = [cache EXCEPT ![b] = v]
        /\ wrote' = [wrote EXCEPT ![p] = @ \cup {b}]
        /\ IF InLog(b) THEN UNCHANGED <<lh, pinned>> ELSE LoggedNew(b)
        /\ UNCHANGED at
  /\ UNCHANGED <<disk, outstanding, committing, phase, tail>>

Last == outstanding = 1

Ended == outstanding - 1

end_op(p) ==
  /\ Unlocked /\ at[p] = "in"
  /\ outstanding' = Ended
  /\ wrote' = [wrote EXCEPT ![p] = {}]
  /\ \/ /\ committing
        /\ at' = [at EXCEPT ![p] = "panic"]
        /\ UNCHANGED <<committing, phase>>
     \/ /\ ~committing /\ Last
        /\ committing' = TRUE
        /\ at' = [at EXCEPT ![p] = "commit"]
        /\ phase' = IF lh # <<>> THEN "write_log" ELSE "done"
     \/ /\ ~committing /\ ~Last
        /\ at' = Woken([at EXCEPT ![p] = "out"])
        /\ UNCHANGED <<committing, phase>>
  /\ tail' = 1
  /\ UNCHANGED <<disk, cache, pinned, lh>>

-----------------------------------------------------------------------------
(* commit, by the process at "commit"                                      *)

\* One iteration of write_log.
WriteLogBlock ==
  /\ phase = "write_log"
  /\ IF tail <= Len(lh)
       THEN logd' = [logd EXCEPT ![tail] = cache[lh[tail]]] /\ tail' = tail + 1 /\ UNCHANGED phase
       ELSE phase' = "write_head" /\ tail' = 1 /\ UNCHANGED logd
  /\ UNCHANGED <<home, head, cache, pinned, lh, outstanding, committing, at, wrote>>

\* write_head: the commit.
WriteHead ==
  /\ phase = "write_head"
  /\ head' = lh
  /\ phase' = "install"
  /\ UNCHANGED <<home, logd, cache, pinned, lh, outstanding, committing, at, wrote, tail>>

\* What install_trans does to the disk in one iteration.
Installed == [home EXCEPT ![lh[tail]] = logd[tail]]

Install ==
  /\ phase = "install"
  /\ IF tail <= Len(lh)
       THEN /\ home' = Installed
            /\ cache' = [cache EXCEPT ![lh[tail]] = logd[tail]]
            /\ pinned' = pinned \ {lh[tail]}
            /\ tail' = tail + 1 /\ UNCHANGED phase
       ELSE phase' = "clear" /\ UNCHANGED <<home, cache, pinned, tail>>
  /\ UNCHANGED <<logd, head, lh, outstanding, committing, at, wrote>>

\* log.lh.n = 0; write_head()
Clear ==
  /\ phase = "clear"
  /\ lh' = <<>> /\ head' = <<>>
  /\ phase' = "done"
  /\ UNCHANGED <<home, logd, cache, pinned, outstanding, committing, at, wrote, tail>>

\* The rest of end_op.
Committed ==
  /\ phase = "done" /\ Unlocked
  /\ committing' = FALSE
  /\ at' = Woken([p \in Proc |-> IF at[p] = "commit" THEN "out" ELSE at[p]])
  /\ phase' = "none" /\ tail' = 1
  /\ UNCHANGED <<disk, cache, pinned, lh, outstanding, wrote>>

commit == WriteLogBlock \/ WriteHead \/ Install \/ Clear \/ Committed

\* bget() recycles a buffer; its block is read again.
Recycle(b) ==
  /\ Running /\ b \notin pinned
  /\ cache' = [cache EXCEPT ![b] = home[b]]
  /\ UNCHANGED <<disk, pinned, lh, outstanding, committing, at, wrote, phase, tail>>

-----------------------------------------------------------------------------
(* Crash and restart: initlog, recover_from_log                            *)

Crash ==
  /\ phase' = "read_head" /\ tail' = 1
  /\ cache' = home /\ pinned' = {}
  /\ lh' = <<>> /\ outstanding' = 0 /\ committing' = FALSE
  /\ at' = [p \in Proc |-> "out"] /\ wrote' = [p \in Proc |-> {}]
  /\ UNCHANGED disk

ReadHead == head

read_head ==
  /\ phase = "read_head"
  /\ lh' = ReadHead
  /\ phase' = "recover"
  /\ UNCHANGED <<disk, cache, pinned, outstanding, committing, at, wrote, tail>>

\* install_trans(1) at one block; after the last one the log is cleared.
Recover ==
  /\ phase = "recover"
  /\ IF tail <= Len(lh)
       THEN /\ home' = Installed
            /\ cache' = [cache EXCEPT ![lh[tail]] = logd[tail]]
            /\ tail' = tail + 1 /\ UNCHANGED <<phase, lh>>
       ELSE phase' = "recovered" /\ lh' = <<>> /\ tail' = 1 /\ UNCHANGED <<home, cache>>
  /\ UNCHANGED <<logd, head, pinned, outstanding, committing, at, wrote>>

Recovered ==
  /\ phase = "recovered"
  /\ head' = lh
  /\ phase' = "none"
  /\ UNCHANGED <<home, logd, cache, pinned, lh, outstanding, committing, at, wrote, tail>>

recover_from_log == read_head \/ Recover \/ Recovered

-----------------------------------------------------------------------------
Next ==
  \/ \E p \in Proc : begin_op(p) \/ end_op(p) \/ \E b \in Block, v \in Value : log_write(p, b, v)
  \/ commit
  \/ \E b \in Block : Recycle(b)
  \/ Crash \/ recover_from_log

Spec == Init /\ [][Next]_vars

\* A file system call ends, and commit and recovery go on.
Fairness ==
  /\ \A p \in Proc : WF_vars(end_op(p))
  /\ WF_vars(commit) /\ WF_vars(recover_from_log)

FairSpec == Spec /\ Fairness

-----------------------------------------------------------------------------
(* Properties.                                                             *)

\* The blocks as recovery would leave them.
Durable ==
  [b \in Block |-> IF \E i \in DOMAIN head : head[i] = b
                     THEN logd[CHOOSE i \in DOMAIN head : head[i] = b] ELSE home[b]]

A == INSTANCE AtomicDisk WITH
       mem <- IF Running THEN cache ELSE Durable,
       durable <- Durable,
       active <- {p \in Proc : at[p] \in {"in", "panic"}}

\* The writes of file system calls become durable all together and only while no
\* call is active; a crash at any moment, recovery included, leaves the blocks as
\* they were at the last commit, and no write is lost before a crash (log.c:10-16).
CrashAtomic == A!Safety

\* Whatever the admitted calls have still to write fits in the log's LOGSIZE
\* entries: begin_op's reservation is enough (log.c:133).
ReservationHolds ==
  Len(lh) + MapThenSumSet(LAMBDA p : MAXOPBLOCKS - Cardinality(wrote[p]),
                          {p \in Proc : at[p] = "in"}) <= LOGSIZE

\* A process asleep in begin_op has an end_op or a commit to wait for: the wakeups
\* of end_op leave nobody behind (log.c:131-135, 158-163, 172).
SomeoneWillWake == (\E p \in Proc : at[p] = "asleep") => outstanding > 0 \/ committing

\* end_op never finds a commit under way: no call is admitted during one
\* (log.c:153).
CommitsAlone == committing => outstanding = 0

\* A process asleep in begin_op is woken, as long as the kernel has not panicked
\* (log.c:162, 172).
SleeperWoken == \A p \in Proc : at[p] = "asleep" ~> (at[p] # "asleep" \/ ~Unlocked)

\* A call that writes at most MAXOPBLOCKS blocks never finds the log full: begin_op
\* waits when "this op might exhaust log space" (log.c:133-135, 220-221).
NeverTooBig == Unlocked
=============================================================================
