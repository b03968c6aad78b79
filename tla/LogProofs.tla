----------------------------- MODULE LogProofs ------------------------------
(***************************************************************************)
(* The last part of the proofs about module Log: it refines AtomicDisk.    *)
(***************************************************************************)
EXTENDS LogInvariants

\* Durable, with the disk as parameters, so that it can be spoken of before and
\* after a step.
AfterRecovery(hd, lg, hm) ==
  [b \in Block |-> IF \E i \in DOMAIN hd : hd[i] = b
                     THEN lg[CHOOSE i \in DOMAIN hd : hd[i] = b] ELSE hm[b]]

\* What recovery would leave of a block that the header names, and of another one.
LEMMA RecoveryAt ==
  ASSUME NEW hd \in Seq(Block), NEW lg, NEW hm, Distinct(hd)
  PROVE  /\ \A i \in 1 .. Len(hd) : AfterRecovery(hd, lg, hm)[hd[i]] = lg[i]
         /\ \A b \in Block : ~Holds(hd, b) => AfterRecovery(hd, lg, hm)[b] = hm[b]
<1>1. DOMAIN hd = 1 .. Len(hd) /\ \A i \in 1 .. Len(hd) : hd[i] \in Block
  OBVIOUS
<1>2. ASSUME NEW i \in 1 .. Len(hd) PROVE AfterRecovery(hd, lg, hm)[hd[i]] = lg[i]
  <2>1. PICK k \in DOMAIN hd : k = CHOOSE j \in DOMAIN hd : hd[j] = hd[i]
    BY <1>1
  <2>2. hd[k] = hd[i]
    BY <1>1, <2>1
  <2>3. k = i
    BY <1>1, <2>2 DEF Distinct
  <2> QED BY <1>1, <2>1, <2>3, Zenon DEF AfterRecovery
<1>3. ASSUME NEW b \in Block, ~Holds(hd, b) PROVE AfterRecovery(hd, lg, hm)[b] = hm[b]
  BY <1>1, <1>3 DEF AfterRecovery, Holds
<1> QED BY <1>2, <1>3

\* With an empty header recovery does nothing.
LEMMA RecoveryOfNothing ==
  ASSUME NEW lg, NEW hm \in [Block -> Value] PROVE AfterRecovery(<<>>, lg, hm) = hm
BY DEF AfterRecovery

\* Two disks with the same header and log, whose blocks off the header agree, are
\* the same after recovery.
LEMMA RecoverySame ==
  ASSUME NEW hd \in Seq(Block), Distinct(hd), NEW lg, NEW hm, NEW hn,
         \A b \in Block : Holds(hd, b) \/ hm[b] = hn[b]
  PROVE  AfterRecovery(hd, lg, hm) = AfterRecovery(hd, lg, hn)
<1>1. ASSUME NEW b \in Block PROVE AfterRecovery(hd, lg, hm)[b] = AfterRecovery(hd, lg, hn)[b]
  <2>1. CASE Holds(hd, b)
    <3>1. PICK i \in 1 .. Len(hd) : hd[i] = b
      BY <2>1 DEF Holds
    <3> QED BY <3>1, RecoveryAt
  <2>2. CASE ~Holds(hd, b)
    BY <2>2, RecoveryAt
  <2> QED BY <2>1, <2>2
<1> QED BY <1>1 DEF AfterRecovery

\* A disk whose named blocks are all home is as recovery leaves it.
LEMMA RecoveryDone ==
  ASSUME NEW hd \in Seq(Block), Distinct(hd), NEW lg, NEW hm \in [Block -> Value],
         NEW c \in [Block -> Value],
         \A i \in 1 .. Len(hd) : lg[i] = c[hd[i]],
         \A b \in Block : Holds(hd, b) \/ c[b] = hm[b]
  PROVE  AfterRecovery(hd, lg, hm) = c
<1>1. ASSUME NEW b \in Block PROVE AfterRecovery(hd, lg, hm)[b] = c[b]
  <2>1. CASE Holds(hd, b)
    <3>1. PICK i \in 1 .. Len(hd) : hd[i] = b
      BY <2>1 DEF Holds
    <3> QED BY <3>1, RecoveryAt
  <2>2. CASE ~Holds(hd, b)
    BY <2>2, RecoveryAt
  <2> QED BY <2>1, <2>2
<1> QED BY <1>1 DEF AfterRecovery

\* What a crash would leave, phase by phase: before the header is written the home
\* blocks, from then on what the cache has.
LEMMA DurablePhase ==
  ASSUME TypeOK, Data
  PROVE  /\ Durable = AfterRecovery(head, logd, home)
         /\ phase \in {"none", "write_log", "write_head"} => Durable = home
         /\ phase \in {"install", "clear", "done"} => Durable = cache
         /\ phase = "recovered" => Durable = home
<1>1. Durable = AfterRecovery(head, logd, home)
  BY DEF Durable, AfterRecovery
<1>2. head = <<>> => Durable = home
  BY <1>1, RecoveryOfNothing DEF TypeOK
<1>3. phase = "install" => Durable = cache
  <2> HAVE phase = "install"
  <2>1. head \in Seq(Block) /\ Distinct(head) /\ home \in [Block -> Value] /\ cache \in [Block -> Value]
    BY DEF Data, TypeOK
  <2>2. \A i \in 1 .. Len(head) : logd[i] = cache[head[i]]
    BY DEF Data
  <2>3. \A b \in Block : Holds(head, b) \/ cache[b] = home[b]
    BY DEF Data
  <2> QED BY <1>1, <2>1, <2>2, <2>3, RecoveryDone
<1>4. phase = "clear" => Durable = cache
  <2> HAVE phase = "clear"
  <2>1. head \in Seq(Block) /\ Distinct(head) /\ home \in [Block -> Value] /\ cache \in [Block -> Value]
    BY DEF Data, TypeOK
  <2>2. \A i \in 1 .. Len(head) : logd[i] = cache[head[i]]
    BY DEF Data
  <2>3. \A b \in Block : Holds(head, b) \/ cache[b] = home[b]
    BY DEF Data
  <2> QED BY <1>1, <2>1, <2>2, <2>3, RecoveryDone
<1>5. phase = "recovered" => Durable = home
  <2> HAVE phase = "recovered"
  <2>1. head \in Seq(Block) /\ Distinct(head) /\ home \in [Block -> Value] /\ home \in [Block -> Value]
    BY DEF Data, TypeOK
  <2>2. \A i \in 1 .. Len(head) : logd[i] = home[head[i]]
    BY DEF Data
  <2>3. \A b \in Block : Holds(head, b) \/ home[b] = home[b]
    BY DEF Data
  <2> QED BY <1>1, <2>1, <2>2, <2>3, RecoveryDone
<1> QED BY <1>1, <1>2, <1>3, <1>4, <1>5 DEF Data

\* The refinement mapping.
mem == IF Running THEN cache ELSE Durable

\* A step of the log is a step of the atomic disk, or none: a commit is the write of
\* the header, everything else of commit and recovery is invisible.
LEMMA AtomicStep ==
  ASSUME LogInv, LogInv', [Next]_vars
  PROVE  \/ \E p \in Proc : \/ p \notin Active /\ Active' = Active \cup {p} /\ mem' = mem /\ Durable' = Durable
                            \/ p \in Active /\ Active' = Active \ {p} /\ mem' = mem /\ Durable' = Durable
                            \/ \E b \in Block, v \in Value :
                                 /\ p \in Active /\ mem' = [mem EXCEPT ![b] = v]
                                 /\ Durable' = Durable /\ Active' = Active
         \/ Active = {} /\ Durable' = mem /\ mem' = mem /\ Active' = Active
         \/ mem' = Durable /\ Active' = {} /\ Durable' = Durable
         \/ mem' = mem /\ Durable' = Durable /\ Active' = Active
<1> USE LogBounds DEF LogInv
<1>d. disk' = disk => Durable' = Durable
  BY Zenon DEF disk, Durable
<1>e. Durable' = AfterRecovery(head', logd', home')
  BY DEF Durable, AfterRecovery
<1>a. Active \in SUBSET Proc
  BY DEF Active
<1>1. ASSUME NEW p \in Proc, begin_op(p)
      PROVE  /\ mem' = mem /\ Durable' = Durable
             /\ \/ p \notin Active /\ Active' = Active \cup {p}
                \/ Active' = Active
  <2>1. mem' = mem /\ Durable' = Durable
    BY <1>1, <1>d DEF begin_op, mem, Running
  <2> QED BY <1>1, <2>1 DEF begin_op, Active, TypeOK
<1>2. ASSUME NEW p \in Proc, end_op(p)
      PROVE  /\ mem' = mem /\ Durable' = Durable
             /\ p \in Active /\ Active' = Active \ {p}
  <2>1. p \in Active
    BY <1>2 DEF end_op, Active
  <2>2. ~committing /\ Running
    BY <1>a, <1>2, <2>1, OneMore, Zenon DEF Control, end_op
  <2>3. Running'
    BY <1>2, <2>2 DEF end_op, Running
  <2>4. mem' = mem /\ Durable' = Durable
    BY <1>2, <1>d, <2>2, <2>3 DEF end_op, mem
  <2> QED BY <1>2, <2>1, <2>2, <2>4 DEF end_op, Active, Woken, TypeOK
<1>3. ASSUME NEW p \in Proc, NEW b \in Block, NEW v \in Value, log_write(p, b, v)
      PROVE  /\ Durable' = Durable /\ Active' = Active
             /\ mem' = mem \/ (p \in Active /\ mem' = [mem EXCEPT ![b] = v])
  <2>1. p \in Active /\ Active' = Active /\ Running /\ Running'
    BY <1>3 DEF log_write, Active, TypeOK, Control, Running
  <2>2. Durable' = Durable
    BY <1>3, <1>d DEF log_write
  <2> QED BY <1>3, <2>1, <2>2 DEF log_write, mem
<1>4. CASE WriteLogBlock
  <2>1. Durable' = Durable
    <3>1. phase = "write_log" /\ head = <<>> /\ UNCHANGED <<head, home>>
      BY <1>4 DEF WriteLogBlock, Data
    <3>2. Durable = home
      BY <3>1, DurablePhase
    <3>3. Durable' = home
      BY <1>e, <3>1, RecoveryOfNothing DEF TypeOK
    <3> QED BY <3>2, <3>3
  <2> QED BY <1>4, <2>1 DEF WriteLogBlock, mem, Running, Active
<1>5. CASE WriteHead
  <2>1. Durable' = cache
    <3>1. Durable' = AfterRecovery(lh, logd, home)
      BY <1>5, <1>e DEF WriteHead
    <3>2. lh \in Seq(Block) /\ Distinct(lh) /\ home \in [Block -> Value] /\ cache \in [Block -> Value]
      BY DEF Data, TypeOK
    <3>3. \A i \in 1 .. Len(lh) : logd[i] = cache[lh[i]]
      BY <1>5, Zenon DEF WriteHead, Data
    <3>4. \A b \in Block : Holds(lh, b) \/ cache[b] = home[b]
      BY <1>5 DEF WriteHead, Data
    <3> QED BY <3>1, <3>2, <3>3, <3>4, RecoveryDone
  <2>2. Active = {}
    <3>1. Cardinality(Active) = 0
      BY <1>5 DEF WriteHead, Control
    <3>2. IsFiniteSet(Active)
      BY <1>a, FS_Subset
    <3> QED BY <3>1, <3>2, FS_EmptySet
  <2> QED BY <1>5, <2>1, <2>2 DEF WriteHead, mem, Running, Active
<1>6. CASE Install
  <2>1. cache' = cache
    BY <1>6, DataInstall
  <2>2. Durable = cache
    BY <1>6, DurablePhase DEF Install
  <2>3. Durable' = cache'
    <3>1. phase' \in {"install", "clear"}
      BY <1>6 DEF Install
    <3>2. /\ head' \in Seq(Block) /\ Distinct(head')
          /\ home' \in [Block -> Value] /\ cache' \in [Block -> Value]
      BY DEF Data, TypeOK
    <3>3. \A i \in 1 .. Len(head') : logd'[i] = cache'[head'[i]]
      <4>1. CASE phase' = "install"
        <5>1. head' = lh' /\ \A i \in 1 .. Len(lh') : logd'[i] = cache'[lh'[i]]
          BY <4>1 DEF Data
        <5> QED BY <5>1
      <4>2. CASE phase' = "clear"
        <5>1. cache' = home' /\ \A i \in 1 .. Len(head') : home'[head'[i]] = logd'[i]
          BY <4>2 DEF Data
        <5> QED BY <5>1
      <4> QED BY <3>1, <4>1, <4>2
    <3>4. \A b \in Block : Holds(head', b) \/ cache'[b] = home'[b]
      <4>1. CASE phase' = "install"
        <5>1. head' = lh' /\ \A b \in Block : Holds(lh', b) \/ cache'[b] = home'[b]
          BY <4>1 DEF Data
        <5> QED BY <5>1
      <4>2. CASE phase' = "clear"
        BY <4>2 DEF Data
      <4> QED BY <3>1, <4>1, <4>2
    <3> QED BY <1>e, <3>2, <3>3, <3>4, RecoveryDone
  <2> QED BY <1>6, <2>1, <2>2, <2>3 DEF Install, mem, Running, Active
<1>7. CASE Clear
  <2>1. Durable' = home
    BY <1>7, <1>e, RecoveryOfNothing DEF Clear, TypeOK
  <2>2. Durable = cache /\ cache = home
    BY <1>7, DurablePhase DEF Clear, Data
  <2> QED BY <1>7, <2>1, <2>2 DEF Clear, mem, Running, Active
<1>8. CASE Committed
  <2>1. Active' = Active
    BY <1>8 DEF Committed, Active, Woken, TypeOK
  <2> QED BY <1>8, <1>d, <2>1 DEF Committed, mem, Running
<1>9. ASSUME NEW b \in Block, Recycle(b)
      PROVE  mem' = mem /\ Durable' = Durable /\ Active' = Active
  <2>1. cache[b] = home[b]
    BY <1>9 DEF Recycle, Running, Data, Holds, TypeOK
  <2>2. cache' = cache
    BY <1>9, <2>1 DEF Recycle, TypeOK
  <2> QED BY <1>9, <1>d, <2>2 DEF Recycle, mem, Running, Active
<1>10. CASE Crash
  <2>1. ~Running' /\ Active' = {}
    BY <1>10 DEF Crash, Running, Active
  <2> QED BY <1>10, <1>d, <2>1 DEF Crash, mem
<1>11. CASE read_head
  BY <1>11, <1>d DEF read_head, mem, Running, Active
<1>12. CASE Recover
  <2>1. Durable' = Durable
    <3>1. \A b \in Block : Holds(head, b) \/ home'[b] = home[b]
      <4>1. CASE tail <= Len(lh)
        <5>1. Holds(head, lh[tail])
          BY <1>12, <4>1 DEF Recover, Data, Holds, TypeOK
        <5> QED BY <1>12, <4>1, <5>1 DEF Recover, Installed, TypeOK
      <4>2. CASE ~(tail <= Len(lh))
        BY <1>12, <4>2 DEF Recover
      <4> QED BY <4>1, <4>2
    <3>2. AfterRecovery(head, logd, home') = AfterRecovery(head, logd, home)
      BY <3>1, RecoverySame DEF Data, TypeOK
    <3> QED BY <1>12, <1>e, <3>2, DurablePhase DEF Recover
  <2> QED BY <1>12, <2>1 DEF Recover, mem, Running, Active
<1>13. CASE Recovered
  <2>1. lh = <<>> /\ cache = home
    BY <1>13 DEF Recovered, Control, Data
  <2>2. Durable' = home
    BY <1>13, <1>e, <2>1, RecoveryOfNothing DEF Recovered, TypeOK
  <2>3. Durable = home
    BY <1>13, DurablePhase DEF Recovered
  <2> QED BY <1>13, <2>1, <2>2, <2>3 DEF Recovered, mem, Running, Active
<1>14. CASE UNCHANGED vars
  BY <1>14, <1>d DEF vars, disk, mem, Running, Active
<1>q1. CASE \E p \in Proc : begin_op(p) \/ end_op(p) \/ \E b \in Block, v \in Value : log_write(p, b, v)
  BY <1>q1, <1>1, <1>2, <1>3
<1>q2. CASE commit
  BY <1>q2, <1>4, <1>5, <1>6, <1>7, <1>8 DEF commit
<1>q3. CASE recover_from_log
  BY <1>q3, <1>11, <1>12, <1>13 DEF recover_from_log
<1> QED
  BY <1>q1, <1>q2, <1>q3, <1>9, <1>10, <1>14 DEF Next

\* The log implements the atomic disk, for any number of processes, blocks and
\* values and any size of the log, with crashes at any step of calls, commit and
\* recovery: calls become durable together, at the write of the header, and a
\* crash leaves the last commit (log.c:10-16, 198-207).
THEOREM CrashAtomicHolds == Spec => CrashAtomic
<1>1. Init => A!Init
  <2> SUFFICES ASSUME Init PROVE A!Init
    OBVIOUS
  <2>1. Durable = home
    BY LogInit, DurablePhase, Zenon DEF LogInv, Init
  <2>2. Running
    BY DEF Init, Running
  <2> QED BY <2>1, <2>2 DEF Init, A!Init
<1>2. LogInv /\ LogInv' /\ [Next]_vars => [A!Next]_A!vars
  <2> SUFFICES ASSUME LogInv, LogInv', [Next]_vars PROVE [A!Next]_A!vars
    OBVIOUS
  <2> QED BY AtomicStep, Zenon
          DEF mem, Active, A!Next, A!vars, A!Begin, A!End, A!Write, A!Commit, A!Crash
<1> QED BY LogInvariant, <1>1, <1>2, PTL DEF Spec, CrashAtomic, A!Safety
=============================================================================
