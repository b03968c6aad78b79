--------------------------- MODULE LogInvariants ----------------------------
(***************************************************************************)
(* Proofs about module Log, for any sets of processes, blocks and values   *)
(* and any sizes that satisfy LogBounds.  Control says who is where and is *)
(* inductive by itself; Data, what is where on the disk and in the cache,  *)
(* needs it.                                                               *)
(***************************************************************************)
EXTENDS Log, FiniteSetTheorems, TLAPS

Active == {p \in Proc : at[p] \in {"in", "panic"}}

\* Who is where: the part of the invariant that is about log.lock's fields.
Control ==
  /\ outstanding = Cardinality(Active)
  /\ committing <=> phase \in {"write_log", "write_head", "install", "clear", "done"}
  /\ committing => outstanding = 0
  /\ ~Running => \A p \in Proc : at[p] = "out"
  /\ phase = "none" /\ outstanding = 0 => lh = <<>>
  /\ phase \in {"done", "read_head", "recovered"} => lh = <<>>
  /\ SomeoneWillWake

Distinct(s) == \A i, j \in 1 .. Len(s) : s[i] = s[j] => i = j

Holds(s, b) == \E i \in 1 .. Len(s) : s[i] = b

\* What is where: in each phase of commit and recovery, how much of the log has
\* been copied, which blocks the cache must keep, and what the header says.
Data ==
  /\ Distinct(lh) /\ Distinct(head)
  /\ tail <= Len(lh) + 1 \/ phase = "done"
  /\ phase \in {"none", "write_head", "read_head", "recovered"} => tail = 1
  /\ phase \in {"none", "write_log", "write_head", "done"} => head = <<>>
  /\ phase \in {"install", "clear", "recover"} => head = lh
  /\ phase \in {"none", "write_log", "write_head"} =>
       \A i \in 1 .. Len(lh) : lh[i] \in pinned
  /\ phase = "install" => \A i \in 1 .. Len(lh) : i >= tail => lh[i] \in pinned
  /\ phase \in {"none", "write_log", "write_head", "install"} =>
       \A b \in Block : Holds(lh, b) \/ cache[b] = home[b]
  /\ phase \in {"clear", "done", "read_head", "recover", "recovered"} => cache = home
  /\ phase = "write_log" => \A i \in 1 .. Len(lh) : i < tail => logd[i] = cache[lh[i]]
  /\ phase \in {"write_head", "install"} => \A i \in 1 .. Len(lh) : logd[i] = cache[lh[i]]
  /\ phase \in {"install", "recover"} =>
       \A i \in 1 .. Len(lh) : i < tail => home[lh[i]] = logd[i]
  /\ phase \in {"clear", "recovered"} => \A i \in 1 .. Len(head) : home[head[i]] = logd[i]

-----------------------------------------------------------------------------
(* Types                                                                   *)

\* Every step keeps the types.  The count of active calls is bounded by the number
\* of processes because Control says what it counts (log.c:120-140).
LEMMA TypeStep == TypeOK /\ Control /\ Data /\ [Next]_vars /\ Control' => TypeOK'
<1> SUFFICES ASSUME TypeOK, Control, Data, [Next]_vars, Control'
             PROVE  TypeOK'
  OBVIOUS
<1> USE LogBounds
<1>o. outstanding' \in 0 .. Cardinality(Proc)
  BY FS_Subset, FS_CardinalityType DEF Control, Active
<1>1. ASSUME NEW p \in Proc, begin_op(p) PROVE TypeOK'
  BY <1>o, <1>1 DEF TypeOK, begin_op, disk
<1>2. ASSUME NEW p \in Proc, end_op(p) PROVE TypeOK'
  <2>1. at' \in [Proc -> {"out", "asleep", "in", "commit", "panic"}]
    BY <1>2 DEF TypeOK, end_op, Woken
  <2>2. wrote' \in [Proc -> SUBSET Block]
    BY <1>2 DEF TypeOK, end_op
  <2>3. phase' \in {"none", "write_log", "write_head", "install", "clear", "done",
                    "read_head", "recover", "recovered"}
    BY <1>2 DEF TypeOK, end_op
  <2>4. committing' \in BOOLEAN
    BY <1>2, Zenon DEF TypeOK, end_op
  <2>5. tail' \in 1 .. LOGSIZE + 1
    BY <1>2 DEF end_op
  <2> QED BY <1>o, <1>2, <2>1, <2>2, <2>3, <2>4, <2>5 DEF TypeOK, end_op, disk
<1>3. ASSUME NEW p \in Proc, NEW b \in Block, NEW v \in Value, log_write(p, b, v) PROVE TypeOK'
  <2>1. Len(lh') <= LOGSIZE /\ lh' \in Seq(Block)
    <3>1. CASE UNCHANGED lh
      BY <3>1 DEF TypeOK
    <3>2. CASE lh' = Append(lh, b) /\ Len(lh) < LOGSIZE
      BY <3>2 DEF TypeOK
    <3> QED BY <1>3, <3>1, <3>2 DEF TypeOK, log_write, TooBig, LoggedNew
  <2> QED BY <1>o, <1>3, <2>1 DEF TypeOK, log_write, TooBig, LoggedNew, disk
<1>4. CASE WriteLogBlock
  BY <1>o, <1>4 DEF TypeOK, WriteLogBlock
<1>5. CASE WriteHead
  BY <1>o, <1>5 DEF TypeOK, WriteHead
<1>6. CASE Install
  <2>1. CASE tail <= Len(lh)
    <3>1. lh[tail] \in Block /\ logd[tail] \in Value
      BY <2>1 DEF TypeOK
    <3>2. home' \in [Block -> Value] /\ cache' \in [Block -> Value]
      BY <1>6, <2>1, <3>1 DEF TypeOK, Install, Installed
    <3>3. tail' \in 1 .. LOGSIZE + 1
      BY <1>6, <2>1 DEF TypeOK, Install
    <3> QED BY <1>o, <1>6, <2>1, <3>2, <3>3 DEF TypeOK, Install
  <2>2. CASE ~(tail <= Len(lh))
    BY <1>o, <1>6, <2>2 DEF TypeOK, Install
  <2> QED BY <2>1, <2>2
<1>7. CASE Clear
  BY <1>o, <1>7 DEF TypeOK, Clear
<1>8. CASE Committed
  <2>1. at' \in [Proc -> {"out", "asleep", "in", "commit", "panic"}]
    BY <1>8 DEF TypeOK, Committed, Woken
  <2>2. committing' \in BOOLEAN
    BY <1>8, Zenon DEF Committed
  <2>t. tail' \in 1 .. LOGSIZE + 1
    BY <1>8 DEF Committed
  <2> QED BY <1>o, <1>8, <2>1, <2>2, <2>t DEF TypeOK, Committed, disk
<1>9. ASSUME NEW b \in Block, Recycle(b) PROVE TypeOK'
  BY <1>o, <1>9 DEF TypeOK, Recycle, disk
<1>10. CASE Crash
  <2>1. lh' \in Seq(Block) /\ Len(lh') <= LOGSIZE
    BY <1>10 DEF Crash
  <2>2. /\ at' \in [Proc -> {"out", "asleep", "in", "commit", "panic"}]
        /\ wrote' \in [Proc -> SUBSET Block]
    BY <1>10 DEF Crash
  <2>3. committing' \in BOOLEAN
    BY <1>10, Zenon DEF Crash
  <2>t. tail' \in 1 .. LOGSIZE + 1
    BY <1>10 DEF Crash
  <2> QED BY <1>o, <1>10, <2>1, <2>2, <2>3, <2>t DEF TypeOK, Crash, disk
<1>11. CASE read_head
  BY <1>o, <1>11 DEF TypeOK, read_head, ReadHead, disk
<1>12. CASE Recover
  <2>1. CASE tail <= Len(lh)
    <3>1. lh[tail] \in Block /\ logd[tail] \in Value
      BY <2>1 DEF TypeOK
    <3>2. home' \in [Block -> Value] /\ cache' \in [Block -> Value]
      BY <1>12, <2>1, <3>1 DEF TypeOK, Recover, Installed
    <3>3. tail' \in 1 .. LOGSIZE + 1
      BY <1>12, <2>1 DEF TypeOK, Recover
    <3> QED BY <1>o, <1>12, <2>1, <3>2, <3>3 DEF TypeOK, Recover
  <2>2. CASE ~(tail <= Len(lh))
    BY <1>o, <1>12, <2>2 DEF TypeOK, Recover
  <2> QED BY <2>1, <2>2
<1>13. CASE Recovered
  BY <1>o, <1>13 DEF TypeOK, Recovered
<1>14. CASE UNCHANGED vars
  BY <1>14 DEF TypeOK, vars, disk
<1> QED
  BY <1>1, <1>2, <1>3, <1>4, <1>5, <1>6, <1>7, <1>8, <1>9, <1>10, <1>11, <1>12, <1>13, <1>14
  DEF Next, commit, recover_from_log

-----------------------------------------------------------------------------
(* Control                                                                 *)

\* The count of a set that one process joins or leaves: what begin_op and end_op
\* do to log.outstanding.
LEMMA OneMore ==
  ASSUME NEW S \in SUBSET Proc, NEW p \in Proc
  PROVE  /\ Cardinality(S) \in Nat
         /\ p \notin S => Cardinality(S \cup {p}) = Cardinality(S) + 1
         /\ p \in S => Cardinality(S \ {p}) = Cardinality(S) - 1 /\ Cardinality(S) > 0
         /\ Cardinality(S) = 0 <=> S = {}
<1>1. IsFiniteSet(S)
  BY LogBounds, FS_Subset
<1>2. Cardinality(S) \in Nat
  BY <1>1, FS_CardinalityType
<1>3. Cardinality(S) = 0 <=> S = {}
  BY <1>1, FS_EmptySet
<1>4. p \notin S => Cardinality(S \cup {p}) = Cardinality(S) + 1
  BY <1>1, FS_AddElement
<1>5. p \in S => Cardinality(S \ {p}) = Cardinality(S) - 1
  BY <1>1, FS_RemoveElement
<1> QED BY <1>2, <1>3, <1>4, <1>5

\* A call that enters or leaves: what begin_op, end_op and the wakeups do to the
\* set of active calls.
LEMMA ControlStep == TypeOK /\ Control /\ [Next]_vars => Control'
<1> SUFFICES ASSUME TypeOK, Control, [Next]_vars
             PROVE  Control'
  OBVIOUS
<1> USE LogBounds
<1>a. Active \in SUBSET Proc
  BY DEF Active
<1>1. ASSUME NEW p \in Proc, begin_op(p) PROVE Control'
  <2>1. p \notin Active
    BY <1>1 DEF begin_op, Active
  <2>2. CASE Admits /\ outstanding' = outstanding + 1 /\ at' = [at EXCEPT ![p] = "in"]
    <3>1. Active' = Active \cup {p}
      BY <2>2 DEF Active, TypeOK
    <3>2. outstanding' = Cardinality(Active') /\ outstanding' > 0
      BY <1>a, <2>1, <2>2, <3>1, OneMore DEF Control
    <3> QED BY <1>1, <2>2, <3>2 DEF Control, begin_op, Admits, Running, SomeoneWillWake
  <2>3. CASE ~Admits /\ outstanding' = outstanding /\ at' = [at EXCEPT ![p] = "asleep"]
    <3>1. Active' = Active
      BY <1>1, <2>3 DEF begin_op, Active, TypeOK
    <3>2. outstanding > 0 \/ committing
      <4>1. SUFFICES ASSUME outstanding = 0, ~committing PROVE FALSE
        BY DEF TypeOK
      <4>2. lh = <<>>
        BY <1>1, <4>1 DEF Control, begin_op, Running, TypeOK
      <4>3. Len(lh) = 0
        BY <4>2
      <4> QED BY <2>3, <4>1, <4>3 DEF Admits, Fits
    <3> QED BY <1>1, <2>3, <3>1, <3>2 DEF Control, begin_op, Running, SomeoneWillWake
  <2> QED BY <1>1, <2>2, <2>3 DEF begin_op
<1>2. ASSUME NEW p \in Proc, end_op(p) PROVE Control'
  <2>1. p \in Active /\ outstanding > 0 /\ outstanding \in Nat
    BY <1>2, <1>a, OneMore, Zenon DEF end_op, Active, Control
  <2>2. ~committing /\ Running
    BY <1>2, <2>1 DEF Control, end_op
  <2>3. phase = "none"
    BY <2>2 DEF Control, Running, TypeOK
  <2>4. outstanding' = Cardinality(Active \ {p}) /\ outstanding' = outstanding - 1
    BY <1>2, <1>a, <2>1, OneMore DEF end_op, Ended, Control
  <2>5. CASE Last
    <3>1. Active' = Active \ {p}
      BY <1>2, <2>2, <2>5 DEF end_op, Active, TypeOK
    <3>2. committing' /\ outstanding' = 0 /\ phase' \in {"write_log", "done"}
      BY <1>2, <2>2, <2>4, <2>5 DEF end_op, Last
    <3>3. phase' = "done" => lh' = <<>>
      BY <1>2, <2>2, <2>5 DEF end_op
    <3> QED BY <2>4, <3>1, <3>2, <3>3, Zenon DEF Control, Running, SomeoneWillWake
  <2>6. CASE ~Last
    <3>1. Active' = Active \ {p}
      BY <1>2, <2>2, <2>6 DEF end_op, Active, Woken, TypeOK
    <3>2. outstanding' > 0
      BY <2>1, <2>4, <2>6 DEF Last
    <3> QED BY <1>2, <2>2, <2>3, <2>4, <2>6, <3>1, <3>2
            DEF Control, Running, end_op, SomeoneWillWake
  <2> QED BY <2>5, <2>6
<1>3. ASSUME NEW p \in Proc, NEW b \in Block, NEW v \in Value, log_write(p, b, v) PROVE Control'
  <2>1. Active' = Active
    BY <1>3 DEF log_write, Active, TypeOK
  <2>2. outstanding > 0 /\ outstanding' = outstanding
    BY <1>3, <1>a, OneMore, Zenon DEF log_write, Active, Control
  <2>3. (\E q \in Proc : at'[q] = "asleep") => \E q \in Proc : at[q] = "asleep"
    BY <1>3 DEF log_write, TypeOK
  <2>4. Running
    BY <1>3 DEF Control, log_write
  <2> QED BY <1>3, <2>1, <2>2, <2>3, <2>4 DEF Control, Running, log_write, SomeoneWillWake
<1>4. CASE WriteLogBlock
  BY <1>4 DEF Control, WriteLogBlock, Active, Running, SomeoneWillWake
<1>5. CASE WriteHead
  BY <1>5 DEF Control, WriteHead, Active, Running, SomeoneWillWake
<1>6. CASE Install
  BY <1>6 DEF Control, Install, Active, Running, SomeoneWillWake
<1>7. CASE Clear
  BY <1>7 DEF Control, Clear, Active, Running, SomeoneWillWake
<1>8. CASE Committed
  <2>1. Active' = Active
    BY <1>8 DEF Committed, Active, Woken, TypeOK
  <2>2. \A q \in Proc : at'[q] # "asleep"
    BY <1>8 DEF Committed, Woken, TypeOK
  <2> QED BY <1>8, <2>1, <2>2 DEF Control, Committed, Running, SomeoneWillWake
<1>9. ASSUME NEW b \in Block, Recycle(b) PROVE Control'
  BY <1>9 DEF Control, Recycle, Active, Running, SomeoneWillWake
<1>10. CASE Crash
  <2>1. Active' = {}
    BY <1>10 DEF Crash, Active
  <2> QED BY <1>10, <2>1, FS_EmptySet DEF Control, Crash, Running, SomeoneWillWake
<1>11. CASE read_head
  BY <1>11 DEF Control, read_head, Active, Running, SomeoneWillWake
<1>12. CASE Recover
  BY <1>12 DEF Control, Recover, Active, Running, SomeoneWillWake
<1>13. CASE Recovered
  BY <1>13 DEF Control, Recovered, Active, Running, SomeoneWillWake
<1>14. CASE UNCHANGED vars
  BY <1>14 DEF Control, vars, Active, Running, SomeoneWillWake
<1> QED
  BY <1>1, <1>2, <1>3, <1>4, <1>5, <1>6, <1>7, <1>8, <1>9, <1>10, <1>11, <1>12, <1>13, <1>14
  DEF Next, commit, recover_from_log
-----------------------------------------------------------------------------

\* Data is about the disk, the cache, the log in memory and the phase.
LEMMA DataSame ==
  ASSUME Data, UNCHANGED <<home, logd, head, cache, pinned, lh, phase, tail>>
  PROVE  Data'
BY DEF Data, Distinct, Holds

\* log_write: absorption writes a block that is in the log, otherwise a new block
\* joins it and is pinned; nothing off the log changes (log.c:224-233).
LEMMA DataWrite ==
  ASSUME TypeOK, Control, Data,
         NEW p \in Proc, NEW b \in Block, NEW v \in Value, log_write(p, b, v)
  PROVE  Data'
<1> USE LogBounds
<1>1. phase = "none"
  <2>1. outstanding > 0 /\ Running
    <3>1. p \in Active /\ Active \in SUBSET Proc
      BY DEF log_write, Active
    <3> QED BY <3>1, OneMore, Zenon DEF Control, log_write
  <2> QED BY <2>1 DEF Control, Running, TypeOK
<1>2. UNCHANGED <<home, logd, head, phase, tail>>
  BY DEF log_write, disk
<1>3. CASE UNCHANGED <<cache, lh, pinned>>
  BY <1>2, <1>3 DEF Data, Distinct, Holds
<1>4. CASE cache' = [cache EXCEPT ![b] = v] /\ InLog(b) /\ UNCHANGED <<lh, pinned>>
  <2>1. Holds(lh, b)
    BY <1>4 DEF InLog, Holds, TypeOK
  <2>2. \A c \in Block : Holds(lh, c) \/ cache'[c] = home[c]
    BY <1>1, <1>4, <2>1 DEF Data, TypeOK
  <2> QED BY <1>1, <1>2, <1>4, <2>2 DEF Data, Distinct, Holds
<1>5. CASE cache' = [cache EXCEPT ![b] = v] /\ ~InLog(b) /\ LoggedNew(b)
  <2>1. /\ Len(lh') = Len(lh) + 1 /\ lh'[Len(lh) + 1] = b
        /\ \A i \in 1 .. Len(lh) : lh'[i] = lh[i]
    BY <1>5 DEF LoggedNew, TypeOK
  <2>2. \A i \in 1 .. Len(lh) : lh[i] # b
    BY <1>5 DEF InLog, TypeOK
  <2>3. Distinct(lh')
    BY <2>1, <2>2 DEF Data, Distinct, TypeOK
  <2>4. \A i \in 1 .. Len(lh') : lh'[i] \in pinned'
    BY <1>1, <1>5, <2>1 DEF Data, LoggedNew, TypeOK
  <2>5. \A c \in Block : Holds(lh', c) \/ cache'[c] = home[c]
    <3> TAKE c \in Block
    <3>1. CASE c = b
      BY <2>1, <3>1 DEF Holds, TypeOK
    <3>2. CASE c # b /\ cache[c] = home[c]
      BY <1>5, <3>2 DEF TypeOK
    <3>3. CASE Holds(lh, c)
      BY <2>1, <3>3 DEF Holds, TypeOK
    <3> QED BY <1>1, <3>1, <3>2, <3>3 DEF Data
  <2> QED BY <1>1, <1>2, <2>1, <2>3, <2>4, <2>5 DEF Data, TypeOK
<1> QED BY <1>3, <1>4, <1>5 DEF log_write

\* One block copied home, by commit or by recovery: the prefix of installed blocks
\* grows by one and other blocks keep their value, since no block is twice in the
\* log (log.c:70-84).
LEMMA InstalledPrefix ==
  ASSUME TypeOK, Data, tail <= Len(lh), home' = Installed, logd' = logd, lh' = lh, tail' = tail + 1,
         \A i \in 1 .. Len(lh) : i < tail => home[lh[i]] = logd[i]
  PROVE  /\ \A i \in 1 .. Len(lh') : i < tail' => home'[lh'[i]] = logd'[i]
         /\ \A c \in Block : c # lh[tail] => home'[c] = home[c]
         /\ lh[tail] \in Block /\ home'[lh[tail]] = logd[tail]
<1>1. tail \in 1 .. Len(lh) /\ lh[tail] \in Block
  BY DEF TypeOK
<1>2. /\ home'[lh[tail]] = logd[tail]
      /\ \A c \in Block : c # lh[tail] => home'[c] = home[c]
  BY <1>1 DEF Installed, TypeOK
<1>3. ASSUME NEW i \in 1 .. Len(lh), i < tail + 1 PROVE home'[lh[i]] = logd[i]
  <2>1. CASE i = tail
    BY <1>2, <2>1
  <2>2. CASE i < tail
    BY <1>1, <1>2, <2>2 DEF Data, Distinct, TypeOK
  <2> QED BY <1>1, <1>3, <2>1, <2>2
<1> QED BY <1>1, <1>2, <1>3

\* install_trans during a commit: the cache does not change, for what is copied
\* home is what was copied from the cache.
LEMMA DataInstall == ASSUME TypeOK, Data, Install PROVE Data' /\ cache' = cache
<1>1. CASE tail <= Len(lh)
  <2>1. /\ home' = Installed /\ UNCHANGED <<logd, head, lh, phase>> /\ tail' = tail + 1
        /\ cache' = [cache EXCEPT ![lh[tail]] = logd[tail]] /\ pinned' = pinned \ {lh[tail]}
        /\ phase = "install"
    BY <1>1 DEF Install
  <2>2. tail \in 1 .. Len(lh) /\ lh[tail] \in Block
    BY <1>1 DEF TypeOK
  <2>3. cache' = cache
    BY <2>1, <2>2 DEF Data, TypeOK
  <2>4. /\ \A i \in 1 .. Len(lh') : i < tail' => home'[lh'[i]] = logd'[i]
        /\ \A c \in Block : c # lh[tail] => home'[c] = home[c]
    BY <1>1, <2>1, InstalledPrefix DEF Data
  <2>5. \A i \in 1 .. Len(lh') : i >= tail' => lh'[i] \in pinned'
    BY <2>1, <2>2 DEF Data, Distinct, TypeOK
  <2>6. \A c \in Block : Holds(lh', c) \/ cache'[c] = home'[c]
    BY <2>1, <2>2, <2>3, <2>4 DEF Data, Holds
  <2>7. tail' <= Len(lh') + 1
    BY <1>1, <2>1 DEF TypeOK
  <2> QED BY <2>1, <2>3, <2>4, <2>5, <2>6, <2>7 DEF Data
<1>2. CASE ~(tail <= Len(lh))
  <2>1. UNCHANGED <<home, logd, head, lh, cache, pinned, tail>> /\ phase = "install" /\ phase' = "clear"
    BY <1>2 DEF Install
  <2>2. \A i \in 1 .. Len(lh) : home[lh[i]] = logd[i]
    BY <1>2, <2>1 DEF Data, TypeOK
  <2>3. cache = home
    <3>1. \A c \in Block : cache[c] = home[c]
      <4>1. /\ \A c \in Block : Holds(lh, c) \/ cache[c] = home[c]
            /\ \A i \in 1 .. Len(lh) : logd[i] = cache[lh[i]]
        BY <2>1 DEF Data
      <4> QED BY ONLY <2>2, <4>1 DEF Holds
    <3> QED BY <3>1 DEF TypeOK
  <2>4. Distinct(lh) /\ Distinct(head) /\ head = lh /\ tail <= Len(lh) + 1
    BY <2>1 DEF Data
  <2> QED BY ONLY <2>1, <2>2, <2>3, <2>4 DEF Data
<1> QED BY <1>1, <1>2

\* Recovery copies the same way, from the header read at the start.
LEMMA DataRecover == ASSUME TypeOK, Data, Recover PROVE Data'
<1>1. CASE tail <= Len(lh)
  <2>1. /\ home' = Installed /\ UNCHANGED <<logd, head, lh, phase>> /\ tail' = tail + 1
        /\ cache' = [cache EXCEPT ![lh[tail]] = logd[tail]] /\ phase = "recover"
    BY <1>1 DEF Recover
  <2>2. \A i \in 1 .. Len(lh') : i < tail' => home'[lh'[i]] = logd'[i]
    BY <1>1, <2>1, InstalledPrefix DEF Data
  <2>3. cache' = home'
    BY <2>1 DEF Data, Installed
  <2>4. tail' <= Len(lh') + 1
    BY <1>1, <2>1 DEF TypeOK
  <2> QED BY <2>1, <2>2, <2>3, <2>4 DEF Data, Distinct
<1>2. CASE ~(tail <= Len(lh))
  <2>1. /\ UNCHANGED <<home, logd, head, cache>> /\ phase = "recover" /\ phase' = "recovered"
        /\ lh' = <<>> /\ tail' = 1
    BY <1>2 DEF Recover
  <2>2. \A i \in 1 .. Len(head) : home[head[i]] = logd[i]
    BY <1>2, <2>1 DEF Data, TypeOK
  <2>3. Len(lh') = 0
    BY <2>1
  <2> QED BY <2>1, <2>2, <2>3 DEF Data, Distinct
<1> QED BY <1>1, <1>2

\* Every step keeps what Data says of the disk and the cache.
LEMMA DataStep == TypeOK /\ Control /\ Data /\ [Next]_vars => Data'
<1> SUFFICES ASSUME TypeOK, Control, Data, [Next]_vars
             PROVE  Data'
  OBVIOUS
<1> USE LogBounds
<1>1. ASSUME NEW p \in Proc, begin_op(p) PROVE Data'
  BY <1>1, DataSame DEF begin_op, disk
<1>2. ASSUME NEW p \in Proc, end_op(p) PROVE Data'
  <2>1. p \in Active /\ Active \in SUBSET Proc
    BY <1>2 DEF end_op, Active
  <2>2. ~committing /\ Running
    BY <1>2, <2>1, OneMore, Zenon DEF Control, end_op
  <2>3. phase = "none" /\ tail' = 1 /\ UNCHANGED <<home, logd, head, cache, pinned, lh>>
    BY <1>2, <2>2 DEF Control, Running, TypeOK, end_op, disk
  <2>4. \/ phase' \in {"none", "write_log"}
        \/ phase' = "done" /\ lh = <<>>
    BY <1>2, <2>2, <2>3 DEF end_op
  <2>5. phase' = "done" => cache = home
    <3> HAVE phase' = "done"
    <3>1. Len(lh) = 0
      BY <2>4
    <3>2. \A c \in Block : cache[c] = home[c]
      BY <2>3, <3>1 DEF Data, Holds
    <3> QED BY <3>2 DEF TypeOK
  <2> QED BY <2>3, <2>4, <2>5 DEF Data, Distinct, Holds, TypeOK
<1>3. ASSUME NEW p \in Proc, NEW b \in Block, NEW v \in Value, log_write(p, b, v) PROVE Data'
  BY <1>3, DataWrite
<1>4. CASE WriteLogBlock
  <2>1. CASE tail <= Len(lh)
    <3>1. /\ logd' = [logd EXCEPT ![tail] = cache[lh[tail]]] /\ tail' = tail + 1 /\ phase = "write_log"
          /\ UNCHANGED <<phase, home, head, cache, pinned, lh>>
      BY <1>4, <2>1 DEF WriteLogBlock
    <3>2. \A i \in 1 .. Len(lh) : i < tail + 1 => logd'[i] = cache[lh[i]]
      BY <2>1, <3>1 DEF Data, TypeOK
    <3> QED BY <2>1, <3>1, <3>2 DEF Data, Distinct, Holds, TypeOK
  <2>2. CASE ~(tail <= Len(lh))
    BY <1>4, <2>2 DEF WriteLogBlock, Data, Distinct, Holds, TypeOK
  <2> QED BY <2>1, <2>2
<1>5. CASE WriteHead
  BY <1>5 DEF WriteHead, Data, Distinct, Holds, TypeOK
<1>6. CASE Install
  BY <1>6, DataInstall
<1>7. CASE Clear
  <2>1. lh' = <<>> /\ head' = <<>> /\ phase' = "done" /\ UNCHANGED <<home, cache>> /\ phase = "clear"
    BY <1>7 DEF Clear
  <2>2. cache = home
    BY <2>1 DEF Data
  <2>3. Distinct(lh')
    BY <2>1 DEF Distinct
  <2> QED BY <2>1, <2>2, <2>3 DEF Data
<1>8. CASE Committed
  <2>1. lh = <<>>
    BY <1>8 DEF Committed, Control
  <2> QED BY <1>8, <2>1 DEF Committed, Data, disk
<1>9. ASSUME NEW b \in Block, Recycle(b) PROVE Data'
  <2>1. cache[b] = home[b]
    BY <1>9 DEF Recycle, Running, Data, Holds, TypeOK
  <2>2. cache' = cache
    BY <1>9, <2>1 DEF Recycle, TypeOK
  <2> QED BY <1>9, <2>2 DEF Recycle, Data, Distinct, Holds, disk
<1>10. CASE Crash
  <2>1. Distinct(lh')
    BY <1>10 DEF Crash, Distinct
  <2> QED BY <1>10, <2>1 DEF Crash, Data, disk
<1>11. CASE read_head
  BY <1>11 DEF read_head, ReadHead, Data, Distinct, Holds, disk, TypeOK
<1>12. CASE Recover
  BY <1>12, DataRecover
<1>13. CASE Recovered
  <2>1. lh = <<>>
    BY <1>13 DEF Recovered, Control
  <2>2. Distinct(lh) /\ cache = home /\ tail = 1
    BY <1>13 DEF Recovered, Data
  <2> QED BY ONLY <1>13, <2>1, <2>2 DEF Recovered, Data
<1>14. CASE UNCHANGED vars
  BY <1>14, DataSame DEF vars, disk
<1> QED
  BY <1>1, <1>2, <1>3, <1>4, <1>5, <1>6, <1>7, <1>8, <1>9, <1>10, <1>11, <1>12, <1>13, <1>14
  DEF Next, commit, recover_from_log

-----------------------------------------------------------------------------
(* The invariants                                                          *)

LogInv == TypeOK /\ Control /\ Data

\* The first start, with a blank disk, satisfies the invariant.
LEMMA LogInit == Init => LogInv
<1> SUFFICES ASSUME Init PROVE LogInv
  OBVIOUS
<1> USE LogBounds
<1>1. TypeOK
  <2>1. outstanding \in 0 .. Cardinality(Proc)
    BY FS_CardinalityType DEF Init
  <2>2. committing \in BOOLEAN
    BY Zenon DEF Init
  <2>3. lh \in Seq(Block) /\ Len(lh) = 0 /\ head \in Seq(Block) /\ Len(head) = 0
    BY DEF Init
  <2> QED BY <2>1, <2>2, <2>3 DEF Init, TypeOK
<1>2. Control
  <2>1. Active = {}
    BY DEF Init, Active
  <2> QED BY <2>1, FS_EmptySet DEF Init, Control, Running, SomeoneWillWake
<1>3. Data
  BY DEF Init, Data, Distinct, Holds
<1> QED BY <1>1, <1>2, <1>3 DEF LogInv

\* The inductive invariant holds in every reachable state: in each phase of commit
\* and recovery the log, the cache and the home blocks are in step (log.c:70-200).
THEOREM LogInvariant == Spec => []LogInv
<1>1. LogInv /\ [Next]_vars => LogInv'
  BY TypeStep, ControlStep, DataStep DEF LogInv
<1> QED BY LogInit, <1>1, PTL DEF Spec

\* end_op never finds a commit under way, so that its panic cannot happen and a
\* commit writes no half of a call (log.c:153-154).
THEOREM CommitsAloneHolds == Spec => []CommitsAlone
<1>1. LogInv => CommitsAlone
  BY DEF LogInv, Control, CommitsAlone
<1> QED BY LogInvariant, <1>1, PTL

\* Whoever sleeps in begin_op has an end_op or a commit ahead that wakes it, for
\* any number of processes and any size of the log (log.c:129-140, 158-163, 172).
THEOREM SomeoneWillWakeHolds == Spec => []SomeoneWillWake
<1>1. LogInv => SomeoneWillWake
  BY DEF LogInv, Control
<1> QED BY LogInvariant, <1>1, PTL
=============================================================================
