---------------------------- MODULE BCacheProofs ----------------------------
(***************************************************************************)
(* Proofs about module BCache, for any finite sets of processes, each with *)
(* one buffer or two at a time, and of buffers, any blocks, in any order,  *)
(* and any limit on pinned blocks.                                         *)
(***************************************************************************)
EXTENDS BCache, FiniteSetTheorems, TLAPS

Holding == {"locked", "reading", "have", "dirty", "writing", "written"}
Places == Holding \cup {"away", "lock", "asleep", "put"}

Types ==
  /\ blockno \in [Buf -> Block \cup {NoBlock}]
  /\ refcnt \in [Buf -> Int]
  /\ holder \in [Buf -> User \cup {Nobody}]
  /\ lru \in [1 .. Cardinality(Buf) -> Buf]
  /\ pinned \in SUBSET Block
  /\ at \in [User -> [pc : Places, b : Buf \cup {Nobody}]]
  /\ pinLimit \in Nat
  /\ nobufs \in BOOLEAN

\* Where a process is, and what it then has.
Whereabouts ==
  /\ \A p \in User : at[p].pc = "away" <=> at[p].b = Nobody
  /\ \A p \in User, b \in Buf : holder[b] = p <=> at[p].pc \in Holding /\ at[p].b = b
  /\ \A p \in User : at[p].pc # "away" => blockno[at[p].b] # NoBlock
  /\ \A p \in User : at[p].pc = "written" => blockno[at[p].b] \in pinned

Listed == \A b \in Buf : \E i \in 1 .. Cardinality(Buf) : lru[i] = b

\* A pinned block stays in its buffer, and the log pins no more than it may.
Pins ==
  /\ \A k \in pinned : \E b \in Buf : blockno[b] = k
  /\ IsFiniteSet(pinned) /\ Cardinality(pinned) <= pinLimit

CacheInv == Types /\ Whereabouts /\ Listed /\ Pins /\ CacheSound

Users(b) == {p \in User : at[p].b = b}
Pin(b) == IF blockno[b] \in pinned THEN 1 ELSE 0
-----------------------------------------------------------------------------
(* Counting                                                                *)

\* There are finitely many pointers: one or two for each process.
LEMMA UserFacts == IsFiniteSet(User) /\ Nobody \notin User
<1>1. IsFiniteSet(Proc \X {1})
  BY UserAssumption, FS_Singleton, FS_Product
<1>2. IsFiniteSet(Nested)
  BY UserAssumption, FS_Subset
<1>3. IsFiniteSet(Nested \X {2})
  BY <1>2, FS_Singleton, FS_Product
<1> QED BY <1>1, <1>3, UserAssumption, FS_Union DEF User

\* One process more, or one less, among the users of a buffer.
LEMMA OneMore ==
  ASSUME NEW S \in SUBSET User, NEW p \in User
  PROVE  /\ Cardinality(S) \in Nat
         /\ p \notin S => Cardinality(S \cup {p}) = Cardinality(S) + 1
         /\ p \in S => Cardinality(S \ {p}) = Cardinality(S) - 1 /\ Cardinality(S) > 0
         /\ Cardinality(S) = 0 => S = {}
<1>1. IsFiniteSet(S)
  BY UserFacts, FS_Subset
<1>2. Cardinality(S) \in Nat
  BY <1>1, FS_CardinalityType
<1>3. Cardinality(S) = 0 <=> S = {}
  BY <1>1, FS_EmptySet
<1>4. p \notin S => Cardinality(S \cup {p}) = Cardinality(S) + 1
  BY <1>1, FS_AddElement
<1>5. p \in S => Cardinality(S \ {p}) = Cardinality(S) - 1
  BY <1>1, FS_RemoveElement
<1> QED BY <1>2, <1>3, <1>4, <1>5

\* The users of a buffer can be counted.
LEMMA CountType ==
  ASSUME NEW b
  PROVE  IsFiniteSet(Users(b)) /\ Cardinality(Users(b)) \in Nat
<1>1. IsFiniteSet(Users(b))
  BY UserFacts, FS_Subset DEF Users
<1> QED BY <1>1, FS_CardinalityType

\* A buffer without a reference has no user and holds no pinned block, so bget()
\* may take it (bio.c:75-83).
LEMMA FreeIsFree ==
  ASSUME Types, RefcntCounts, NEW b \in Buf, refcnt[b] = 0
  PROVE  Users(b) = {} /\ blockno[b] \notin pinned
<1>1. refcnt[b] = Cardinality(Users(b)) + Pin(b)
  BY DEF RefcntCounts, Users, Pin
<1>2. blockno[b] \notin pinned /\ Cardinality(Users(b)) = 0
  BY <1>1, CountType DEF Pin
<1> QED BY <1>2, CountType, FS_EmptySet

\* With a buffer for each pointer a process may hold and for each block the log may
\* pin, bget() finds a free one: the other pointers cannot keep them all (bio.c:88).
LEMMA Pigeonhole ==
  ASSUME CacheInv, NEW p \in User, at[p].pc = "away", Unused = {}
  PROVE  Cardinality(User) + pinLimit > Cardinality(Buf)
<1> DEFINE Others == User \ {p}
           Pinned == {b \in Buf : blockno[b] \in pinned}
           Used == Buf \ Pinned
<1> USE DEF CacheInv, CacheSound
<1>1. \A b \in Buf : refcnt[b] # 0
  BY Zenon DEF Unused, Listed, Types
<1>2. \A b \in Used : \E q \in Others : at[q].b = b
  <2> TAKE b \in Used
  <2>1. refcnt[b] = Cardinality(Users(b))
    <3>1. refcnt[b] = Cardinality(Users(b)) + Pin(b)
      BY DEF RefcntCounts, Users, Pin
    <3>2. Pin(b) = 0
      BY DEF Pin
    <3> QED BY <3>1, <3>2, CountType
  <2>2. Users(b) # {}
    BY <1>1, <2>1, FS_EmptySet
  <2>3. p \notin Users(b)
    BY BufAssumption DEF Whereabouts, Users
  <2> QED BY <2>2, <2>3 DEF Users
<1> DEFINE f == [b \in Used |-> CHOOSE q \in Others : at[q].b = b]
           g == [b \in Pinned |-> blockno[b]]
<1>3. f \in Injection(Used, Others)
  <2>1. \A b \in Used : f[b] \in Others /\ at[f[b]].b = b
    BY <1>2, Zenon
  <2>2. f \in [Used -> Others]
    BY <2>1
  <2>3. \A b, c \in Used : f[b] = f[c] => b = c
    BY <2>1
  <2> HIDE DEF f
  <2> QED BY <2>2, <2>3 DEF Injection, IsInjective
<1>4. g \in Injection(Pinned, pinned)
  <2>1. \A b \in Pinned : g[b] = blockno[b] /\ blockno[b] \in pinned /\ blockno[b] # NoBlock
    BY BlockAssumption DEF Types
  <2>2. g \in [Pinned -> pinned]
    BY <2>1, Zenon
  <2>3. \A b, c \in Pinned : g[b] = g[c] => b = c
    BY <2>1, Zenon DEF OneBufferPerBlock
  <2> QED BY <2>2, <2>3, Zenon DEF Injection, IsInjective
<1>5. IsFiniteSet(Others) /\ Cardinality(Others) = Cardinality(User) - 1
  BY UserFacts, FS_RemoveElement
<1>6. Cardinality(Used) <= Cardinality(Others)
  BY <1>3, <1>5, FS_Injection
<1>7. Cardinality(Pinned) <= Cardinality(pinned)
  BY <1>4, FS_Injection DEF Pins
<1>8. IsFiniteSet(Used) /\ IsFiniteSet(Pinned)
  BY BufAssumption, FS_Subset
<1>9. Cardinality(Buf) = Cardinality(Used) + Cardinality(Pinned)
  <2>1. Buf = Used \cup Pinned /\ Used \cap Pinned = {}
    OBVIOUS
  <2>2. Cardinality(Used \cup Pinned) = Cardinality(Used) + Cardinality(Pinned) - Cardinality(Used \cap Pinned)
    BY <1>8, FS_Union
  <2>3. Cardinality(Used) \in Nat /\ Cardinality(Pinned) \in Nat
    BY <1>8, FS_CardinalityType
  <2> HIDE DEF Used, Pinned
  <2> QED BY <2>1, <2>2, <2>3, FS_EmptySet
<1>10. /\ Cardinality(User) \in Nat /\ Cardinality(Used) \in Nat
       /\ Cardinality(Pinned) \in Nat /\ Cardinality(pinned) \in Nat
  BY <1>8, UserFacts, FS_CardinalityType DEF Pins
<1> HIDE DEF Used, Pinned, Others
<1> QED BY <1>5, <1>6, <1>7, <1>9, <1>10 DEF Pins, Types

-----------------------------------------------------------------------------
(* Steps                                                                   *)

\* Within a bread() or a bwrite() a process keeps its buffer and its lock.
LEMMA Moves ==
  ASSUME CacheInv, NEW p \in User, NEW pc \in Holding, at[p].pc \in Holding,
         at' = [at EXCEPT ![p].pc = pc],
         pc = "written" => blockno[at[p].b] \in pinned,
         UNCHANGED <<blockno, refcnt, holder, lru, pinned, pinLimit, nobufs>>
  PROVE  CacheInv'
<1> USE DEF CacheInv, CacheSound
<1>1. \A q \in User : at'[q].b = at[q].b /\ at'[q].pc = IF q = p THEN pc ELSE at[q].pc
  BY DEF Types
<1>2. Types'
  BY DEF Types, Places
<1>3. Whereabouts'
  BY <1>1 DEF Whereabouts, Types, Holding
<1>4. \A b \in Buf : Users(b)' = Users(b)
  BY <1>1 DEF Users
<1>5. RefcntCounts'
  BY <1>4 DEF RefcntCounts, Users
<1>6. SleepersHaveHolder'
  BY <1>1 DEF SleepersHaveHolder, Holding
<1> QED BY <1>2, <1>3, <1>5, <1>6 DEF Listed, Pins, OneBufferPerBlock, NeverOutOfBuffers

\* A step that changes none of the cache's variables.
LEMMA Stays ==
  ASSUME CacheInv, UNCHANGED <<blockno, refcnt, holder, lru, pinned, at, pinLimit, nobufs>>
  PROVE  CacheInv'
BY DEF CacheInv, CacheSound, Types, Whereabouts, Listed, Pins, OneBufferPerBlock, RefcntCounts,
       NeverOutOfBuffers, SleepersHaveHolder

\* A process that had no buffer refers to b, and only refcnt[b] counts it.
LEMMA Refers ==
  ASSUME CacheInv, NEW p \in User, NEW b \in Buf, at[p].pc = "away",
         at' = [at EXCEPT ![p] = [pc |-> "lock", b |-> b]]
  PROVE  /\ \A q \in User : at'[q] = IF q = p THEN [pc |-> "lock", b |-> b] ELSE at[q]
         /\ Cardinality(Users(b)') = Cardinality(Users(b)) + 1
         /\ \A c \in Buf : c # b => Users(c)' = Users(c)
<1> USE DEF CacheInv
<1>1. \A q \in User : at'[q] = IF q = p THEN [pc |-> "lock", b |-> b] ELSE at[q]
  BY DEF Types
<1>2. at[p].b = Nobody
  BY DEF Whereabouts
<1>3. Users(b)' = Users(b) \cup {p} /\ p \notin Users(b)
  BY <1>1, <1>2, BufAssumption DEF Users
<1>4. \A c \in Buf : c # b => Users(c)' = Users(c)
  BY <1>1, <1>2, BufAssumption DEF Users
<1>5. Cardinality(Users(b) \cup {p}) = Cardinality(Users(b)) + 1
  BY <1>3, OneMore DEF Users
<1> QED BY <1>1, <1>3, <1>4, <1>5

\* bget() finds the block cached (bio.c:66-73).
LEMMA HitStep ==
  ASSUME CacheInv, NEW p \in User, NEW k \in Block, BgetHit(p, k)
  PROVE  CacheInv'
<1> USE DEF CacheInv, CacheSound, BgetHit
<1>1. PICK b \in Buf : /\ blockno[b] = k
                      /\ refcnt' = [refcnt EXCEPT ![b] = @ + 1]
                      /\ at' = [at EXCEPT ![p] = [pc |-> "lock", b |-> b]]
  BY Zenon
<1>2. /\ \A q \in User : at'[q] = IF q = p THEN [pc |-> "lock", b |-> b] ELSE at[q]
      /\ Cardinality(Users(b)') = Cardinality(Users(b)) + 1
      /\ \A c \in Buf : c # b => Users(c)' = Users(c)
  BY <1>1, Refers, Zenon
<1>3. Types'
  BY <1>1 DEF Types, Places
<1>4. Whereabouts'
  BY <1>1, <1>2, BufAssumption, BlockAssumption DEF Whereabouts, Types, Holding
<1>5. RefcntCounts'
  <2> SUFFICES ASSUME NEW c \in Buf
               PROVE  refcnt'[c] = Cardinality(Users(c)') + Pin(c)'
    BY DEF RefcntCounts, Users, Pin
  <2>1. refcnt[c] = Cardinality(Users(c)) + Pin(c) /\ Pin(c)' = Pin(c) /\ Pin(c) \in Int
    BY DEF RefcntCounts, Users, Pin
  <2>2. Cardinality(Users(c)) \in Nat
    BY CountType
  <2>3. CASE c = b
    BY <1>1, <1>2, <2>1, <2>2, <2>3 DEF Types
  <2>4. CASE c # b
    BY <1>1, <1>2, <2>1, <2>4 DEF Types
  <2> QED BY <2>3, <2>4
<1>6. SleepersHaveHolder'
  BY <1>2 DEF SleepersHaveHolder
<1> QED BY <1>3, <1>4, <1>5, <1>6 DEF Listed, Pins, OneBufferPerBlock, NeverOutOfBuffers

\* bget() takes a buffer nobody refers to for the block (bio.c:77-87).
LEMMA RecycleStep ==
  ASSUME CacheInv, NEW p \in User, NEW k \in Block, BgetRecycle(p, k)
  PROVE  CacheInv'
<1> USE DEF CacheInv, CacheSound, BgetRecycle
<1>1. PICK b \in Victim : /\ blockno' = [blockno EXCEPT ![b] = k]
                         /\ refcnt' = [refcnt EXCEPT ![b] = 1]
                         /\ at' = [at EXCEPT ![p] = [pc |-> "lock", b |-> b]]
  BY Zenon
<1>2. b \in Buf /\ refcnt[b] = 0
  BY DEF Victim, Unused, Types
<1>3. Users(b) = {} /\ blockno[b] \notin pinned
  BY <1>2, FreeIsFree
<1>4. /\ \A q \in User : at'[q] = IF q = p THEN [pc |-> "lock", b |-> b] ELSE at[q]
      /\ Cardinality(Users(b)') = Cardinality(Users(b)) + 1
      /\ \A c \in Buf : c # b => Users(c)' = Users(c)
  BY <1>1, <1>2, Refers, Zenon
<1>5. k \notin pinned
  BY DEF Pins
<1>6. Types'
  BY <1>1, <1>2 DEF Types, Places
<1>7. Whereabouts'
  <2>1. \A q \in User : q # p => at[q].b # b
    BY <1>3 DEF Users
  <2> QED BY <1>1, <1>2, <1>4, <2>1, BufAssumption, BlockAssumption DEF Whereabouts, Types, Holding
<1>8. Pins'
  BY <1>1, <1>2, <1>3 DEF Pins, Types
<1>9. OneBufferPerBlock'
  BY <1>1, <1>2 DEF OneBufferPerBlock, Types
<1>10. RefcntCounts'
  <2> SUFFICES ASSUME NEW c \in Buf
               PROVE  refcnt'[c] = Cardinality(Users(c)') + Pin(c)'
    BY DEF RefcntCounts, Users, Pin
  <2>1. CASE c = b
    <3>1. Cardinality(Users(b)') = 1
      BY <1>3, <1>4, FS_EmptySet
    <3>2. Pin(b)' = 0
      BY <1>1, <1>2, <1>5 DEF Pin, Types
    <3> QED BY <1>1, <1>2, <2>1, <3>1, <3>2 DEF Types
  <2>2. CASE c # b
    <3>1. refcnt[c] = Cardinality(Users(c)) + Pin(c)
      BY DEF RefcntCounts, Users, Pin
    <3>2. Pin(c)' = Pin(c) /\ refcnt'[c] = refcnt[c]
      BY <1>1, <1>2, <2>2 DEF Pin, Types
    <3> QED BY <1>4, <2>2, <3>1, <3>2
  <2> QED BY <2>1, <2>2
<1>11. SleepersHaveHolder'
  BY <1>4 DEF SleepersHaveHolder
<1> QED BY <1>6, <1>7, <1>8, <1>9, <1>10, <1>11 DEF Listed, NeverOutOfBuffers

\* bget() finds no buffer: there are fewer than pointers and pins (bio.c:88).
LEMMA PanicStep ==
  ASSUME CacheInv, NEW p \in User, NEW k \in Block, BgetPanic(p, k)
  PROVE  CacheInv'
<1> USE DEF BgetPanic
<1>1. Cardinality(User) + pinLimit > Cardinality(Buf)
  BY Pigeonhole
<1>2. Cardinality(User) \in Nat /\ Cardinality(Buf) \in Nat
  BY UserFacts, BufAssumption, FS_CardinalityType
<1>3. NeverOutOfBuffers'
  BY <1>1, <1>2 DEF NeverOutOfBuffers, CacheInv, Types
<1> QED
  BY <1>3 DEF CacheInv, CacheSound, Types, Whereabouts, Listed, Pins, OneBufferPerBlock, RefcntCounts,
              SleepersHaveHolder

\* acquiresleep() takes the lock or goes to sleep (sleeplock.c:22-31).
LEMMA LockStep ==
  ASSUME CacheInv, NEW p \in User, AcquireSleep(p)
  PROVE  CacheInv'
<1> USE DEF CacheInv, CacheSound
<1> DEFINE b == at[p].b
<1>1. b \in Buf /\ at[p].pc = "lock"
  BY DEF Whereabouts, Types, AcquireSleep
<1>2. \A q \in User : at'[q].b = at[q].b /\ (q # p => at'[q] = at[q])
  BY DEF Types, AcquireSleep, Go
<1>3. Types'
  <2>1. \E pc \in Places : at' = [at EXCEPT ![p].pc = pc]
    BY DEF AcquireSleep, Go, Places, Holding
  <2>2. at' \in [User -> [pc : Places, b : Buf \cup {Nobody}]]
    BY <2>1, Zenon DEF Types
  <2>3. holder' \in [Buf -> User \cup {Nobody}]
    BY DEF AcquireSleep, Types
  <2> QED BY <2>2, <2>3 DEF Types, AcquireSleep
<1>4. Whereabouts' /\ SleepersHaveHolder'
  <2>1. CASE holder[b] # Nobody
    <3>1. at'[p].pc = "asleep" /\ UNCHANGED <<holder, blockno, pinned>>
      BY <2>1 DEF AcquireSleep, Go, Types
    <3> QED BY <1>1, <1>2, <2>1, <3>1 DEF Whereabouts, SleepersHaveHolder, Holding
  <2>2. CASE holder[b] = Nobody
    <3>1. at'[p].pc = "locked" /\ holder' = [holder EXCEPT ![b] = p] /\ UNCHANGED <<blockno, pinned>>
      BY <2>2 DEF AcquireSleep, Go, Types
    <3>2. \A c \in Buf : holder'[c] = IF c = b THEN p ELSE holder[c]
      BY <3>1 DEF Types
    <3>3. \A q \in User, c \in Buf : holder'[c] = q <=> at'[q].pc \in Holding /\ at'[q].b = c
      BY <1>1, <1>2, <2>2, <3>1, <3>2, UserFacts DEF Whereabouts, Holding
    <3>4. SleepersHaveHolder'
      BY <1>1, <1>2, <3>1, <3>2, UserFacts, SMTT(20) DEF SleepersHaveHolder, Whereabouts, Types
    <3> QED BY <1>1, <1>2, <3>1, <3>3, <3>4 DEF Whereabouts
  <2> QED BY <2>1, <2>2
<1>5. \A c \in Buf : Users(c)' = Users(c)
  BY <1>2 DEF Users
<1>6. RefcntCounts'
  BY <1>5 DEF RefcntCounts, Users, AcquireSleep
<1> QED BY <1>3, <1>4, <1>6 DEF Listed, Pins, OneBufferPerBlock, NeverOutOfBuffers, AcquireSleep

\* bpin() adds the log's reference, once for a block (bio.c:139-144).
LEMMA PinStep ==
  ASSUME CacheInv, NEW p \in User, Bpin(p)
  PROVE  CacheInv'
<1> USE DEF CacheInv, CacheSound
<1> DEFINE b == at[p].b
           k == blockno[b]
<1>1. b \in Buf /\ at[p].pc = "dirty"
  BY DEF Whereabouts, Types, Bpin
<1>2. CASE k \in pinned
  BY <1>1, <1>2, Moves, Zenon DEF Bpin, Go, Holding
<1>3. CASE k \notin pinned
  <2>1. /\ Cardinality(pinned) < pinLimit /\ pinned' = pinned \cup {k}
        /\ refcnt' = [refcnt EXCEPT ![b] = @ + 1]
        /\ at' = [at EXCEPT ![p].pc = "have"]
        /\ UNCHANGED <<blockno, holder, lru, pinLimit, nobufs>>
    BY <1>3 DEF Bpin, Go
  <2>2. \A q \in User : at'[q].b = at[q].b /\ at'[q].pc = IF q = p THEN "have" ELSE at[q].pc
    BY <2>1 DEF Types
  <2>3. \A c \in Buf : Users(c)' = Users(c)
    BY <2>2 DEF Users
  <2>4. k \in Block
    BY <1>1 DEF Types, Whereabouts
  <2>5. Types'
    BY <1>1, <2>1, <2>4 DEF Types, Places, Holding
  <2>6. Whereabouts'
    BY <1>1, <2>1, <2>2 DEF Whereabouts, Holding
  <2>7. Pins'
    <3>1. IsFiniteSet(pinned \cup {k}) /\ Cardinality(pinned \cup {k}) = Cardinality(pinned) + 1
      BY <1>3, FS_AddElement, Zenon DEF Pins
    <3>2. Cardinality(pinned) \in Nat
      BY FS_CardinalityType DEF Pins
    <3>3. Cardinality(pinned') <= pinLimit'
      BY <2>1, <3>1, <3>2 DEF Types
    <3> QED BY <1>1, <2>1, <3>1, <3>3 DEF Pins
  <2>8. RefcntCounts'
    <3> SUFFICES ASSUME NEW c \in Buf
                 PROVE  refcnt'[c] = Cardinality(Users(c)') + Pin(c)'
      BY DEF RefcntCounts, Users, Pin
    <3>1. refcnt[c] = Cardinality(Users(c)) + Pin(c)
      BY DEF RefcntCounts, Users, Pin
    <3>2. CASE c = b
      <4>1. Pin(c) = 0 /\ Pin(c)' = 1
        BY <1>3, <2>1, <3>2 DEF Pin
      <4> QED BY <1>1, <2>1, <2>3, <3>1, <3>2, <4>1, CountType DEF Types
    <3>3. CASE c # b
      <4>1. Pin(c)' = Pin(c)
        BY <1>1, <2>1, <2>4, <3>3, BlockAssumption DEF Pin, OneBufferPerBlock
      <4> QED BY <1>1, <2>1, <2>3, <3>1, <3>3, <4>1 DEF Types
    <3> QED BY <3>2, <3>3
  <2>9. SleepersHaveHolder'
    BY <2>1, <2>2 DEF SleepersHaveHolder
  <2> QED BY <2>1, <2>5, <2>6, <2>7, <2>8, <2>9 DEF Listed, OneBufferPerBlock, NeverOutOfBuffers
<1> QED BY <1>2, <1>3

\* bunpin() takes it back after the block was written home (bio.c:146-151).
LEMMA UnpinStep ==
  ASSUME CacheInv, NEW p \in User, Bunpin(p)
  PROVE  CacheInv'
<1> USE DEF CacheInv, CacheSound
<1> DEFINE b == at[p].b
           k == blockno[b]
<1>1. b \in Buf /\ at[p].pc = "written" /\ k \in pinned
  BY DEF Whereabouts, Types, Bunpin
<1>2. /\ pinned' = pinned \ {k}
      /\ refcnt' = [refcnt EXCEPT ![b] = @ - 1]
      /\ at' = [at EXCEPT ![p].pc = "have"]
      /\ UNCHANGED <<blockno, holder, lru, pinLimit, nobufs>>
  BY DEF Bunpin, Go
<1>3. \A q \in User : at'[q].b = at[q].b /\ at'[q].pc = IF q = p THEN "have" ELSE at[q].pc
  BY <1>2 DEF Types
<1>4. \A c \in Buf : Users(c)' = Users(c)
  BY <1>3 DEF Users
<1>5. Types'
  BY <1>1, <1>2 DEF Types, Places, Holding
<1>6. Whereabouts'
  \* Nobody else has written this block: only the holder of its buffer may.
  <2>1. \A q \in User : q # p /\ at[q].pc = "written" => blockno[at[q].b] # k
    <3> TAKE q \in User
    <3> HAVE q # p /\ at[q].pc = "written"
    <3>1. at[q].b \in Buf /\ holder[at[q].b] = q /\ holder[b] = p
      BY <1>1 DEF Whereabouts, Types, Holding
    <3> QED BY <1>1, <3>1, BlockAssumption DEF OneBufferPerBlock, Types
  <2> QED BY <1>1, <1>2, <1>3, <2>1 DEF Whereabouts, Holding
<1>7. Pins'
  <2>1. IsFiniteSet(pinned \ {k}) /\ Cardinality(pinned \ {k}) = Cardinality(pinned) - 1
    <3>1. IsFiniteSet(pinned)
      BY DEF Pins
    <3> HIDE DEF k
    <3> QED BY <1>1, <3>1, FS_RemoveElement
  <2>2. Cardinality(pinned) \in Nat
    BY FS_CardinalityType DEF Pins
  <2>3. Cardinality(pinned') <= pinLimit'
    BY <1>2, <2>1, <2>2 DEF Types, Pins
  <2> QED BY <1>2, <2>1, <2>3 DEF Pins
<1>8. RefcntCounts'
  <2> SUFFICES ASSUME NEW c \in Buf
               PROVE  refcnt'[c] = Cardinality(Users(c)') + Pin(c)'
    BY DEF RefcntCounts, Users, Pin
  <2>1. refcnt[c] = Cardinality(Users(c)) + Pin(c)
    BY DEF RefcntCounts, Users, Pin
  <2>2. CASE c = b
    <3>1. Pin(c) = 1 /\ Pin(c)' = 0
      BY <1>1, <1>2, <2>2 DEF Pin
    <3> QED BY <1>1, <1>2, <1>4, <2>1, <2>2, <3>1, CountType DEF Types
  <2>3. CASE c # b
    <3>1. Pin(c)' = Pin(c)
      BY <1>1, <1>2, <2>3, BlockAssumption DEF Pin, OneBufferPerBlock, Types
    <3> QED BY <1>1, <1>2, <1>4, <2>1, <2>3, <3>1 DEF Types
  <2> QED BY <2>2, <2>3
<1>9. SleepersHaveHolder'
  BY <1>2, <1>3 DEF SleepersHaveHolder
<1> QED BY <1>2, <1>5, <1>6, <1>7, <1>8, <1>9 DEF Listed, OneBufferPerBlock, NeverOutOfBuffers

\* releasesleep() frees the lock and wakes all who sleep on it (sleeplock.c:33-41).
LEMMA UnlockStep ==
  ASSUME CacheInv, NEW p \in User, ReleaseSleep(p)
  PROVE  CacheInv'
<1> USE DEF CacheInv, CacheSound
<1> DEFINE b == at[p].b
<1>1. b \in Buf /\ at[p].pc = "have" /\ holder[b] = p
  BY DEF Whereabouts, Types, ReleaseSleep
<1>2. holder' = [holder EXCEPT ![b] = Nobody] /\ UNCHANGED <<blockno, refcnt, lru, pinned, pinLimit, nobufs>>
  BY DEF ReleaseSleep
<1>3. \A q \in User : /\ at'[q].b = at[q].b
                      /\ at'[q].pc = IF q = p THEN "put"
                                     ELSE IF at[q].pc = "asleep" /\ at[q].b = b THEN "lock" ELSE at[q].pc
  <2> TAKE q \in User
  <2>1. at[q] \in [pc : Places, b : Buf \cup {Nobody}]
    BY DEF Types
  <2> QED BY <1>1, <2>1 DEF ReleaseSleep, Wake
<1>4. at' \in [User -> [pc : Places, b : Buf \cup {Nobody}]]
  BY DEF Types, ReleaseSleep, Wake, Places
<1>5. Types'
  BY <1>2, <1>4, Zenon DEF Types
<1>6. Whereabouts'
  <2>1. \A c \in Buf : holder'[c] = IF c = b THEN Nobody ELSE holder[c]
    BY <1>2 DEF Types
  <2>2. \A q \in User, c \in Buf : holder'[c] = q <=> at'[q].pc \in Holding /\ at'[q].b = c
    <3> TAKE q \in User, c \in Buf
    <3>1. /\ holder[c] = q <=> at[q].pc \in Holding /\ at[q].b = c
          /\ holder[b] = q <=> at[q].pc \in Holding /\ at[q].b = b
          /\ holder[b] = p /\ q # Nobody
      BY <1>1, UserFacts DEF Whereabouts, Holding
    <3>2. at'[q].pc \in Holding <=> q # p /\ at[q].pc \in Holding
      BY ONLY <1>3 DEF Holding
    <3> QED BY ONLY <1>1, <1>3, <2>1, <3>1, <3>2
  <2>3. \A q \in User : (at'[q].pc = "away" <=> at[q].pc = "away") /\ (at'[q].pc = "written" => at[q].pc = "written")
    BY <1>1, <1>3
  <2>4. \A q \in User : at'[q].pc = "away" <=> at'[q].b = Nobody
    <3>1. \A q \in User : at[q].pc = "away" <=> at[q].b = Nobody
      BY DEF Whereabouts
    <3> QED BY ONLY <1>3, <2>3, <3>1
  <2>5. \A q \in User : /\ at'[q].pc # "away" => blockno'[at'[q].b] # NoBlock
                        /\ at'[q].pc = "written" => blockno'[at'[q].b] \in pinned'
    BY <1>2, <1>3, <2>3 DEF Whereabouts
  <2> QED BY <2>2, <2>4, <2>5, Zenon DEF Whereabouts
<1>7. \A c \in Buf : Users(c)' = Users(c)
  BY <1>3 DEF Users
<1>8. RefcntCounts'
  BY <1>2, <1>7 DEF RefcntCounts, Users
<1>9. SleepersHaveHolder'
  BY <1>1, <1>2, <1>3 DEF SleepersHaveHolder, Types
<1> QED BY <1>2, <1>5, <1>6, <1>8, <1>9 DEF Listed, Pins, OneBufferPerBlock, NeverOutOfBuffers

\* The list still has every buffer when one of them has moved to its head.
LEMMA FrontListed ==
  ASSUME Types, Listed, NEW b \in Buf
  PROVE  /\ ToFront(b) \in [1 .. Cardinality(Buf) -> Buf]
         /\ \A c \in Buf : \E i \in 1 .. Cardinality(Buf) : ToFront(b)[i] = c
<1> DEFINE n == Cardinality(Buf)
           m == ToFront(b)
<1>0. n \in Nat
  BY BufAssumption, FS_CardinalityType
<1>1. DOMAIN lru = 1 .. n /\ lru \in [1 .. n -> Buf]
  BY DEF Types
<1>2. m \in [1 .. n -> Buf]
  BY <1>0, <1>1 DEF ToFront
<1>3. ASSUME NEW c \in Buf PROVE \E i \in 1 .. n : m[i] = c
  <2>1. PICK j \in 1 .. n : lru[j] = c
    BY DEF Listed
  <2>2. PICK x \in 1 .. n : lru[x] = b
    BY DEF Listed
  <2>3. CASE c = b
    <3>1. m[1] = b /\ 1 \in 1 .. n
      BY <1>0, <1>1, <2>1 DEF ToFront
    <3> QED BY <2>3, <3>1
  <2>4. CASE c # b /\ \E y \in 1 .. n : y < j /\ lru[y] = b
    <3>1. m[j] = c
      BY <1>0, <1>1, <2>1, <2>4 DEF ToFront
    <3> QED BY <3>1
  <2>5. CASE c # b /\ ~\E y \in 1 .. n : y < j /\ lru[y] = b
    <3>1. x > j /\ j + 1 \in 1 .. n
      BY <1>0, <2>1, <2>2, <2>5
    <3>2. ~\E y \in 1 .. n : y < j + 1 /\ lru[y] = b
      BY <1>0, <2>1, <2>5
    <3>3. m[j + 1] = c
      BY <1>0, <1>1, <2>1, <3>1, <3>2 DEF ToFront
    <3> QED BY <3>1, <3>3
  <2> QED BY <2>3, <2>4, <2>5
<1> QED BY <1>2, <1>3

\* brelse() drops the reference and may move the buffer to the front (bio.c:116-136).
LEMMA ReleaseStep ==
  ASSUME CacheInv, NEW p \in User, Brelse(p)
  PROVE  CacheInv'
<1> USE DEF CacheInv, CacheSound
<1>0. PICK b \in Buf : b = at[p].b
  BY DEF Whereabouts, Types, Brelse
<1>1. b \in Buf /\ at[p].pc = "put" /\ b = at[p].b
  BY <1>0 DEF Brelse
<1>2. /\ refcnt' = [refcnt EXCEPT ![b] = @ - 1]
      /\ lru' = lru \/ lru' = ToFront(b)
      /\ at' = [at EXCEPT ![p] = Away]
      /\ UNCHANGED <<blockno, holder, pinned, pinLimit, nobufs>>
  BY <1>0 DEF Brelse
<1>3. \A q \in User : at'[q] = IF q = p THEN [pc |-> "away", b |-> Nobody] ELSE at[q]
  BY <1>2 DEF Types, Away
<1>4. Types' /\ Listed'
  <2>1. lru' \in [1 .. Cardinality(Buf) -> Buf] /\ Listed'
    <3>1. CASE lru' = lru
      BY <3>1 DEF Types, Listed
    <3>2. CASE lru' = ToFront(b)
      <4>1. /\ ToFront(b) \in [1 .. Cardinality(Buf) -> Buf]
            /\ \A c \in Buf : \E i \in 1 .. Cardinality(Buf) : ToFront(b)[i] = c
        BY <1>1, FrontListed
      <4> QED BY <3>2, <4>1 DEF Listed
    <3> QED BY <1>2, <3>1, <3>2
  <2>2. at' \in [User -> [pc : Places, b : Buf \cup {Nobody}]]
    BY <1>2 DEF Types, Away, Places
  <2>3. refcnt' \in [Buf -> Int]
    BY <1>1, <1>2 DEF Types
  <2> QED BY <1>2, <2>1, <2>2, <2>3 DEF Types
<1>5. Whereabouts'
  BY <1>1, <1>2, <1>3, BufAssumption DEF Whereabouts, Holding
<1>b. b # Nobody
  BY <1>1, BufAssumption
<1>6. Users(b)' = Users(b) \ {p} /\ p \in Users(b)
  BY <1>1, <1>3, <1>b DEF Users
<1>7. \A c \in Buf : c # b => Users(c)' = Users(c)
  BY <1>1, <1>3, BufAssumption DEF Users
<1>8. Cardinality(Users(b)') = Cardinality(Users(b)) - 1
  BY <1>6, OneMore DEF Users
<1>9. RefcntCounts'
  <2> SUFFICES ASSUME NEW c \in Buf
               PROVE  refcnt'[c] = Cardinality(Users(c)') + Pin(c)'
    BY DEF RefcntCounts, Users, Pin
  <2>1. refcnt[c] = Cardinality(Users(c)) + Pin(c) /\ Pin(c)' = Pin(c) /\ Pin(c) \in Int
    BY <1>2 DEF RefcntCounts, Users, Pin
  <2>2. Cardinality(Users(c)) \in Nat
    BY CountType
  <2>3. CASE c = b
    BY <1>1, <1>2, <1>8, <2>1, <2>2, <2>3 DEF Types
  <2>4. CASE c # b
    BY <1>1, <1>2, <1>7, <2>1, <2>4 DEF Types
  <2> QED BY <2>3, <2>4
<1>10. SleepersHaveHolder'
  BY <1>2, <1>3 DEF SleepersHaveHolder
<1> QED BY <1>2, <1>4, <1>5, <1>9, <1>10 DEF Pins, OneBufferPerBlock, NeverOutOfBuffers

-----------------------------------------------------------------------------
\* Every step keeps the invariant.
LEMMA CacheStep == CacheInv /\ [BCacheNext]_bcacheVars => CacheInv'
<1> SUFFICES ASSUME CacheInv, [BCacheNext]_bcacheVars
             PROVE  CacheInv'
  OBVIOUS
<1>1. ASSUME NEW p \in User, NEW k \in Block, BgetHit(p, k) PROVE CacheInv'
  BY <1>1, HitStep
<1>2. ASSUME NEW p \in User, NEW k \in Block, BgetRecycle(p, k) PROVE CacheInv'
  BY <1>2, RecycleStep
<1>3. ASSUME NEW p \in User, NEW k \in Block, BgetPanic(p, k) PROVE CacheInv'
  BY <1>3, PanicStep
<1>4. ASSUME NEW p \in User, AcquireSleep(p) PROVE CacheInv'
  BY <1>4, LockStep
<1>5. ASSUME NEW p \in User, BreadCached(p) PROVE CacheInv'
  BY <1>5, Moves, Zenon DEF BreadCached, Go, Holding
<1>6. ASSUME NEW p \in User, BreadStart(p) PROVE CacheInv'
  BY <1>6, Moves, Zenon DEF BreadStart, Go, Holding
<1>7. ASSUME NEW p \in User, BreadDone(p) PROVE CacheInv'
  BY <1>7, Moves, Zenon DEF BreadDone, Go, Holding
<1>8. ASSUME NEW p \in User, NEW v \in Data, Write(p, v) PROVE CacheInv'
  BY <1>8, Moves, Zenon DEF Write, Go, Holding
<1>9. ASSUME NEW p \in User, BwriteStart(p) PROVE CacheInv'
  BY <1>9, Moves, Zenon DEF BwriteStart, Go, Holding
<1>10. ASSUME NEW p \in User, BwriteDone(p) PROVE CacheInv'
  <2>1. CASE blockno[at[p].b] \in pinned
    BY <1>10, <2>1, Moves, Zenon DEF BwriteDone, Go, Holding
  <2>2. CASE blockno[at[p].b] \notin pinned
    BY <1>10, <2>2, Moves, Zenon DEF BwriteDone, Go, Holding
  <2> QED BY <2>1, <2>2
<1>11. ASSUME NEW p \in User, Bpin(p) PROVE CacheInv'
  BY <1>11, PinStep
<1>12. ASSUME NEW p \in User, Bunpin(p) PROVE CacheInv'
  BY <1>12, UnpinStep
<1>13. ASSUME NEW p \in User, ReleaseSleep(p) PROVE CacheInv'
  BY <1>13, UnlockStep
<1>14. ASSUME NEW p \in User, Brelse(p) PROVE CacheInv'
  BY <1>14, ReleaseStep
<1>15. ASSUME NEW b \in Buf, DiskStep(b) PROVE CacheInv'
  BY <1>15, Stays DEF DiskStep
<1>16. ASSUME UNCHANGED bcacheVars PROVE CacheInv'
  BY <1>16, Stays DEF bcacheVars
<1> QED
  BY <1>1, <1>2, <1>3, <1>4, <1>5, <1>6, <1>7, <1>8, <1>9, <1>10, <1>11, <1>12, <1>13, <1>14, <1>15, <1>16
     DEF BCacheNext, PanicLoop

\* binit() leaves every buffer unused, unlocked and in the list (bio.c:36-53).
LEMMA CacheInit == BCacheInit => CacheInv
<1> SUFFICES ASSUME BCacheInit PROVE CacheInv
  OBVIOUS
<1> USE DEF BCacheInit
<1>1. Types
  <2>1. at \in [User -> [pc : Places, b : Buf \cup {Nobody}]]
    BY DEF Away, Places
  <2>2. lru \in [1 .. Cardinality(Buf) -> Buf]
    BY DEF BufSeqs
  <2>3. pinLimit \in Nat
    BY PinAssumption
  <2>4. /\ blockno \in [Buf -> Block \cup {NoBlock}]
        /\ holder \in [Buf -> User \cup {Nobody}]
    OBVIOUS
  <2>5. refcnt \in [Buf -> Int]
    OBVIOUS
  <2>6. pinned \in SUBSET Block /\ nobufs \in BOOLEAN
    BY Zenon
  <2> QED BY ONLY <2>1, <2>2, <2>3, <2>4, <2>5, <2>6 DEF Types
<1>2. Whereabouts
  BY UserFacts, BufAssumption DEF Whereabouts, Away, Holding
<1>3. Listed
  BY Zenon DEF Listed, BufSeqs
<1>4. Pins
  BY FS_EmptySet, PinAssumption DEF Pins
<1>5. RefcntCounts
  <2> SUFFICES ASSUME NEW b \in Buf
               PROVE  refcnt[b] = Cardinality(Users(b)) + Pin(b)
    BY Zenon DEF RefcntCounts, Users, Pin
  <2>1. Users(b) = {} /\ Pin(b) = 0
    BY BufAssumption DEF Users, Pin, Away
  <2> QED BY <2>1, FS_EmptySet
<1>6. OneBufferPerBlock /\ NeverOutOfBuffers /\ SleepersHaveHolder
  BY DEF OneBufferPerBlock, NeverOutOfBuffers, SleepersHaveHolder, Away
<1> QED BY <1>1, <1>2, <1>3, <1>4, <1>5, <1>6 DEF CacheInv, CacheSound

\* In every cache: a block is in one buffer at most, refcnt is exactly the users and
\* the pin, bget() finds a buffer if there is one for each process that reads, two
\* for each that writes and one for each pin, and releasesleep() leaves no sleeper behind (bio.c:58-153, sleeplock.c:22-41).
THEOREM CacheSoundHolds == BCacheSpec => []CacheSound
<1>1. CacheInv => CacheSound
  BY DEF CacheInv
<1> QED BY <1>1, CacheInit, CacheStep, PTL DEF BCacheSpec
=============================================================================
