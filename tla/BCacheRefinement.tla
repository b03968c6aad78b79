-------------------------- MODULE BCacheRefinement --------------------------
(***************************************************************************)
(* The buffer cache implements the block store: the second part of the     *)
(* proofs about module BCache.  The invariant StoreInv says how far the    *)
(* contents of a buffer can be from the disk; every step is then a step of *)
(* BlockStore or is not seen.                                              *)
(***************************************************************************)
EXTENDS BCacheProofs

\* Where the holder of a buffer is.
Stage(b) == IF holder[b] = Nobody THEN "free" ELSE at[holder[b]].pc

InUse == {"have", "dirty", "writing", "written"}

\* The buffer holds what is on the disk.
InSync(b) == data[b] = sector[blockno[b]]

DiskTypes ==
  /\ valid \in [Buf -> BOOLEAN]
  /\ sector \in [Block -> Data]
  /\ data \in [Buf -> Data]
  /\ request \in [Buf -> [write : BOOLEAN, block : Block, done : BOOLEAN] \cup {NoRequest}]

\* A valid buffer differs from the disk only while its block is pinned or its user
\* has still to write it; and the one transfer a buffer may have in progress is its
\* holder's, for the block it holds.
BufSound(b) ==
  /\ valid[b] => blockno[b] \in Block
  /\ Stage(b) \in InUse => valid[b]
  /\ Stage(b) = "reading" => ~valid[b]
  /\ Stage(b) = "written" => InSync(b)
  /\ valid[b] => InSync(b) \/ blockno[b] \in pinned \/ Stage(b) \in {"dirty", "writing"}
  /\ request[b] # NoRequest =>
       /\ request[b].block = blockno[b]
       /\ Stage(b) = IF request[b].write THEN "writing" ELSE "reading"
       /\ request[b].done => InSync(b)

StoreInv == DiskTypes /\ \A b \in Buf : BufSound(b)

\* What the steps below use of the cache's invariant.
Known ==
  /\ holder \in [Buf -> User \cup {Nobody}]
  /\ blockno \in [Buf -> Block \cup {NoBlock}]
  /\ at \in [User -> [pc : Places, b : Buf \cup {Nobody}]]
  /\ \A p \in User, b \in Buf : holder[b] = p <=> at[p].pc \in Holding /\ at[p].b = b
  /\ \A p \in User : at[p].pc # "away" => at[p].b \in Buf /\ blockno[at[p].b] \in Block
  /\ OneBufferPerBlock
  /\ \A b \in Victim : b \in Buf /\ Users(b) = {} /\ blockno[b] \notin pinned

\* All of it follows from the invariant; a victim of bget() is free of users and pins.
LEMMA KnownHolds == CacheInv => Known
<1> SUFFICES ASSUME CacheInv PROVE Known
  OBVIOUS
<1>1. /\ holder \in [Buf -> User \cup {Nobody}]
      /\ blockno \in [Buf -> Block \cup {NoBlock}]
      /\ at \in [User -> [pc : Places, b : Buf \cup {Nobody}]]
      /\ OneBufferPerBlock
      /\ \A p \in User, b \in Buf : holder[b] = p <=> at[p].pc \in Holding /\ at[p].b = b
  BY Zenon DEF CacheInv, CacheSound, Types, Whereabouts
<1>2. \A p \in User : at[p].pc # "away" => at[p].b \in Buf /\ blockno[at[p].b] \in Block
  BY DEF CacheInv, Types, Whereabouts
<1>3. \A b \in Victim : b \in Buf /\ refcnt[b] = 0
  BY DEF CacheInv, Types, Victim, Unused
<1>4. \A b \in Victim : Users(b) = {} /\ blockno[b] \notin pinned
  BY <1>3, FreeIsFree DEF CacheInv, CacheSound
<1> QED BY <1>1, <1>2, <1>3, <1>4 DEF Known

\* Likewise after a step.
LEMMA KnownKept == CacheInv' => Known'
BY KnownHolds, PTL

\* What the users of the cache see: the contents and the owner of every block, as
\* the refinement mapping of module BCache has them.
Contents == [k \in Block |->
               IF Cached(k) THEN data[CHOOSE b \in Buf : blockno[b] = k /\ valid[b]]
               ELSE sector[k]]
Owner == [k \in Block |->
            IF Using(k) = {} THEN Nobody ELSE CHOOSE p \in Using(k) : TRUE]

\* The same, read off the buffer of a block.
Shows(b) == IF valid[b] THEN data[b] ELSE sector[blockno[b]]
OwnedBy(b) == IF Stage(b) \in InUse THEN holder[b] ELSE Nobody

View ==
  \A k \in Block :
    /\ \A b \in Buf : blockno[b] = k => Contents[k] = Shows(b) /\ Owner[k] = OwnedBy(b)
    /\ (\A b \in Buf : blockno[b] # k) => Contents[k] = sector[k] /\ Owner[k] = Nobody

\* A block is in one buffer at most, so both ways of looking agree.
LEMMA ViewHolds == Known => View
<1> SUFFICES ASSUME Known, NEW k \in Block
             PROVE  /\ \A b \in Buf : blockno[b] = k => Contents[k] = Shows(b) /\ Owner[k] = OwnedBy(b)
                    /\ (\A b \in Buf : blockno[b] # k) => Contents[k] = sector[k] /\ Owner[k] = Nobody
  BY DEF View
<1>1. \A p \in User : p \in Using(k) <=> \E b \in Buf : /\ blockno[b] = k
                                                      /\ Stage(b) \in InUse
                                                      /\ holder[b] = p
  <2> SUFFICES ASSUME NEW p \in User
               PROVE  p \in Using(k) <=> \E b \in Buf : /\ blockno[b] = k
                                                      /\ Stage(b) \in InUse
                                                      /\ holder[b] = p
    OBVIOUS
  <2>1. ASSUME p \in Using(k)
        PROVE  at[p].b \in Buf /\ holder[at[p].b] = p /\ at[p].pc \in InUse /\ blockno[at[p].b] = k
    BY <2>1 DEF Using, InUse, Known, Holding
  <2>2. ASSUME NEW b \in Buf, blockno[b] = k, Stage(b) \in InUse, holder[b] = p
        PROVE  p \in Using(k)
    BY <2>2, UserFacts DEF Using, InUse, Known, Stage
  <2> QED BY <2>1, <2>2, UserFacts DEF Stage
<1>2. ASSUME NEW b \in Buf, blockno[b] = k
      PROVE  Contents[k] = Shows(b) /\ Owner[k] = OwnedBy(b)
  <2>1. \A c \in Buf : blockno[c] = k => c = b
    BY <1>2, BlockAssumption DEF Known, OneBufferPerBlock
  <2>2. Contents[k] = Shows(b)
    <3>1. CASE valid[b]
      <4>1. (CHOOSE c \in Buf : blockno[c] = k /\ valid[c]) = b
        BY <1>2, <2>1, <3>1
      <4> QED BY <1>2, <3>1, <4>1 DEF Contents, Cached, Shows
    <3>2. CASE ~valid[b]
      BY <1>2, <2>1, <3>2 DEF Contents, Cached, Shows
    <3> QED BY <3>1, <3>2
  <2>3. Owner[k] = OwnedBy(b)
    <3>1. CASE Stage(b) \in InUse
      <4>1. holder[b] \in User
        BY <3>1 DEF Stage, InUse, Known
      <4>2. Using(k) = {holder[b]}
        <5>1. \A p \in User : p \in Using(k) <=> p = holder[b]
          BY <1>1, <1>2, <2>1, <3>1, Zenon
        <5> QED BY <4>1, <5>1 DEF Using
      <4> QED BY <3>1, <4>2 DEF Owner, OwnedBy
    <3>2. CASE Stage(b) \notin InUse
      <4>1. Using(k) = {}
        BY <1>1, <2>1, <3>2, Zenon DEF Using
      <4> QED BY <3>2, <4>1 DEF Owner, OwnedBy
    <3> QED BY <3>1, <3>2
  <2> QED BY <2>2, <2>3
<1>3. ASSUME \A b \in Buf : blockno[b] # k
      PROVE  Contents[k] = sector[k] /\ Owner[k] = Nobody
  <2>1. Using(k) = {}
    BY <1>1, <1>3, Zenon DEF Using
  <2> QED BY <1>3, <2>1 DEF Contents, Cached, Owner
<1> QED BY <1>2, <1>3

\* Likewise after a step.
LEMMA ViewKept == Known' => View'
BY ViewHolds, PTL

StoreStep == [Blocks!StoreNext]_(Blocks!storeVars)

\* Both are tables of the blocks.
LEMMA Tables ==
  /\ Contents = [k \in Block |-> Contents[k]]
  /\ Owner = [k \in Block |-> Owner[k]]
<1>1. Contents = [k \in Block |-> Contents[k]]
  BY DEF Contents
<1>2. Owner = [k \in Block |-> Owner[k]]
  BY DEF Owner
<1> QED BY <1>1, <1>2

\* Nothing is seen of a step that changes neither the contents nor the owner of a block.
LEMMA Unseen ==
  ASSUME \A k \in Block : Contents'[k] = Contents[k] /\ Owner'[k] = Owner[k]
  PROVE  Contents' = Contents /\ Owner' = Owner /\ StoreStep
<1>1. (/\ Contents = [k \in Block |-> Contents[k]]
       /\ Owner = [k \in Block |-> Owner[k]])'
  BY Tables, PTL
<1>2. Contents' = Contents /\ Owner' = Owner
  BY Tables, <1>1, Zenon
<1> QED BY <1>2, Zenon DEF StoreStep, Blocks!storeVars, Contents, Owner


\* Nor of one after which every buffer shows what it did.
LEMMA SameView ==
  ASSUME View, View', blockno' = blockno, sector' = sector,
         \A b \in Buf : Shows(b)' = Shows(b) /\ OwnedBy(b)' = OwnedBy(b)
  PROVE  StoreStep
<1>1. ASSUME NEW k \in Block
      PROVE  Contents'[k] = Contents[k] /\ Owner'[k] = Owner[k]
  <2>1. CASE \A b \in Buf : blockno[b] # k
    BY <2>1, Zenon DEF View
  <2>2. CASE \E b \in Buf : blockno[b] = k
    BY <2>2 DEF View
  <2> QED BY <2>1, <2>2
<1> QED BY <1>1, Unseen
-----------------------------------------------------------------------------
\* A step at one buffer: the other buffers, and the disk but for the block of this
\* one, stay as they are.
Frame(c) ==
  /\ blockno[c] \in Block /\ blockno' = blockno
  /\ \A b \in Buf \ {c} : /\ valid'[b] = valid[b] /\ data'[b] = data[b]
                          /\ request'[b] = request[b] /\ holder'[b] = holder[b]
                          /\ Stage(b)' = Stage(b)
  /\ \A k \in Block \ {blockno[c]} : sector'[k] = sector[k] /\ (k \in pinned' <=> k \in pinned)

\* It keeps the invariant if it keeps it for that buffer.
LEMMA FrameSound ==
  ASSUME Known, StoreInv, NEW c \in Buf, Frame(c), BufSound(c)', DiskTypes'
  PROVE  StoreInv'
<1> SUFFICES ASSUME NEW b \in Buf \ {c} PROVE BufSound(b)'
  BY DEF StoreInv
<1>1. blockno'[b] = blockno[b]
  BY DEF Frame
<1>2. BufSound(b) /\ DiskTypes
  BY DEF StoreInv
<1>3. ASSUME blockno[b] \in Block
      PROVE  /\ InSync(b)' <=> InSync(b)
             /\ blockno'[b] \in pinned' <=> blockno[b] \in pinned
  <2>1. blockno[b] # blockno[c]
    BY BlockAssumption DEF Known, OneBufferPerBlock, Frame
  <2> QED BY <1>1, <1>3, <2>1 DEF Frame, InSync
<1>4. request[b] # NoRequest => request[b].block \in Block
  BY <1>2 DEF DiskTypes
<1>5. /\ valid'[b] <=> valid[b]
      /\ request'[b] = request[b] /\ Stage(b)' = Stage(b)
  BY DEF Frame
<1>6. CASE blockno[b] \in Block
  BY <1>1, <1>2, <1>3, <1>5, <1>6 DEF BufSound
<1>7. CASE blockno[b] \notin Block
  BY <1>1, <1>2, <1>4, <1>5, <1>7 DEF BufSound, InUse
<1> QED BY <1>6, <1>7

\* And the users of the cache see no more than what that buffer shows.
LEMMA FrameView ==
  ASSUME Known, View, View', NEW c \in Buf, Frame(c)
  PROVE  /\ Contents' = [Contents EXCEPT ![blockno[c]] = Shows(c)']
         /\ Owner' = [Owner EXCEPT ![blockno[c]] = OwnedBy(c)']
         /\ Contents[blockno[c]] = Shows(c) /\ Owner[blockno[c]] = OwnedBy(c)
<1>1. View /\ View'
  OBVIOUS
<1>2. blockno[c] \in Block /\ blockno' = blockno
  BY DEF Frame
<1>3. ASSUME NEW k \in Block, k # blockno[c]
      PROVE  Contents'[k] = Contents[k] /\ Owner'[k] = Owner[k]
  <2>1. CASE \A b \in Buf : blockno[b] # k
    BY <1>1, <1>2, <1>3, <2>1 DEF View, Frame
  <2>2. CASE \E b \in Buf : blockno[b] = k
    <3>1. PICK b \in Buf : blockno[b] = k
      BY <2>2
    <3>2. Shows(b)' = Shows(b) /\ OwnedBy(b)' = OwnedBy(b)
      BY <1>2, <1>3, <3>1 DEF Frame, Shows, OwnedBy
    <3> QED BY <1>1, <1>2, <3>1, <3>2 DEF View
  <2> QED BY <2>1, <2>2
<1>4. Contents'[blockno[c]] = Shows(c)' /\ Owner'[blockno[c]] = OwnedBy(c)'
  BY <1>1, <1>2 DEF View
<1>5. Contents[blockno[c]] = Shows(c) /\ Owner[blockno[c]] = OwnedBy(c)
  BY <1>1, <1>2 DEF View
<1>6. (/\ Contents = [k \in Block |-> Contents[k]]
       /\ Owner = [k \in Block |-> Owner[k]])'
  BY Tables, PTL
<1> QED BY <1>2, <1>3, <1>4, <1>5, <1>6, Tables

\* Such a step is a step of the block store, or none, by what the buffer shows of it.
SeenAs(c, p) ==
  \/ Shows(c)' = Shows(c) /\ OwnedBy(c)' = OwnedBy(c)
  \/ Shows(c)' = Shows(c) /\ OwnedBy(c) = Nobody /\ OwnedBy(c)' = p
  \/ Shows(c)' = Shows(c) /\ OwnedBy(c) = p /\ OwnedBy(c)' = Nobody
  \/ Shows(c)' \in Data /\ OwnedBy(c) = p /\ OwnedBy(c)' = p

\* One case for each of Take, Give and Change, and one for a step that is not seen.
LEMMA SeenStep ==
  ASSUME Known, View, View', NEW c \in Buf, Frame(c), NEW p \in User, SeenAs(c, p)
  PROVE  StoreStep
<1>0. PICK k \in Block : k = blockno[c]
  BY DEF Frame
<1>1. /\ Contents' = [Contents EXCEPT ![k] = Shows(c)'] /\ Contents[k] = Shows(c)
      /\ Owner' = [Owner EXCEPT ![k] = OwnedBy(c)'] /\ Owner[k] = OwnedBy(c)
  BY <1>0, FrameView
<1>2. /\ Contents = [j \in Block |-> Contents[j]]
      /\ Owner = [j \in Block |-> Owner[j]]
  BY Tables
<1>3. Shows(c)' = Shows(c) => Contents' = Contents
  BY <1>0, <1>1, <1>2
<1>4. OwnedBy(c)' = OwnedBy(c) => Owner' = Owner
  BY <1>0, <1>1, <1>2
<1>5. CASE Shows(c)' = Shows(c) /\ OwnedBy(c)' = OwnedBy(c)
  BY <1>3, <1>4, <1>5, Unseen
<1>6. CASE Shows(c)' = Shows(c) /\ OwnedBy(c) = Nobody /\ OwnedBy(c)' = p
  <2>1. Owner[k] = Nobody /\ Owner' = [Owner EXCEPT ![k] = p] /\ Contents' = Contents
    BY <1>1, <1>3, <1>6
  <2>2. Blocks!Take(p, k)
    BY <2>1, Zenon DEF Blocks!Take, Contents, Owner
  <2> QED BY <1>0, <2>2 DEF StoreStep, Blocks!StoreNext
<1>7. CASE Shows(c)' = Shows(c) /\ OwnedBy(c) = p /\ OwnedBy(c)' = Nobody
  <2>1. Owner[k] = p /\ Owner' = [Owner EXCEPT ![k] = Nobody] /\ Contents' = Contents
    BY <1>1, <1>3, <1>7
  <2>2. Blocks!Give(p, k)
    BY <2>1, Zenon DEF Blocks!Give, Contents, Owner
  <2> QED BY <1>0, <2>2 DEF StoreStep, Blocks!StoreNext
<1>8. CASE Shows(c)' \in Data /\ OwnedBy(c) = p /\ OwnedBy(c)' = p
  <2>0. PICK x \in Data : x = Shows(c)'
    BY <1>8
  <2>1. Owner[k] = p /\ Owner' = Owner /\ Contents' = [Contents EXCEPT ![k] = x]
    BY <1>1, <1>4, <1>8, <2>0
  <2>2. Blocks!Change(p, k, x)
    BY <2>1 DEF Blocks!Change, Contents, Owner
  <2>3. Blocks!StoreNext
    BY <1>0, <2>2 DEF Blocks!StoreNext
  <2> QED BY <2>3 DEF StoreStep
<1> QED BY <1>5, <1>6, <1>7, <1>8 DEF SeenAs

\* Only a step of the holder, or one that gives or takes the lock, changes where the
\* holder of a buffer is.
LEMMA StageKept ==
  ASSUME Known, NEW p \in User, NEW c \in Buf,
         \A q \in User \ {p} : at[q].pc \in Holding => at'[q] = at[q],
         \A b \in Buf \ {c} : holder'[b] = holder[b] /\ holder[b] # p
  PROVE  \A b \in Buf \ {c} : Stage(b)' = Stage(b)
<1> SUFFICES ASSUME NEW b \in Buf \ {c}
             PROVE  Stage(b)' = Stage(b)
  OBVIOUS
<1>1. holder[b] # Nobody => holder[b] \in User \ {p} /\ at[holder[b]].pc \in Holding
  BY DEF Known
<1> QED BY <1>1 DEF Stage

\* The holder of a buffer moves on.
LEMMA HolderMoves ==
  ASSUME Known, NEW p \in User, at[p].pc \in Holding, NEW c, c = at[p].b,
         NEW x, Go(p, x), holder' = holder
  PROVE  /\ c \in Buf /\ blockno[c] \in Block
         /\ holder[c] = p
         /\ Stage(c) = at[p].pc /\ Stage(c)' = x
         /\ \A b \in Buf \ {c} : Stage(b)' = Stage(b)
<1>1. c \in Buf /\ blockno[c] \in Block /\ holder[c] = p
  BY DEF Known, Holding
<1>2. p # Nobody
  BY UserFacts
<1>3. at'[p].pc = x /\ \A q \in User \ {p} : at'[q] = at[q]
  BY DEF Go, Known
<1>4. Stage(c) = at[p].pc /\ Stage(c)' = x
  BY <1>1, <1>2, <1>3 DEF Stage
<1>5. \A b \in Buf \ {c} : holder'[b] = holder[b] /\ holder[b] # p
  BY DEF Known
<1>6. \A b \in Buf \ {c} : Stage(b)' = Stage(b)
  BY <1>1, <1>3, <1>5, StageKept
<1> QED BY <1>1, <1>4, <1>6
-----------------------------------------------------------------------------
(* Steps of bread(), bwrite() and their callers, and of the disk           *)

\* bread() of a valid buffer is a Take (bio.c:97-102).
LEMMA BreadCachedStore ==
  ASSUME Known, View, View', StoreInv, NEW p \in User, BreadCached(p)
  PROVE  StoreInv' /\ StoreStep
<1>0. PICK c : c = at[p].b
  OBVIOUS
<1>1. /\ c \in Buf /\ blockno[c] \in Block /\ holder[c] = p
      /\ Stage(c) = "locked" /\ Stage(c)' = "have"
      /\ \A b \in Buf \ {c} : Stage(b)' = Stage(b)
  BY <1>0, HolderMoves DEF BreadCached, Holding
<1>2. valid[c] /\ UNCHANGED <<blockno, valid, holder, pinned, sector, data, request>>
  BY <1>0 DEF BreadCached, diskVars
<1>3. Frame(c)
  BY <1>1, <1>2 DEF Frame
<1>4. BufSound(c)' /\ DiskTypes'
  BY <1>1, <1>2 DEF StoreInv, BufSound, DiskTypes, InSync, InUse
<1>5. SeenAs(c, p)
  BY <1>1, <1>2 DEF SeenAs, Shows, OwnedBy, InUse
<1> QED BY <1>1, <1>3, <1>4, <1>5, FrameSound, SeenStep

\* bread() asks the disk for the block: not seen (bio.c:99).
LEMMA BreadStartStore ==
  ASSUME Known, View, View', StoreInv, NEW p \in User, BreadStart(p)
  PROVE  StoreInv' /\ StoreStep
<1>0. PICK c : c = at[p].b
  OBVIOUS
<1>1. /\ c \in Buf /\ blockno[c] \in Block /\ holder[c] = p
      /\ Stage(c) = "locked" /\ Stage(c)' = "reading"
      /\ \A b \in Buf \ {c} : Stage(b)' = Stage(b)
  BY <1>0, HolderMoves DEF BreadStart, Holding
<1>2. /\ ~valid[c] /\ UNCHANGED <<blockno, valid, holder, pinned, sector>>
      /\ request' = [request EXCEPT ![c] = [write |-> FALSE, block |-> blockno[c], done |-> FALSE]]
      /\ data' = [data EXCEPT ![c] = data[c]]
  BY <1>0 DEF BreadStart, Submit
<1>3. data' = data
  BY <1>2 DEF StoreInv, DiskTypes
<1>4. Frame(c)
  BY <1>1, <1>2, <1>3 DEF Frame, StoreInv, DiskTypes
<1>5. DiskTypes'
  BY <1>1, <1>2, <1>3 DEF StoreInv, DiskTypes
<1>6. BufSound(c)'
  BY <1>1, <1>2, <1>3 DEF StoreInv, BufSound, DiskTypes, InSync, InUse
<1>7. SeenAs(c, p)
  BY <1>1, <1>2, <1>3 DEF SeenAs, Shows, OwnedBy, InUse
<1> QED BY <1>1, <1>4, <1>5, <1>6, <1>7, FrameSound, SeenStep

\* The read is over and the buffer shows what the disk has: a Take (bio.c:99-102).
LEMMA BreadDoneStore ==
  ASSUME Known, View, View', StoreInv, NEW p \in User, BreadDone(p)
  PROVE  StoreInv' /\ StoreStep
<1>0. PICK c : c = at[p].b
  OBVIOUS
<1>1. /\ c \in Buf /\ blockno[c] \in Block /\ holder[c] = p
      /\ Stage(c) = "reading" /\ Stage(c)' = "have"
      /\ \A b \in Buf \ {c} : Stage(b)' = Stage(b)
  BY <1>0, HolderMoves DEF BreadDone, Holding
<1>2. /\ request[c] # NoRequest /\ request[c].done
      /\ request' = [request EXCEPT ![c] = NoRequest]
      /\ valid' = [valid EXCEPT ![c] = TRUE]
      /\ UNCHANGED <<blockno, holder, pinned, sector, data>>
  BY <1>0 DEF BreadDone, Return
<1>3. ~valid[c] /\ data[c] = sector[blockno[c]]
  BY <1>1, <1>2 DEF StoreInv, BufSound, InSync
<1>4. Frame(c)
  BY <1>1, <1>2 DEF Frame, StoreInv, DiskTypes
<1>5. DiskTypes'
  BY <1>1, <1>2 DEF StoreInv, DiskTypes
<1>6. BufSound(c)'
  BY <1>1, <1>2, <1>3 DEF StoreInv, BufSound, DiskTypes, InSync, InUse
<1>7. SeenAs(c, p)
  BY <1>1, <1>2, <1>3 DEF SeenAs, Shows, OwnedBy, InUse, StoreInv, DiskTypes
<1> QED BY <1>1, <1>4, <1>5, <1>6, <1>7, FrameSound, SeenStep

\* The user changes the buffer it holds: a Change.
LEMMA WriteStore ==
  ASSUME Known, View, View', StoreInv, NEW p \in User, NEW v \in Data, Write(p, v)
  PROVE  StoreInv' /\ StoreStep
<1>0. PICK c : c = at[p].b
  OBVIOUS
<1>1. /\ c \in Buf /\ blockno[c] \in Block /\ holder[c] = p
      /\ Stage(c) \in {"have", "dirty"} /\ Stage(c)' = "dirty"
      /\ \A b \in Buf \ {c} : Stage(b)' = Stage(b)
  BY <1>0, HolderMoves DEF Write, Holding
<1>2. /\ request[c] = NoRequest
      /\ data' = [data EXCEPT ![c] = v]
      /\ UNCHANGED <<blockno, valid, holder, pinned, sector, request>>
  BY <1>0 DEF Write, Store
<1>3. valid[c]
  BY <1>1 DEF StoreInv, BufSound, InUse
<1>4. Frame(c)
  BY <1>1, <1>2 DEF Frame, StoreInv, DiskTypes
<1>5. DiskTypes'
  BY <1>1, <1>2 DEF StoreInv, DiskTypes
<1>6. BufSound(c)'
  BY <1>1, <1>2, <1>3 DEF StoreInv, BufSound, DiskTypes, InSync, InUse
<1>7. SeenAs(c, p)
  BY <1>1, <1>2, <1>3 DEF SeenAs, Shows, OwnedBy, InUse, StoreInv, DiskTypes
<1> QED BY <1>1, <1>4, <1>5, <1>6, <1>7, FrameSound, SeenStep

\* bwrite() asks the disk to write the block: not seen (bio.c:107-112).
LEMMA BwriteStartStore ==
  ASSUME Known, View, View', StoreInv, NEW p \in User, BwriteStart(p)
  PROVE  StoreInv' /\ StoreStep
<1>0. PICK c : c = at[p].b
  OBVIOUS
<1>1. /\ c \in Buf /\ blockno[c] \in Block /\ holder[c] = p
      /\ Stage(c) \in {"have", "dirty"} /\ Stage(c)' = "writing"
      /\ \A b \in Buf \ {c} : Stage(b)' = Stage(b)
  BY <1>0, HolderMoves DEF BwriteStart, Holding
<1>2. /\ UNCHANGED <<blockno, valid, holder, pinned, sector>>
      /\ request' = [request EXCEPT ![c] = [write |-> TRUE, block |-> blockno[c], done |-> FALSE]]
      /\ data' = [data EXCEPT ![c] = data[c]]
  BY <1>0 DEF BwriteStart, Submit
<1>3. data' = data /\ valid[c]
  BY <1>1, <1>2 DEF StoreInv, DiskTypes, BufSound, InUse
<1>4. Frame(c)
  BY <1>1, <1>2, <1>3 DEF Frame, StoreInv, DiskTypes
<1>5. DiskTypes'
  BY <1>1, <1>2, <1>3 DEF StoreInv, DiskTypes
<1>6. BufSound(c)'
  BY <1>1, <1>2, <1>3 DEF StoreInv, BufSound, DiskTypes, InSync, InUse
<1>7. SeenAs(c, p)
  BY <1>1, <1>2, <1>3 DEF SeenAs, Shows, OwnedBy, InUse
<1> QED BY <1>1, <1>4, <1>5, <1>6, <1>7, FrameSound, SeenStep

\* The write is over and the disk has what the buffer shows: not seen.
LEMMA BwriteDoneStore ==
  ASSUME Known, View, View', StoreInv, NEW p \in User, BwriteDone(p)
  PROVE  StoreInv' /\ StoreStep
<1> DEFINE x == IF blockno[at[p].b] \in pinned THEN "written" ELSE "have"
<1>0. PICK c : c = at[p].b
  OBVIOUS
<1>y. at[p].pc = "writing" /\ Go(p, x) /\ holder' = holder
  BY DEF BwriteDone
<1>1. /\ c \in Buf /\ blockno[c] \in Block /\ holder[c] = p
      /\ Stage(c) = "writing" /\ Stage(c)' = x
      /\ \A b \in Buf \ {c} : Stage(b)' = Stage(b)
  BY <1>0, <1>y, HolderMoves DEF Holding
<1>2. /\ request[c] # NoRequest /\ request[c].done
      /\ request' = [request EXCEPT ![c] = NoRequest]
      /\ UNCHANGED <<blockno, valid, holder, pinned, sector, data>>
  BY <1>0 DEF BwriteDone, Return
<1>x. Stage(c)' \in {"written", "have"}
  BY <1>1
<1> HIDE DEF x
<1>3. valid[c] /\ data[c] = sector[blockno[c]]
  BY <1>1, <1>2 DEF StoreInv, BufSound, InSync, InUse
<1>4. Frame(c)
  BY <1>1, <1>2 DEF Frame, StoreInv, DiskTypes
<1>5. DiskTypes'
  BY <1>1, <1>2 DEF StoreInv, DiskTypes
<1>6. BufSound(c)'
  BY <1>1, <1>x, <1>2, <1>3 DEF StoreInv, BufSound, DiskTypes, InSync, InUse
<1>7. SeenAs(c, p)
  BY <1>1, <1>x, <1>2, <1>3 DEF SeenAs, Shows, OwnedBy, InUse
<1> QED BY <1>1, <1>4, <1>5, <1>6, <1>7, FrameSound, SeenStep

\* A dirty buffer may be given back once its block is pinned: not seen (log.c:224-233).
LEMMA BpinStore ==
  ASSUME Known, View, View', StoreInv, NEW p \in User, Bpin(p)
  PROVE  StoreInv' /\ StoreStep
<1>0. PICK c : c = at[p].b
  OBVIOUS
<1>1. /\ c \in Buf /\ blockno[c] \in Block /\ holder[c] = p
      /\ Stage(c) = "dirty" /\ Stage(c)' = "have"
      /\ \A b \in Buf \ {c} : Stage(b)' = Stage(b)
  BY <1>0, HolderMoves DEF Bpin, Holding
<1>2. /\ pinned' = pinned \cup {blockno[c]}
      /\ UNCHANGED <<blockno, valid, holder, sector, data, request>>
  BY <1>0 DEF Bpin, diskVars
<1>3. Frame(c)
  BY <1>1, <1>2 DEF Frame
<1>4. BufSound(c)' /\ DiskTypes'
  BY <1>1, <1>2 DEF StoreInv, BufSound, DiskTypes, InSync, InUse
<1>5. SeenAs(c, p)
  BY <1>1, <1>2 DEF SeenAs, Shows, OwnedBy, InUse
<1> QED BY <1>1, <1>3, <1>4, <1>5, FrameSound, SeenStep

\* A block is unpinned when the disk has it: not seen (log.c:67-83).
LEMMA BunpinStore ==
  ASSUME Known, View, View', StoreInv, NEW p \in User, Bunpin(p)
  PROVE  StoreInv' /\ StoreStep
<1>0. PICK c : c = at[p].b
  OBVIOUS
<1>1. /\ c \in Buf /\ blockno[c] \in Block /\ holder[c] = p
      /\ Stage(c) = "written" /\ Stage(c)' = "have"
      /\ \A b \in Buf \ {c} : Stage(b)' = Stage(b)
  BY <1>0, HolderMoves DEF Bunpin, Holding
<1>2. /\ pinned' = pinned \ {blockno[c]}
      /\ UNCHANGED <<blockno, valid, holder, sector, data, request>>
  BY <1>0 DEF Bunpin, diskVars
<1>3. Frame(c)
  BY <1>1, <1>2 DEF Frame
<1>4. BufSound(c)' /\ DiskTypes'
  BY <1>1, <1>2 DEF StoreInv, BufSound, DiskTypes, InSync, InUse
<1>5. SeenAs(c, p)
  BY <1>1, <1>2 DEF SeenAs, Shows, OwnedBy, InUse
<1> QED BY <1>1, <1>3, <1>4, <1>5, FrameSound, SeenStep

\* The disk writes what the buffer shows already, or fills one that shows nothing yet.
LEMMA DiskStore ==
  ASSUME Known, View, View', StoreInv, NEW c \in Buf, DiskStep(c)
  PROVE  StoreInv' /\ StoreStep
<1>1. /\ request[c] # NoRequest /\ ~request[c].done
      /\ request' = [request EXCEPT ![c].done = TRUE]
      /\ UNCHANGED <<blockno, valid, holder, pinned, at>>
  BY DEF DiskStep, Transfer
<1>2. /\ request[c] \in [write : BOOLEAN, block : Block, done : BOOLEAN]
      /\ request[c].block = blockno[c] /\ blockno[c] \in Block
  BY <1>1 DEF StoreInv, DiskTypes, BufSound
<1>3. \A b \in Buf : Stage(b)' = Stage(b)
  BY <1>1 DEF Stage
<1>4. PICK p \in User : holder[c] = p
  BY <1>1 DEF StoreInv, BufSound, Stage, Known
<1>5. /\ request'[c] # NoRequest
      /\ request'[c].block = blockno[c] /\ request'[c].write = request[c].write
      /\ request'[c] \in [write : BOOLEAN, block : Block, done : BOOLEAN]
  <2>1. request'[c] = [request[c] EXCEPT !.done = TRUE]
    BY <1>1 DEF StoreInv, DiskTypes
  <2> QED BY <1>2, <2>1, RequestAssumption
<1>6. request' \in [Buf -> [write : BOOLEAN, block : Block, done : BOOLEAN] \cup {NoRequest}]
  BY <1>1, <1>5 DEF StoreInv, DiskTypes
<1>7. CASE request[c].write
  <2>1. sector' = [sector EXCEPT ![blockno[c]] = data[c]] /\ data' = data
    BY <1>2, <1>7 DEF DiskStep, Transfer
  <2>2. Stage(c) = "writing" /\ valid[c]
    BY <1>1, <1>7 DEF StoreInv, BufSound, InUse
  <2>3. Frame(c)
    BY <1>1, <1>2, <1>3, <2>1 DEF Frame, StoreInv, DiskTypes
  <2>4. DiskTypes'
    BY <1>1, <1>2, <1>6, <2>1 DEF StoreInv, DiskTypes
  <2>5. BufSound(c)'
    <3>1. InSync(c)'
      BY <1>1, <1>2, <2>1 DEF StoreInv, DiskTypes, InSync
    <3> QED BY <1>1, <1>2, <1>3, <1>5, <1>7, <2>2, <3>1 DEF BufSound, InUse
  <2>6. SeenAs(c, p)
    BY <1>1, <1>3, <2>1, <2>2 DEF SeenAs, Shows, OwnedBy
  <2> QED BY <2>3, <2>4, <2>5, <2>6, FrameSound, SeenStep
<1>8. CASE ~request[c].write
  <2>1. data' = [data EXCEPT ![c] = sector[blockno[c]]] /\ sector' = sector
    BY <1>2, <1>8 DEF DiskStep, Transfer
  <2>2. Stage(c) = "reading" /\ ~valid[c]
    BY <1>1, <1>8 DEF StoreInv, BufSound
  <2>3. Frame(c)
    BY <1>1, <1>2, <1>3, <2>1 DEF Frame, StoreInv, DiskTypes
  <2>4. DiskTypes'
    BY <1>1, <1>2, <1>6, <2>1 DEF StoreInv, DiskTypes
  <2>5. BufSound(c)'
    <3>1. InSync(c)'
      BY <1>1, <1>2, <2>1 DEF StoreInv, DiskTypes, InSync
    <3> QED BY <1>1, <1>2, <1>3, <1>5, <1>8, <2>2, <3>1 DEF BufSound, InUse
  <2>6. SeenAs(c, p)
    BY <1>1, <1>3, <2>1, <2>2 DEF SeenAs, Shows, OwnedBy
  <2> QED BY <2>3, <2>4, <2>5, <2>6, FrameSound, SeenStep
<1> QED BY <1>7, <1>8
-----------------------------------------------------------------------------
(* Steps of bget(), the sleep-locks and brelse()                           *)

\* A process comes to a buffer, goes to sleep or leaves: nothing is seen.
LEMMA OutsideStore ==
  ASSUME Known, View, View', StoreInv, NEW p \in User, at[p].pc \notin Holding,
         \A q \in User \ {p} : at'[q] = at[q],
         UNCHANGED <<blockno, valid, holder, pinned, sector, data, request>>
  PROVE  StoreInv' /\ StoreStep
<1>1. \A b \in Buf : holder[b] # p
  BY DEF Known
<1>2. \A b \in Buf : Stage(b)' = Stage(b)
  <2> TAKE b \in Buf
  <2>1. holder[b] # Nobody => holder[b] \in User \ {p}
    BY <1>1 DEF Known
  <2> QED BY <2>1 DEF Stage
<1>3. StoreInv'
  BY <1>2 DEF StoreInv, BufSound, DiskTypes, InSync
<1>4. \A b \in Buf : Shows(b)' = Shows(b) /\ OwnedBy(b)' = OwnedBy(b)
  BY <1>2 DEF Shows, OwnedBy
<1> QED BY <1>3, <1>4, SameView

\* Taking the lock is not seen: the block is not there yet.
LEMMA AcquireStore ==
  ASSUME Known, View, View', StoreInv, NEW p \in User, AcquireSleep(p)
  PROVE  StoreInv' /\ StoreStep
<1>0. PICK c \in Buf : c = at[p].b
  BY DEF AcquireSleep, Known
<1>1. /\ at[p].pc = "lock" /\ blockno[c] \in Block
      /\ UNCHANGED <<blockno, valid, pinned, sector, data, request>>
  BY <1>0 DEF AcquireSleep, Known, diskVars
<1>2. \A q \in User \ {p} : at'[q] = at[q]
  BY DEF AcquireSleep, Go, Known
<1>3. CASE holder[c] # Nobody
  <2>1. holder' = holder
    BY <1>0, <1>3 DEF AcquireSleep
  <2> QED BY <1>1, <1>2, <2>1, OutsideStore DEF Holding
<1>4. CASE holder[c] = Nobody
  <2>1. holder' = [holder EXCEPT ![c] = p] /\ Go(p, "locked")
    BY <1>0, <1>4 DEF AcquireSleep
  <2>2. Stage(c) = "free" /\ Stage(c)' = "locked"
    BY <1>4, <2>1, UserFacts DEF Stage, Go, Known
  <2>3. \A b \in Buf \ {c} : holder'[b] = holder[b] /\ holder[b] # p
    BY <1>1, <2>1 DEF Known, Holding
  <2>4. \A b \in Buf \ {c} : Stage(b)' = Stage(b)
    BY <1>2, <2>3, StageKept
  <2>5. Frame(c)
    BY <1>1, <2>3, <2>4 DEF Frame
  <2>6. BufSound(c)' /\ DiskTypes'
    BY <1>1, <2>2 DEF StoreInv, BufSound, DiskTypes, InSync, InUse
  <2>7. SeenAs(c, p)
    BY <1>1, <2>2 DEF SeenAs, Shows, OwnedBy, InUse
  <2> QED BY <2>5, <2>6, <2>7, FrameSound, SeenStep
<1> QED BY <1>3, <1>4

\* releasesleep() in brelse() is a Give (bio.c:122).
LEMMA ReleaseSleepStore ==
  ASSUME Known, View, View', StoreInv, NEW p \in User, ReleaseSleep(p)
  PROVE  StoreInv' /\ StoreStep
<1>0. PICK c \in Buf : c = at[p].b
  BY DEF ReleaseSleep, Known
<1>1. /\ at[p].pc = "have" /\ holder[c] = p /\ blockno[c] \in Block
      /\ holder' = [holder EXCEPT ![c] = Nobody]
      /\ UNCHANGED <<blockno, valid, pinned, sector, data, request>>
  BY <1>0 DEF ReleaseSleep, Known, diskVars
<1>2. \A q \in User \ {p} : at[q].pc \in Holding => at'[q] = at[q]
  BY DEF ReleaseSleep, Wake, Holding
<1>3. \A b \in Buf \ {c} : holder'[b] = holder[b] /\ holder[b] # p
  BY <1>0, <1>1 DEF Known
<1>4. \A b \in Buf \ {c} : Stage(b)' = Stage(b)
  BY <1>2, <1>3, StageKept
<1>5. Stage(c) = "have" /\ Stage(c)' = "free"
  BY <1>1, UserFacts DEF Stage, Known
<1>6. Frame(c)
  BY <1>1, <1>3, <1>4 DEF Frame
<1>7. BufSound(c)' /\ DiskTypes'
  BY <1>1, <1>5 DEF StoreInv, BufSound, DiskTypes, InSync, InUse
<1>8. SeenAs(c, p)
  BY <1>1, <1>5 DEF SeenAs, Shows, OwnedBy, InUse
<1> QED BY <1>6, <1>7, <1>8, FrameSound, SeenStep

\* bget() takes a buffer nobody refers to.  Its old block is on the disk as the
\* buffer had it, or would be pinned or in use: evicting it is not seen.
LEMMA RecycleStore ==
  ASSUME Known, View, View', StoreInv,
         NEW p \in User, NEW k \in Block, BgetRecycle(p, k)
  PROVE  StoreInv' /\ StoreStep
<1>1. PICK c \in Victim : /\ blockno' = [blockno EXCEPT ![c] = k]
                          /\ valid' = [valid EXCEPT ![c] = FALSE]
                          /\ at' = [at EXCEPT ![p] = [pc |-> "lock", b |-> c]]
  BY Zenon DEF BgetRecycle
<1>2. /\ at[p].pc = "away" /\ \A b \in Buf : blockno[b] # k
      /\ UNCHANGED <<holder, pinned, sector, data, request>>
  BY DEF BgetRecycle, diskVars
<1>3. c \in Buf
  BY <1>1 DEF Known
<1>4. Users(c) = {} /\ blockno[c] \notin pinned
  BY <1>1 DEF Known
<1>5. holder[c] = Nobody
  BY <1>3, <1>4 DEF Known, Users
<1>6. \A b \in Buf : Stage(b)' = Stage(b)
  <2> TAKE b \in Buf
  <2>1. holder[b] # p
    BY <1>2 DEF Known, Holding
  <2>2. holder[b] # Nobody => holder[b] \in User \ {p}
    BY <2>1 DEF Known
  <2>3. \A q \in User \ {p} : at'[q] = at[q]
    BY <1>1 DEF Known
  <2> QED BY <1>2, <2>2, <2>3 DEF Stage
<1>7. Stage(c) = "free"
  BY <1>5 DEF Stage
<1>8. request[c] = NoRequest /\ (valid[c] => InSync(c))
  BY <1>3, <1>4, <1>7 DEF StoreInv, BufSound
<1>9. \A b \in Buf \ {c} : blockno'[b] = blockno[b] /\ valid'[b] = valid[b]
  BY <1>1 DEF Known, StoreInv, DiskTypes
<1>10. blockno'[c] = k /\ ~valid'[c]
  BY <1>1, <1>3 DEF Known, StoreInv, DiskTypes
<1>11. StoreInv'
  <2>1. DiskTypes'
    BY <1>1, <1>2, <1>3 DEF StoreInv, DiskTypes
  <2>2. BufSound(c)'
    BY <1>2, <1>3, <1>6, <1>7, <1>8, <1>10 DEF BufSound, InUse
  <2>3. ASSUME NEW b \in Buf \ {c} PROVE BufSound(b)'
    <3>1. BufSound(b) /\ (InSync(b)' <=> InSync(b))
      BY <1>2, <1>9 DEF StoreInv, InSync
    <3> QED BY ONLY <1>2, <1>6, <1>9, <3>1 DEF BufSound
  <2> QED BY <2>1, <2>2, <2>3 DEF StoreInv
<1>12. ASSUME NEW j \in Block
       PROVE  Contents'[j] = Contents[j] /\ Owner'[j] = Owner[j]
  <2>1. CASE j = k
    <3>1. Contents[j] = sector[j] /\ Owner[j] = Nobody
      BY <1>2, <2>1, Zenon DEF View
    <3>2. Shows(c)' = sector[j] /\ OwnedBy(c)' = Nobody
      BY <1>2, <1>3, <1>6, <1>7, <1>10, <2>1 DEF Shows, OwnedBy, InUse
    <3> QED BY <1>3, <1>10, <2>1, <3>1, <3>2, Zenon DEF View
  <2>2. CASE j # k /\ j = blockno[c]
    <3>1. Shows(c) = sector[j] /\ OwnedBy(c) = Nobody
      BY <1>7, <1>8, <2>2 DEF Shows, OwnedBy, InUse, InSync
    <3>2. \A b \in Buf : blockno'[b] # j
      BY <1>3, <1>9, <1>10, <2>2, BlockAssumption DEF Known, OneBufferPerBlock
    <3> QED BY <1>2, <1>3, <2>2, <3>1, <3>2, Zenon DEF View
  <2>3. CASE j # k /\ j # blockno[c]
    <3>1. CASE \A b \in Buf : blockno[b] # j
      <4>1. \A b \in Buf : blockno'[b] # j
        BY <1>9, <1>10, <2>3, <3>1
      <4> QED BY <1>2, <3>1, <4>1, Zenon DEF View
    <3>2. CASE \E b \in Buf : blockno[b] = j
      <4>1. PICK b \in Buf \ {c} : blockno[b] = j
        BY <2>3, <3>2
      <4>2. Shows(b)' = Shows(b) /\ OwnedBy(b)' = OwnedBy(b)
        BY <1>2, <1>6, <1>9 DEF Shows, OwnedBy
      <4>3. Contents[j] = Shows(b) /\ Owner[j] = OwnedBy(b)
        BY <4>1 DEF View
      <4>4. Contents'[j] = Shows(b)' /\ Owner'[j] = OwnedBy(b)'
        BY <1>9, <4>1 DEF View
      <4> QED BY <4>2, <4>3, <4>4
    <3> QED BY <3>1, <3>2
  <2> QED BY <2>1, <2>2, <2>3
<1> QED BY <1>11, <1>12, Unseen
-----------------------------------------------------------------------------
\* Every step keeps StoreInv and is a step of the store or is not seen.
LEMMA StoreNextStep ==
  ASSUME Known, View, View', StoreInv, [BCacheNext]_bcacheVars
  PROVE  StoreInv' /\ StoreStep
<1>1. ASSUME NEW p \in User, NEW k \in Block, BgetHit(p, k) PROVE StoreInv' /\ StoreStep
  <2>1. \A q \in User \ {p} : at'[q] = at[q]
    BY <1>1 DEF BgetHit, Known
  <2> QED BY <1>1, <2>1, OutsideStore DEF BgetHit, Holding, diskVars
<1>2. ASSUME NEW p \in User, NEW k \in Block, BgetRecycle(p, k) PROVE StoreInv' /\ StoreStep
  BY <1>2, RecycleStore
<1>3. ASSUME NEW p \in User, NEW k \in Block, BgetPanic(p, k) PROVE StoreInv' /\ StoreStep
  BY <1>3, OutsideStore DEF BgetPanic, Holding, diskVars
<1>4. ASSUME NEW p \in User, AcquireSleep(p) PROVE StoreInv' /\ StoreStep
  BY <1>4, AcquireStore
<1>5. ASSUME NEW p \in User, BreadCached(p) PROVE StoreInv' /\ StoreStep
  BY <1>5, BreadCachedStore
<1>6. ASSUME NEW p \in User, BreadStart(p) PROVE StoreInv' /\ StoreStep
  BY <1>6, BreadStartStore
<1>7. ASSUME NEW p \in User, BreadDone(p) PROVE StoreInv' /\ StoreStep
  BY <1>7, BreadDoneStore
<1>8. ASSUME NEW p \in User, NEW v \in Data, Write(p, v) PROVE StoreInv' /\ StoreStep
  BY <1>8, WriteStore
<1>9. ASSUME NEW p \in User, BwriteStart(p) PROVE StoreInv' /\ StoreStep
  BY <1>9, BwriteStartStore
<1>10. ASSUME NEW p \in User, BwriteDone(p) PROVE StoreInv' /\ StoreStep
  BY <1>10, BwriteDoneStore
<1>11. ASSUME NEW p \in User, Bpin(p) PROVE StoreInv' /\ StoreStep
  BY <1>11, BpinStore
<1>12. ASSUME NEW p \in User, Bunpin(p) PROVE StoreInv' /\ StoreStep
  BY <1>12, BunpinStore
<1>13. ASSUME NEW p \in User, ReleaseSleep(p) PROVE StoreInv' /\ StoreStep
  BY <1>13, ReleaseSleepStore
<1>14. ASSUME NEW p \in User, Brelse(p) PROVE StoreInv' /\ StoreStep
  <2>1. \A q \in User \ {p} : at'[q] = at[q]
    BY <1>14 DEF Brelse, Known
  <2> QED BY <1>14, <2>1, OutsideStore DEF Brelse, Holding, diskVars
<1>15. ASSUME NEW b \in Buf, DiskStep(b) PROVE StoreInv' /\ StoreStep
  BY <1>15, DiskStore
<1>16. ASSUME UNCHANGED bcacheVars PROVE StoreInv' /\ StoreStep
  <2>1. UNCHANGED <<blockno, valid, holder, pinned, at, sector, data, request>>
    BY <1>16 DEF bcacheVars, diskVars
  <2>2. StoreInv'
    BY <2>1 DEF StoreInv, BufSound, DiskTypes, InSync, Stage
  <2>3. \A b \in Buf : Shows(b)' = Shows(b) /\ OwnedBy(b)' = OwnedBy(b)
    BY <2>1 DEF Shows, OwnedBy, Stage
  <2> QED BY <2>1, <2>2, <2>3, SameView
<1> QED
  BY <1>1, <1>2, <1>3, <1>4, <1>5, <1>6, <1>7, <1>8, <1>9, <1>10, <1>11, <1>12, <1>13, <1>14, <1>15, <1>16
     DEF BCacheNext, PanicLoop

\* At boot every buffer is empty and every block is as it is on the disk.
LEMMA StoreStart ==
  ASSUME BCacheInit, View
  PROVE  StoreInv /\ Blocks!StoreInit
<1>1. DiskTypes
  BY DataAssumption DEF BCacheInit, DiskInit, DiskTypes
<1>2. \A b \in Buf : BufSound(b)
  BY DEF BCacheInit, DiskInit, BufSound, Stage, InUse
<1>3. View /\ \A b \in Buf : blockno[b] = NoBlock
  BY DEF BCacheInit
<1>4. \A k \in Block : Contents[k] = Zero /\ Owner[k] = Nobody
  <2> TAKE k \in Block
  <2>1. \A b \in Buf : blockno[b] # k
    BY <1>3, BlockAssumption
  <2>2. sector[k] = Zero
    BY DEF BCacheInit, DiskInit
  <2> QED BY <1>3, <2>1, <2>2 DEF View
<1>6. Contents = [k \in Block |-> Zero] /\ Owner = [k \in Block |-> Nobody]
  BY <1>4, Tables
<1>7. Blocks!StoreInit
  BY <1>6 DEF Blocks!StoreInit, Contents, Owner
<1> QED BY <1>1, <1>2, <1>7 DEF StoreInv

\* bread(), bwrite() and brelse() over any number of buffers, with blocks evicted and
\* read again, pinned and written home, do what a store of blocks does: a process has
\* a block alone and finds in it what the last process left (bio.c:1-16, 58-153).
THEOREM ImplementsBlockStoreHolds == BCacheSpec => ImplementsBlockStore
<1>1. /\ CacheInv /\ StoreInv
      /\ [BCacheNext]_bcacheVars
      => (CacheInv /\ StoreInv)' /\ StoreStep
  BY CacheStep, StoreNextStep, KnownHolds, ViewHolds, ViewKept, KnownKept
<1>2. StoreStep => [UNCHANGED Blocks!storeVars \/ Blocks!StoreNext]_(Blocks!storeVars)
  BY DEF StoreStep
<1>3. BCacheInit => CacheInv /\ StoreInv /\ Blocks!StoreInit
  BY CacheInit, KnownHolds, ViewHolds, StoreStart
<1> QED BY <1>1, <1>2, <1>3, PTL
        DEF BCacheSpec, ImplementsBlockStore
=============================================================================
