------------------------------ MODULE FileData ------------------------------
(***************************************************************************)
(* The blocks of files: the allocation of kernel/fs.c (balloc, bfree), the *)
(* map from a file's blocks to the disk's (bmap, itrunc), readi and writei *)
(* and the chunks of filewrite() in kernel/file.c.  A call holds the lock  *)
(* of its inode, so it is one action here; what calls on other inodes take *)
(* from the disk meanwhile is the choice of `room', the blocks that balloc *)
(* still finds.                                                            *)
(***************************************************************************)
EXTENDS Integers, Sequences, FiniteSets, FiniteSetsExt, SequencesExt

CONSTANTS DFile, DInode,        \* open files and inodes
          NDIRECT, NINDIRECT, BSIZE,
          DBlocks,              \* number of data blocks
          BPB,                  \* blocks that one block of the bitmap covers
          MAXOPBLOCKS,          \* blocks that a transaction may change
          UINT,                 \* number of uints, 2^32
          WriteLengths,         \* sizes of writes
          ReadLengths,          \* sizes of reads, as uints: read() may pass -1
          Shortages,            \* blocks, or bytes, that a short write finds
          MaxDataOps            \* bound on the calls; also what they write

ASSUME DataSizes ==
  /\ {NDIRECT, NINDIRECT, BSIZE, BPB} \subseteq Nat \ {0}
  /\ ReadLengths \subseteq 0 .. UINT - 1
  /\ DBlocks \in Nat /\ MAXOPBLOCKS \in Nat /\ MaxDataOps \in Nat

DBlock == 1 .. DBlocks
MAXFILE == NDIRECT + NINDIRECT

VARIABLES inUse,        \* the bitmap
          addrs,        \* inode -> 0 .. NDIRECT -> block, or 0
          fsize,        \* inode -> size
          ptrs, bytes,  \* block -> what it holds, as an indirect or data block
          fileIp, off,  \* open file -> inode, offset
          left,         \* open file -> what filewrite() has still to write
          lastRead,     \* what the last read asked for and returned
          changed,      \* blocks the last transaction has written to the log
          dataOps       \* calls made so far
dataVars == <<inUse, addrs, fsize, ptrs, bytes, fileIp, off, left, lastRead, changed, dataOps>>

ZeroPtrs == [k \in 0 .. NINDIRECT - 1 |-> 0]
ZeroBytes == [k \in 0 .. BSIZE - 1 |-> 0]

DataInit ==
  /\ inUse = {}
  /\ addrs = [i \in DInode |-> [k \in 0 .. NDIRECT |-> 0]]
  /\ fsize = [i \in DInode |-> 0]
  /\ ptrs = [b \in DBlock |-> ZeroPtrs]
  /\ bytes = [b \in DBlock |-> ZeroBytes]
  /\ fileIp \in [DFile -> DInode]
  /\ off = [f \in DFile |-> 0]
  /\ left = [f \in DFile |-> [n |-> 0, v |-> 0]]
  /\ lastRead = [asked |-> 0, bytes |-> <<>>]
  /\ changed = {}
  /\ dataOps = 0

-----------------------------------------------------------------------------
(* A call works on the record m of the state it changes; m.at is the block *)
(* that balloc() or bmap() has returned, 0 when there is none left.        *)
State(i, room) == [used |-> inUse, room |-> room, a |-> addrs[i], p |-> ptrs, c |-> bytes,
                   log |-> {}, at |-> 0, tot |-> 0, stop |-> FALSE]
Bitmap(b) == <<"bitmap", b \div BPB>>
DataBlock(b) == <<"data", b>>

(* balloc(): the first free block, zeroed. *)
Balloc(m) ==
  IF m.room = 0 THEN [m EXCEPT !.at = 0]
  ELSE LET b == Min(DBlock \ m.used)
       IN  [m EXCEPT !.used = @ \cup {b}, !.room = @ - 1, !.at = b,
                     !.p[b] = ZeroPtrs, !.c[b] = ZeroBytes, !.log = @ \cup {Bitmap(b), DataBlock(b)}]

(* bmap(): the block, the indirect block before it, allocated when missing.*)
BmapSlot(m, k) ==
  IF m.a[k] # 0 THEN [m EXCEPT !.at = m.a[k]]
  ELSE LET q == Balloc(m) IN [q EXCEPT !.a[k] = q.at]

Bmap(m, bn) ==
  IF bn < NDIRECT THEN BmapSlot(m, bn)
  ELSE LET q == BmapSlot(m, NDIRECT)
           ind == q.at
           j == bn - NDIRECT
       IN  IF ind = 0 THEN q
           ELSE IF q.p[ind][j] # 0 THEN [q EXCEPT !.at = q.p[ind][j]]
           ELSE LET w == Balloc(q)
                IN  IF w.at = 0 THEN w
                    ELSE [w EXCEPT !.p[ind][j] = w.at, !.log = @ \cup {DataBlock(ind)}]

(* The blocks of n bytes from offset o on, and the bytes of a block among  *)
(* them: the loop of readi() and writei().                                 *)
Pieces(o, n) == IF n = 0 THEN <<>>
                ELSE [k \in 1 .. (o + n - 1) \div BSIZE - o \div BSIZE + 1 |-> o \div BSIZE + k - 1]
Piece(bn, o, n) == {x \in bn * BSIZE .. bn * BSIZE + BSIZE - 1 : x >= o /\ x < o + n}

(* writei(): the copy from the user may fail after `good' bytes; the block *)
(* then keeps what was copied, but is neither logged nor counted.          *)
WritePiece(m, bn, o, n, v, good) ==
  IF m.stop THEN m
  ELSE LET q == Bmap(m, bn)
           w == [q EXCEPT !.c[q.at] = [x \in DOMAIN @ |-> IF bn * BSIZE + x \in Piece(bn, o, good)
                                                          THEN v ELSE @[x]]]
       IN  IF q.at = 0 THEN [q EXCEPT !.stop = TRUE]
           ELSE IF Piece(bn, o, n) # Piece(bn, o, good) THEN [w EXCEPT !.stop = TRUE]
           ELSE [w EXCEPT !.log = @ \cup {DataBlock(q.at)}, !.tot = @ + Cardinality(Piece(bn, o, n))]
Writei(m, o, n, v, good) == FoldLeft(LAMBDA q, bn : WritePiece(q, bn, o, n, v, good), m, Pieces(o, n))

\* bug: off % BSIZE is ignored
ReadPieceAligned(m, bn, o, n) ==
  LET q == Bmap(m[1], bn)
  IN  IF q.at = 0 THEN m
      ELSE <<q, m[2] \o [k \in 1 .. Cardinality(Piece(bn, o, n)) |-> q.c[q.at][k - 1]]>>
(* readi(): the bytes, through bmap() like a write.                        *)
ReadPiece(m, bn, o, n) ==
  LET q == Bmap(m[1], bn)
  IN  IF q.at = 0 THEN m
      ELSE <<q, m[2] \o [k \in 1 .. Cardinality(Piece(bn, o, n)) |->
                           q.c[q.at][Min(Piece(bn, o, n)) + k - 1 - bn * BSIZE]]>>
Readi(m, o, n) == FoldLeft(LAMBDA q, bn : ReadPiece(q, bn, o, n), <<m, <<>>>>, Pieces(o, n))

(* itrunc(): every block, then the indirect block; bfree() logs the bitmap.*)
BlocksOf(a, p) ==
  ({a[k] : k \in 0 .. NDIRECT} \cup (IF a[NDIRECT] = 0 THEN {} ELSE {p[a[NDIRECT]][j] : j \in 0 .. NINDIRECT - 1}))
    \ {0}
-----------------------------------------------------------------------------
\* bug: a block of data is taken to cost one block of the log
CHUNKLarge == (MAXOPBLOCKS - 1 - 1 - 2) * BSIZE
(* filewrite(): chunks of at most CHUNK bytes, each one a transaction.     *)
CHUNK == ((MAXOPBLOCKS - 1 - 1 - 2) \div 2) * BSIZE
Busy(f) == left[f].n > 0
InodeBlock(i) == <<"inode", i>>

FileWrite(f, n) ==
  /\ ~Busy(f) /\ dataOps < MaxDataOps
  /\ dataOps' = dataOps + 1
  /\ left' = [left EXCEPT ![f] = [n |-> n, v |-> dataOps + 1]]
  /\ UNCHANGED <<inUse, addrs, fsize, ptrs, bytes, fileIp, off, lastRead, changed>>

\* bug: an offset past the end is accepted
OnlyTooLarge(f, n) == off[f] + n > MAXFILE * BSIZE
(* writei() starts neither past the end nor beyond the largest file.       *)
Plus(o, n) == (o + n) % UINT
OutOfRange(f, n) ==
  \/ off[f] > fsize[fileIp[f]] \/ Plus(off[f], n) < off[f]
  \/ Plus(off[f], n) > MAXFILE * BSIZE

WriteChunk(f, room, good) ==
  /\ Busy(f)
  /\ LET i == fileIp[f]
         o == off[f]
         n == Min({left[f].n, CHUNK})
         m == Writei(State(i, room), o, n, left[f].v, Min({good, n}))
         tot == IF OutOfRange(f, n) THEN -1 ELSE m.tot
     IN  /\ IF tot = -1 THEN UNCHANGED <<inUse, addrs, fsize, ptrs, bytes, off, changed>>
            ELSE /\ inUse' = m.used
                 /\ addrs' = [addrs EXCEPT ![i] = m.a]
                 /\ ptrs' = m.p
                 /\ bytes' = m.c
                 /\ fsize' = [fsize EXCEPT ![i] = Max({@, o + m.tot})]
                 /\ off' = [off EXCEPT ![f] = o + m.tot]
                 /\ changed' = m.log \cup {InodeBlock(i)}
         /\ left' = [left EXCEPT ![f].n = IF tot = n THEN @ - n ELSE 0]
  /\ UNCHANGED <<fileIp, lastRead, dataOps>>

\* bug: reads go on past the end
ReadLenAsked(f, n) == n
\* bug: a sum that wraps around reads to the end of the file
ReadLenWraps(f, n) ==
  LET size == fsize[fileIp[f]]
  IN  IF off[f] > size THEN 0 ELSE IF n > size - off[f] THEN size - off[f] ELSE n
(* readi() stops at the end of the file; from where n bytes on would be    *)
(* beyond the range of a uint it reads nothing.                            *)
ReadLen(f, n) ==
  LET size == fsize[fileIp[f]]
  IN  IF off[f] > size \/ Plus(off[f], n) < off[f] THEN 0
      ELSE IF Plus(off[f], n) > size THEN size - off[f] ELSE n

FileRead(f, n, room) ==
  /\ ~Busy(f) /\ dataOps < MaxDataOps
  /\ LET i == fileIp[f]
         o == off[f]
         m == Readi(State(i, room), o, ReadLen(f, n))
     IN  /\ inUse' = m[1].used
         /\ addrs' = [addrs EXCEPT ![i] = m[1].a]
         /\ ptrs' = m[1].p
         /\ bytes' = m[1].c
         /\ lastRead' = [asked |-> n, bytes |-> m[2]]
         /\ off' = [off EXCEPT ![f] = o + Len(m[2])]
         /\ changed' = m[1].log                \* a read is no transaction
  /\ dataOps' = dataOps + 1
  /\ UNCHANGED <<fsize, fileIp, left>>

(* The user's buffer cannot be written: -1, and the offset stays.          *)
ReadFails(f, n) ==
  /\ ~Busy(f) /\ dataOps < MaxDataOps
  /\ ReadLen(f, n) > 0
  /\ dataOps' = dataOps + 1
  /\ UNCHANGED <<inUse, addrs, fsize, ptrs, bytes, fileIp, off, left, lastRead, changed>>

\* bug: the indirect block itself is not freed
ItruncKeepsIndirect(i) ==
  /\ dataOps < MaxDataOps
  /\ inUse' = inUse \ (BlocksOf(addrs[i], ptrs) \ {addrs[i][NDIRECT]})
  /\ addrs' = [addrs EXCEPT ![i] = [k \in 0 .. NDIRECT |-> 0]]
  /\ fsize' = [fsize EXCEPT ![i] = 0]
  /\ changed' = {Bitmap(b) : b \in BlocksOf(addrs[i], ptrs)} \cup {InodeBlock(i)}
  /\ dataOps' = dataOps + 1
  /\ UNCHANGED <<ptrs, bytes, fileIp, off, lastRead, left>>
(* itrunc() by open(O_TRUNC), whatever the offsets of open files are.      *)
Itrunc(i) ==
  /\ dataOps < MaxDataOps
  /\ inUse' = inUse \ BlocksOf(addrs[i], ptrs)
  /\ addrs' = [addrs EXCEPT ![i] = [k \in 0 .. NDIRECT |-> 0]]
  /\ fsize' = [fsize EXCEPT ![i] = 0]
  /\ changed' = {Bitmap(b) : b \in BlocksOf(addrs[i], ptrs)} \cup {InodeBlock(i)}
  /\ dataOps' = dataOps + 1
  /\ UNCHANGED <<ptrs, bytes, fileIp, off, lastRead, left>>

(* One of the two ways to fall short at a time: disk or user's buffer.     *)
FreeBlocks == DBlocks - Cardinality(inUse)
DataQuiet == dataOps = MaxDataOps /\ (\A f \in DFile : ~Busy(f)) /\ UNCHANGED dataVars

DataNext ==
  \/ \E f \in DFile, n \in WriteLengths : FileWrite(f, n)
  \/ \E f \in DFile, room \in Shortages : room < FreeBlocks /\ WriteChunk(f, room, CHUNK)
  \/ \E f \in DFile, good \in Shortages \cup {CHUNK} : WriteChunk(f, FreeBlocks, good)
  \/ \E f \in DFile, n \in ReadLengths : FileRead(f, n, FreeBlocks) \/ ReadFails(f, n)
  \/ \E i \in DInode : Itrunc(i)
  \/ DataQuiet

DataSpec == DataInit /\ [][DataNext]_dataVars
-----------------------------------------------------------------------------
(* A block belongs to one file, at one place, and the bitmap marks exactly *)
(* the blocks that belong to a file: balloc(), bmap(), itrunc().           *)
Places(i) ==
  LET a == addrs[i]
  IN  {<<"a", k>> : k \in {x \in 0 .. NDIRECT : a[x] # 0}}
        \cup (IF a[NDIRECT] = 0 THEN {}
              ELSE {<<"ind", j>> : j \in {x \in 0 .. NINDIRECT - 1 : ptrs[a[NDIRECT]][x] # 0}})
BlocksAccounted ==
  /\ inUse = UNION {BlocksOf(addrs[i], ptrs) : i \in DInode}
  /\ Cardinality(inUse) = MapThenSumSet(LAMBDA i : Cardinality(Places(i)), DInode)

(* A file has no holes: every block below its size is there, also when a   *)
(* write fell short or another descriptor truncated the file meanwhile.    *)
BlockOf(i, bn) ==
  IF bn < NDIRECT THEN addrs[i][bn]
  ELSE IF addrs[i][NDIRECT] = 0 THEN 0 ELSE ptrs[addrs[i][NDIRECT]][bn - NDIRECT]
NoHoles == \A i \in DInode : \A x \in 0 .. fsize[i] - 1 : BlockOf(i, x \div BSIZE) # 0

(* file.c:150-153: what a chunk writes fits the reservation of begin_op(). *)
WithinReservation == Cardinality(changed) <= MAXOPBLOCKS

(* Seen through bmap(), files are sequences of bytes (FileContents).       *)
Bytes(i) == [x \in 1 .. fsize[i] |-> bytes[BlockOf(i, (x - 1) \div BSIZE)][(x - 1) % BSIZE]]
Content == INSTANCE FileContents WITH
  OpenFiles <- DFile, Inode <- DInode, MaxLen <- MAXFILE * BSIZE, Value <- 1 .. MaxDataOps,
  Lengths <- ReadLengths, Range32 <- UINT, contents <- [i \in DInode |-> Bytes(i)],
  inodeOf <- fileIp, offset <- off, got <- lastRead
ImplementsFiles == Content!ContentSpec
=============================================================================
