------------------------------ MODULE UserHeap ------------------------------
(***************************************************************************)
(* The allocator of user programs, user/umalloc.c: a circular list of free *)
(* blocks in the order of their addresses, searched from where the last    *)
(* call stopped, with neighbours joined by free().  Addresses count units  *)
(* of a header; `base', in the program's data, lies below the heap.  More  *)
(* core need not adjoin the last piece: the program may call sbrk() too.   *)
(* sbrk() takes an int: when it cannot hold the bytes wanted, malloc()     *)
(* hands out a block the program has no memory for.  The model follows the *)
(* program no further, whose next access may be its last.                  *)
(***************************************************************************)
EXTENDS Integers, FiniteSets, FiniteSetsExt

CONSTANTS HeapTop,      \* bound on the heap, in units
          NALLOC,       \* least number of units asked of sbrk()
          HdrSize,      \* bytes of a unit
          UINT,         \* 2^32: number of ints
          Requests,     \* arguments of malloc()
          MaxLive       \* bound on the blocks in use

ASSUME HeapAssumption ==
  /\ {HeapTop, NALLOC, HdrSize, UINT, MaxLive} \subseteq Nat \ {0}
  /\ UINT % (2 * HdrSize) = 0 /\ NALLOC * HdrSize < UINT \div 2

VARIABLES hdr,          \* address of a header -> [ptr, size]
          freep,        \* where the search starts; NULL before the first call
          brk,          \* end of the heap
          holes,        \* units below brk that are not the allocator's
          live,         \* blocks in use: [at, size, nbytes]
          cut           \* sbrk() has been passed fewer bytes than wanted
heapVars == <<hdr, freep, brk, holes, live, cut>>

Base == 0
NULL == 0 - 1
Put1(h, a, ptr, size) == [x \in DOMAIN h \cup {a} |-> IF x = a THEN [ptr |-> ptr, size |-> size] ELSE h[x]]
Drop1(h, a) == [x \in DOMAIN h \ {a} |-> h[x]]

HeapInit ==
  /\ hdr = [x \in {} |-> [ptr |-> 0, size |-> 0]]
  /\ freep = NULL /\ brk = 1 /\ holes = {} /\ live = {} /\ cut = FALSE

-----------------------------------------------------------------------------
(* free(): walk to the place of bp in the order of addresses; then join    *)
(* with the block after it and with the one before it.                     *)
RECURSIVE FreePlace(_, _, _)
FreePlace(h, p, bp) ==
  LET next == h[p].ptr
  IN  IF bp > p /\ bp < next THEN p
      ELSE IF p >= next /\ (bp > p \/ bp < next) THEN p
      ELSE FreePlace(h, next, bp)

\* bug: the block after it is not joined
JoinNot(h, bp, size, next) == Put1(h, bp, next, size)
JoinUpper(h, bp, size, next) ==
  IF bp + size = next THEN Drop1(Put1(h, bp, h[next].ptr, size + h[next].size), next)
  ELSE Put1(h, bp, next, size)
JoinLower(h, p, bp) ==
  IF p + h[p].size = bp
  THEN Drop1([h EXCEPT ![p] = [ptr |-> h[bp].ptr, size |-> @.size + h[bp].size]], bp)
  ELSE [h EXCEPT ![p].ptr = bp]
FreeAfter(h, p, bp, size) ==
  [hdr |-> JoinLower(JoinUpper(h, bp, size, h[p].ptr), p, bp), freep |-> p]
FreeAt(h, fp, bp, size) == FreeAfter(h, FreePlace(h, fp, bp), bp, size)

Becomes(r) == hdr' = r.hdr /\ freep' = r.freep
FreeBlock(b) ==
  /\ b \in live /\ ~cut
  /\ live' = live \ {b}
  /\ Becomes(FreeAt(hdr, freep, b.at, b.size))
  /\ UNCHANGED <<brk, holes, cut>>

\* bug: not rounded up
UnitsDown(nbytes) == nbytes \div HdrSize + 1
(* malloc(): the first block large enough is taken, or cut at its end.     *)
(* Once around the list it asks for more core, which may not come.         *)
Units(nbytes) == (nbytes + HdrSize - 1) \div HdrSize + 1

\* bug: the front of the block is handed out, and the front kept
TakenFront(h, prevp, p, n) ==
  IF h[p].size = n THEN [hdr |-> Drop1([h EXCEPT ![prevp].ptr = h[p].ptr], p), freep |-> prevp, at |-> p]
  ELSE [hdr |-> [h EXCEPT ![p].size = @ - n], freep |-> prevp, at |-> p]
Taken(h, prevp, p, n) ==
  IF h[p].size = n THEN [hdr |-> Drop1([h EXCEPT ![prevp].ptr = h[p].ptr], p), freep |-> prevp, at |-> p]
  ELSE [hdr |-> [h EXCEPT ![p].size = @ - n], freep |-> prevp, at |-> p + h[p].size - n]

(* morecore(): the product is 64 bits wide, sbrk()'s parameter is an int.  *)
CoreUnits(n) == Max({n, NALLOC})
SbrkArg(n) ==
  LET low == (CoreUnits(n) * HdrSize) % UINT IN IF low < UINT \div 2 THEN low ELSE low - UINT

RECURSIVE Search(_, _, _, _, _), SearchAt(_, _, _, _, _, _)
Again(r, n) == Search(r.hdr, r.freep, r.freep, n, NULL)
SearchAt(h, fp, prevp, p, n, core) ==
  CASE h[p].size >= n -> Taken(h, prevp, p, n)
    [] h[p].size < n /\ p # fp -> Search(h, fp, p, n, core)
    [] OTHER -> IF core = NULL THEN [hdr |-> h, freep |-> fp, at |-> NULL]
                ELSE Again(FreeAt(h, fp, core, CoreUnits(n)), n)
Search(h, fp, prevp, n, core) == SearchAt(h, fp, prevp, h[prevp].ptr, n, core)

NeedsCore(h, n) == \A a \in DOMAIN h : h[a].size < n

Found(r, n, nbytes) ==
  /\ Becomes(r)
  /\ live' = IF r.at = NULL THEN live ELSE live \cup {[at |-> r.at, size |-> n, nbytes |-> nbytes]}

\* growproc() grows or shrinks the program; by more than it has, not at all.
Grown(core, n) == LET end == core + SbrkArg(n) \div HdrSize IN IF end < 0 THEN core ELSE end
Core(core, n) ==
  /\ core # NULL => Grown(core, n) <= HeapTop + 1
  /\ brk' = IF core = NULL THEN brk ELSE Grown(core, n)
  /\ holes' = IF core = NULL THEN holes ELSE holes \cup (brk .. core - 1)
  /\ cut' = (core # NULL /\ SbrkArg(n) # CoreUnits(n) * HdrSize)
MallocFrom(h, fp, n, nbytes, gap, fails) ==
  /\ fails \/ gap > 0 => NeedsCore(h, n)
  /\ fails => gap = 0 /\ SbrkArg(n) > 0
  /\ \E core \in {IF NeedsCore(h, n) /\ ~fails THEN brk + gap ELSE NULL} :
       Core(core, n) /\ Found(Search(h, fp, fp, n, core), n, nbytes)
Malloc(nbytes, gap, fails) ==
  /\ Cardinality(live) < MaxLive /\ ~cut
  /\ IF freep = NULL THEN MallocFrom(Put1(hdr, Base, Base, 0), Base, Units(nbytes), nbytes, gap, fails)
     ELSE MallocFrom(hdr, freep, Units(nbytes), nbytes, gap, fails)

(* A block beyond the program's memory is in use. *)
BeyondMemory == cut /\ UNCHANGED heapVars

HeapNext ==
  \/ \E nbytes \in Requests, gap \in {0, 1}, fails \in BOOLEAN : Malloc(nbytes, gap, fails)
  \/ \E b \in live : FreeBlock(b)
  \/ BeyondMemory

HeapSpec == HeapInit /\ [][HeapNext]_heapVars
-----------------------------------------------------------------------------
(* Every unit of the heap is in exactly one block, free or in use.         *)
Span(a, n) == a .. a + n - 1
HeapTiles ==
  LET blocks == {<<a, hdr[a].size>> : a \in DOMAIN hdr \ {Base}} \cup {<<b.at, b.size>> : b \in live}
  IN  /\ UNION {Span(x[1], x[2]) : x \in blocks} = (1 .. brk - 1) \ holes
      /\ MapThenSumSet(LAMBDA x : x[2], blocks) = brk - 1 - Cardinality(holes)

(* The list is one circle through all free blocks in the order of their    *)
(* addresses, and no two of them adjoin: free() has joined them.           *)
NextUp(a) == LET up == {x \in DOMAIN hdr : x > a} IN IF up = {} THEN Min(DOMAIN hdr) ELSE Min(up)
ListSorted ==
  freep # NULL =>
    /\ freep \in DOMAIN hdr
    /\ \A a \in DOMAIN hdr : hdr[a].ptr = NextUp(a)
    /\ \A a \in DOMAIN hdr \ {Base} : a + hdr[a].size \notin DOMAIN hdr

(* A block has room for what was asked. *)
MallocHasRoom == \A b \in live : (b.size - 1) * HdrSize >= b.nbytes

(* The heap after any sequence of malloc(), free() and failing sbrk() is   *)
(* tiled by its blocks, the free ones in a sorted and joined circle, and   *)
(* each block in use is large enough and inside the program's memory       *)
(* (umalloc.c:24-90); unless somebody asked for so much, within two        *)
(* headers of 2^31 bytes or more, that an int does not hold it.            *)
HeapSound ==
  IF cut THEN \E b \in live : b.nbytes > UINT \div 2 - 2 * HdrSize
  ELSE HeapTiles /\ ListSorted /\ MallocHasRoom
=============================================================================
