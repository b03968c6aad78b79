------------------------------- MODULE Memory -------------------------------
(***************************************************************************)
(* Physical pages and address spaces: kernel/kalloc.c, kernel/vm.c, exec() *)
(* of kernel/exec.c and, from kernel/proc.c, what allocproc(), fork(),     *)
(* growproc() and freeproc() do to memory.  A page table is the pages of   *)
(* its nodes, by their indices from the root, and its leaves; a kalloc()   *)
(* that finds nothing ends a call through the code's own way out.  A call  *)
(* changes one process's tables, so it is one action; how many pages calls *)
(* of other processes leave it is the choice of `avail'.                   *)
(***************************************************************************)
EXTENDS Integers, Sequences, FiniteSets, FiniteSetsExt, SequencesExt

CONSTANTS MProc, MFirst,        \* processes, the one userinit() makes
          NPAGE,                \* pages of memory
          FAN,                  \* entries of a page table; there are three levels
          PGSIZE,
          ADDR,                 \* number of addresses, 2^64
          Programs,             \* what exec() is given: [segs, args]
          SbrkArgs,             \* arguments of sbrk()
          CopyAddrs, CopyLens,  \* where and how much is copied
          MaxSz,                \* bound on a process's size
          MaxMemOps             \* bound on the calls

MAXVPN == FAN * FAN * FAN
TRAMPOLINE == MAXVPN - 1
TRAPFRAME == MAXVPN - 2
ASSUME MemoryAssumption ==
  /\ MFirst \in MProc /\ {NPAGE, FAN, PGSIZE, MaxSz, MaxMemOps} \subseteq Nat \ {0}
  /\ MaxSz <= TRAPFRAME * PGSIZE /\ ADDR \in Nat /\ ADDR >= MAXVPN * PGSIZE

VARIABLES freelist,     \* kmem.freelist
          ram,          \* page -> its bytes
          as,           \* process -> [tf, nodes, leaf, sz], or NoSpace
          mpanic,       \* a check of vm.c has failed
          memOps        \* calls made so far
memVars == <<freelist, ram, as, mpanic, memOps>>

Page == 1 .. NPAGE
None == [x \in {} |-> 0]
NoSpace == [tf |-> 0, nodes |-> None, leaf |-> None, sz |-> 0]
With(f, x, y) == [z \in DOMAIN f \cup {x} |-> IF z = x THEN y ELSE f[z]]
Without(f, S) == [z \in DOMAIN f \ S |-> f[z]]
PGROUNDUP(sz) == (sz + PGSIZE - 1) \div PGSIZE          \* in pages
Filled(x) == [k \in 0 .. PGSIZE - 1 |-> x]

-----------------------------------------------------------------------------
(* Calls work on a record: what they change, and whether they still can.   *)
Work(a, avail) == [free |-> freelist, avail |-> avail, ram |-> ram, got |-> 0, ok |-> TRUE,
                   panic |-> FALSE, tf |-> a.tf, nodes |-> a.nodes, leaf |-> a.leaf, sz |-> a.sz]
SpaceOf(m) == [tf |-> m.tf, nodes |-> m.nodes, leaf |-> m.leaf, sz |-> m.sz]
Turn(m, a) == [m EXCEPT !.tf = a.tf, !.nodes = a.nodes, !.leaf = a.leaf, !.sz = a.sz]

Kalloc(m) ==
  IF m.avail = 0 THEN [m EXCEPT !.ok = FALSE]
  ELSE LET g == Min(m.free)
       IN  [m EXCEPT !.free = @ \ {g}, !.avail = @ - 1, !.ram[g] = Filled("junk"), !.got = g]
Kfree(m, G) ==
  [m EXCEPT !.free = @ \cup G, !.ram = [g \in DOMAIN @ |-> IF g \in G THEN Filled("junk") ELSE @[g]]]

(* Going on while nothing has failed, and the way out once it has.         *)
Try(m, F(_)) == IF m.ok THEN F(m) ELSE m
Undo(m, F(_)) == IF m.ok THEN m ELSE F(m)

(* walk(): the nodes on the way to page v, allocated when missing.         *)
Node(m, q) ==
  Try(m, LAMBDA a : IF q \in DOMAIN a.nodes THEN a
                    ELSE Try(Kalloc(a), LAMBDA k : [k EXCEPT !.nodes = With(@, q, k.got)]))
WalkTo(m, v) == Node(Node(m, <<v \div (FAN * FAN)>>), <<v \div (FAN * FAN), (v \div FAN) % FAN>>)

Mappages(m, v, pa, user) ==
  Try(WalkTo(m, v), LAMBDA w :
    [w EXCEPT !.panic = @ \/ v \in DOMAIN w.leaf, !.leaf = With(@, v, [pa |-> pa, user |-> user])])

Uvmunmap(m, V, doFree) ==
  LET here == V \cap DOMAIN m.leaf
      q == IF doFree THEN Kfree(m, {m.leaf[v].pa : v \in here}) ELSE m
  IN  [q EXCEPT !.panic = @ \/ here # V, !.leaf = Without(@, V)]

(* freewalk() *)
Freewalk(m) ==
  [Kfree(m, {m.nodes[q] : q \in DOMAIN m.nodes}) EXCEPT
     !.panic = @ \/ DOMAIN m.leaf # {}, !.nodes = None, !.leaf = None]

\* bug: the page is lost when mappages() fails
MapFreshLeaks(m, v, bytes, user) ==
  Try(m, LAMBDA a : Try(Kalloc(a), LAMBDA k :
    Mappages([k EXCEPT !.ram[k.got] = bytes], v, k.got, user)))
(* A fresh page, mapped at v: the body of uvmalloc()'s and uvmcopy()'s loop.*)
MapFresh(m, v, bytes, user) ==
  Try(m, LAMBDA a : Try(Kalloc(a), LAMBDA k :
    Undo(Mappages([k EXCEPT !.ram[k.got] = bytes], v, k.got, user), LAMBDA w : Kfree(w, {k.got}))))
Vpns(a, b) == [k \in 1 .. (IF b > a THEN b - a ELSE 0) |-> a + k - 1]

Uvmdealloc(m, oldsz, newsz) ==
  IF newsz >= oldsz THEN m
  ELSE [Uvmunmap(m, PGROUNDUP(newsz) .. PGROUNDUP(oldsz) - 1, TRUE) EXCEPT !.sz = newsz]

Extended(m, lo, newsz) ==
  Try(FoldLeft(LAMBDA w, v : MapFresh(w, v, Filled("nul"), TRUE), m, Vpns(lo, PGROUNDUP(newsz))),
      LAMBDA q : [q EXCEPT !.sz = newsz])
\* bug: all that was asked for is unmapped, mapped or not
UvmallocUndoesAll(m, oldsz, newsz) ==
  IF newsz < oldsz THEN m
  ELSE Undo(Extended(m, PGROUNDUP(oldsz), newsz), LAMBDA q :
         Uvmunmap(q, PGROUNDUP(oldsz) .. PGROUNDUP(newsz) - 1, TRUE))
Uvmalloc(m, oldsz, newsz) ==
  IF newsz < oldsz THEN m
  ELSE Undo(Extended(m, PGROUNDUP(oldsz), newsz), LAMBDA q :
         Uvmunmap(q, {v \in DOMAIN q.leaf : v >= PGROUNDUP(oldsz) /\ v < PGROUNDUP(newsz)}, TRUE))

CopiedAs(m, old, User(_)) ==
  Undo(Try(FoldLeft(LAMBDA w, v : MapFresh(w, v, w.ram[old.leaf[v].pa], User(v)), m,
                    Vpns(0, PGROUNDUP(old.sz))),
           LAMBDA q : [q EXCEPT !.sz = old.sz]),
       LAMBDA q : Uvmunmap(q, {v \in DOMAIN q.leaf : v < PGROUNDUP(old.sz)}, TRUE))
\* bug: the child's pages are all the user's
UvmcopyNoFlags(m, old) == CopiedAs(m, old, LAMBDA v : TRUE)
Uvmcopy(m, old) == CopiedAs(m, old, LAMBDA v : old.leaf[v].user)

(* proc_pagetable(): root, trampoline, trapframe, or nothing at all.       *)
ProcPagetable(m) ==
  Try(Kalloc(m), LAMBDA k :
    Try(Undo(Mappages([k EXCEPT !.nodes = With(None, <<>>, k.got), !.leaf = None, !.sz = 0],
                      TRAMPOLINE, 0, FALSE), Freewalk),
        LAMBDA r : Undo(Mappages(r, TRAPFRAME, m.tf, FALSE),
                        LAMBDA t : Freewalk(Uvmunmap(t, {TRAMPOLINE}, FALSE)))))

ProcFreepagetable(m) ==
  Freewalk(Uvmunmap(Uvmunmap(m, {TRAMPOLINE, TRAPFRAME}, FALSE), 0 .. PGROUNDUP(m.sz) - 1, TRUE))

Freeproc(m) == [Kfree(IF m.nodes = None THEN m ELSE ProcFreepagetable(m), {m.tf} \ {0}) EXCEPT !.tf = 0, !.sz = 0]

(* allocproc(): trapframe and page table.                                  *)
Allocproc(m) ==
  Try(Kalloc(m), LAMBDA k :
    Undo(ProcPagetable([k EXCEPT !.tf = k.got]), LAMBDA q : Freeproc([q EXCEPT !.nodes = None])))
-----------------------------------------------------------------------------
(* exec(): segments, then a guard page and a stack with the arguments.     *)
Readable(m, v) == v \in DOMAIN m.leaf /\ m.leaf[v].user
StoreBytes(m, va, n, x) ==
  LET At(a) == m.leaf[a \div PGSIZE].pa
      hit == {a \in va .. va + n - 1 : a \div PGSIZE \in DOMAIN m.leaf}
  IN  [m EXCEPT !.ram = [g \in DOMAIN @ |-> [k \in DOMAIN @[g] |->
         IF \E a \in hit : At(a) = g /\ a % PGSIZE = k THEN x ELSE @[g][k]]]]

\* bug: an end of the segment that wraps around is not noticed
LoadSegmentWraps(m, s) ==
  LET pages == {a \div PGSIZE : a \in s.vaddr .. s.vaddr + s.filesz - 1}
  IN  Try(m, LAMBDA a :
        IF s.memsz < s.filesz \/ s.vaddr % PGSIZE # 0 THEN [a EXCEPT !.ok = FALSE]
        ELSE Try(Uvmalloc(a, a.sz, (s.vaddr + s.memsz) % ADDR), LAMBDA q :
               IF q.sz = 0 \/ s.short THEN [q EXCEPT !.ok = FALSE]
               ELSE [StoreBytes(q, s.vaddr, s.filesz, "f") EXCEPT !.panic = @ \/ ~(\A v \in pages : Readable(q, v))]))
\* uvmalloc() returns the new size; 0, which exec() takes for a failure, also
\* when a first segment ends at address 0.
LoadSegment(m, s) ==
  LET end == (s.vaddr + s.memsz) % ADDR
      pages == {a \div PGSIZE : a \in s.vaddr .. s.vaddr + s.filesz - 1}
  IN  Try(m, LAMBDA a :
        IF s.memsz < s.filesz \/ end < s.vaddr \/ s.vaddr % PGSIZE # 0 THEN [a EXCEPT !.ok = FALSE]
        ELSE Try(Uvmalloc(a, a.sz, end), LAMBDA q :
               IF q.sz = 0 \/ s.short THEN [q EXCEPT !.ok = FALSE]
               ELSE [StoreBytes(q, s.vaddr, s.filesz, "f") EXCEPT !.panic = @ \/ ~(\A v \in pages : Readable(q, v))]))

Pushed(m, args) == IF args > PGSIZE THEN [m EXCEPT !.ok = FALSE] ELSE StoreBytes(m, m.sz - args, args, "s")
Stack(m, args) ==
  LET base == PGROUNDUP(m.sz) * PGSIZE
  IN  Try(m, LAMBDA a :
        Try(Uvmalloc([a EXCEPT !.sz = base], base, base + 2 * PGSIZE), LAMBDA q :
          Pushed([q EXCEPT !.leaf[base \div PGSIZE].user = FALSE], args)))

NewImage(m, prog) == Stack(FoldLeft(LoadSegment, m, prog.segs), prog.args)
-----------------------------------------------------------------------------
(* What a call leaves behind, whether it succeeds or not.                  *)
Leaves(p, m) ==
  /\ memOps < MaxMemOps /\ memOps' = memOps + 1
  /\ freelist' = m.free
  /\ ram' = m.ram
  /\ as' = [as EXCEPT ![p] = SpaceOf(m)]
  /\ mpanic' = (mpanic \/ m.panic)

Alive(p) == as[p] # NoSpace

ForkSpace(p, np, avail) ==
  /\ Alive(p) /\ ~Alive(np)
  /\ Leaves(np, Try(Allocproc(Work(NoSpace, avail)), LAMBDA a :
                  Undo(Uvmcopy(a, as[p]), LAMBDA c : Freeproc([c EXCEPT !.sz = 0]))))

(* The new image takes the place of the old one, or goes.                  *)
Swapped(n, old) ==
  IF n.ok THEN Turn(ProcFreepagetable(Turn(n, old)), SpaceOf(n)) ELSE Turn(ProcFreepagetable(n), old)
Replaced(q, prog, old) == IF q.ok THEN Swapped(NewImage(q, prog), old) ELSE Turn(q, old)

ExecSpace(p, prog, avail) ==
  Alive(p) /\ Leaves(p, Replaced(ProcPagetable(Work(as[p], avail)), prog, as[p]))

(* sbrk(): below zero p->sz + n wraps around, and nothing is freed.        *)
Growproc(p, n, avail) ==
  /\ Alive(p) /\ as[p].sz + n <= MaxSz
  /\ LET m == Work(as[p], avail)
         sz == as[p].sz
     IN  Leaves(p, IF n > 0 THEN Uvmalloc(m, sz, sz + n)
                   ELSE IF sz + n < 0 THEN m ELSE Uvmdealloc(m, sz, sz + n))

(* wait() frees what an exited child had. *)
Reap(p) ==
  /\ Alive(p) /\ p # MFirst
  /\ Leaves(p, Freeproc(Work(as[p], 0)))

(* copyout(): page by page, until one is not the user's.                   *)
Copyout(p, va, n) ==
  /\ Alive(p)
  /\ LET m == Work(as[p], 0)
         bad == {v \in va \div PGSIZE .. (va + n - 1) \div PGSIZE : ~Readable(m, v)}
     IN  Leaves(p, StoreBytes(m, va, IF bad = {} THEN n ELSE Max({0, Min(bad) * PGSIZE - va}), "w"))

(* userinit() on the memory that kinit() has freed.                        *)
Boot ==
  LET m == [free |-> Page, avail |-> NPAGE, ram |-> [g \in Page |-> Filled("junk")], got |-> 0,
            ok |-> TRUE, panic |-> FALSE, tf |-> 0, nodes |-> None, leaf |-> None, sz |-> 0]
  IN  StoreBytes(Uvmalloc(Allocproc(m), 0, PGSIZE), 0, 1, "i")

MemoryInit ==
  /\ freelist = Boot.free /\ ram = Boot.ram
  /\ as = [p \in MProc |-> IF p = MFirst THEN SpaceOf(Boot) ELSE NoSpace]
  /\ mpanic = Boot.panic
  /\ memOps = 0

MemoryNext ==
  \/ \E avail \in 0 .. Cardinality(freelist) :
       \/ \E p, np \in MProc : ForkSpace(p, np, avail)
       \/ \E p \in MProc, prog \in Programs : ExecSpace(p, prog, avail)
       \/ \E p \in MProc, n \in SbrkArgs : Growproc(p, n, avail)
  \/ \E p \in MProc : Reap(p)
  \/ \E p \in MProc, va \in CopyAddrs, n \in CopyLens : Copyout(p, va, n)
  \/ memOps = MaxMemOps /\ UNCHANGED memVars

MemorySpec == MemoryInit /\ [][MemoryNext]_memVars
-----------------------------------------------------------------------------
(* copyin() and copyinstr(): the loops over pages.                         *)
IsUser(p, v) == v \in DOMAIN as[p].leaf /\ as[p].leaf[v].user
\* bug: the offset into the page is ignored
PartFromStart(p, va, n) == [k \in 1 .. n |-> ram[as[p].leaf[va \div PGSIZE].pa][k - 1]]
Part(p, va, n) == [k \in 1 .. n |-> ram[as[p].leaf[va \div PGSIZE].pa][(va % PGSIZE) + k - 1]]
Failed == [ok |-> FALSE, b |-> <<>>]

RECURSIVE Copyin(_, _, _)
Copyin(p, va, len) ==
  LET n == Min({PGSIZE - (va % PGSIZE), len})
      rest == Copyin(p, (va \div PGSIZE + 1) * PGSIZE, len - n)
  IN  IF len = 0 THEN [ok |-> TRUE, b |-> <<>>]
      ELSE IF ~IsUser(p, va \div PGSIZE) \/ ~rest.ok THEN Failed
      ELSE [ok |-> TRUE, b |-> Part(p, va, n) \o rest.b]

RECURSIVE Copyinstr(_, _, _)
Copyinstr(p, va, max) ==
  LET n == Min({PGSIZE - (va % PGSIZE), max})
      part == Part(p, va, n)
      nul == {k \in 1 .. n : part[k] = "nul"}
      rest == Copyinstr(p, (va \div PGSIZE + 1) * PGSIZE, max - n)
  IN  IF max = 0 \/ ~IsUser(p, va \div PGSIZE) THEN Failed
      ELSE IF nul # {} THEN [ok |-> TRUE, b |-> SubSeq(part, 1, Min(nul) - 1)]
      ELSE IF ~rest.ok THEN Failed
      ELSE [ok |-> TRUE, b |-> part \o rest.b]
-----------------------------------------------------------------------------
(* Every page is free, or has one use in one process; the nodes of a page  *)
(* table are those it needs no more than once, its leaves the pages below  *)
(* p->sz and the two of the kernel.                                        *)
Uses(p) == 1 + Cardinality(DOMAIN as[p].nodes) + Cardinality(DOMAIN as[p].leaf \ {TRAMPOLINE, TRAPFRAME})
Used(p) == {as[p].tf} \cup {as[p].nodes[q] : q \in DOMAIN as[p].nodes}
             \cup {as[p].leaf[v].pa : v \in DOMAIN as[p].leaf \ {TRAMPOLINE, TRAPFRAME}}
MemoryAccounted ==
  LET live == {p \in MProc : Alive(p)}
  IN  /\ Page = freelist \cup UNION {Used(p) : p \in live}
      /\ NPAGE = Cardinality(freelist) + MapThenSumSet(LAMBDA p : Uses(p), live)
      /\ \A p \in live :
           /\ DOMAIN as[p].leaf = (0 .. PGROUNDUP(as[p].sz) - 1) \cup {TRAMPOLINE, TRAPFRAME}
           /\ as[p].leaf[TRAPFRAME].pa = as[p].tf

(* No caller breaks what mappages(), uvmunmap(), freewalk() and loadseg()  *)
(* require of it, also on the ways out when memory has run out.            *)
NoMemoryPanic == ~mpanic

(* copyin() returns n bytes exactly when all are in pages of the user, and *)
(* copyinstr() the string that ends before its bound and before the first  *)
(* page that is not the user's.                                            *)
ByteAt(p, a) == ram[as[p].leaf[a \div PGSIZE].pa][a % PGSIZE]
Reach(p, va, n) == \A a \in va .. va + n - 1 : IsUser(p, a \div PGSIZE)
Flat(p, va, n) == [k \in 1 .. n |-> ByteAt(p, va + k - 1)]
CopiesAreExact ==
  \A p \in {q \in MProc : Alive(q)}, va \in CopyAddrs, n \in CopyLens :
    /\ Copyin(p, va, n) = IF Reach(p, va, n) THEN [ok |-> TRUE, b |-> Flat(p, va, n)] ELSE Failed
    /\ LET ends == {k \in 0 .. n - 1 : Reach(p, va, k + 1) /\ ByteAt(p, va + k) = "nul"}
       IN  Copyinstr(p, va, n) = IF ends = {} THEN Failed
                                 ELSE [ok |-> TRUE, b |-> Flat(p, va, Min(ends))]

(* Seen through the page tables memory is what Spaces describes: no byte   *)
(* is shared, no byte is lost, and exec() and fork() are all or nothing.   *)
Seen(p) == IF ~Alive(p) THEN [alive |-> FALSE, sz |-> 0, mem |-> <<>>]
           ELSE [alive |-> TRUE, sz |-> as[p].sz, mem |-> [v \in 1 .. PGROUNDUP(as[p].sz) |->
                   [user |-> as[p].leaf[v - 1].user, b |-> ram[as[p].leaf[v - 1].pa]]]]
FirstImage == [alive |-> TRUE, sz |-> PGSIZE, mem |-> <<[user |-> TRUE, b |-> [Filled("nul") EXCEPT ![0] = "i"]]>>]
Loads(prog, a) == \E k \in DOMAIN prog.segs :
                    a >= prog.segs[k].vaddr /\ a < prog.segs[k].vaddr + prog.segs[k].filesz
ImageOf(prog) ==
  LET text == PGROUNDUP(Max({prog.segs[k].vaddr + prog.segs[k].memsz : k \in DOMAIN prog.segs}))
      sz == (text + 2) * PGSIZE
  IN  [alive |-> TRUE, sz |-> sz, mem |-> [v \in 1 .. text + 2 |->
         [user |-> v # text + 1,
          b |-> [k \in 0 .. PGSIZE - 1 |->
                   LET a == (v - 1) * PGSIZE + k
                   IN  IF a >= sz - prog.args THEN "s" ELSE IF Loads(prog, a) THEN "f" ELSE "nul"]]]]
Runnable(prog) ==
  prog.args <= PGSIZE /\ \A k \in DOMAIN prog.segs :
    LET s == prog.segs[k]
    IN  /\ ~s.short /\ s.filesz <= s.memsz /\ s.vaddr % PGSIZE = 0
        /\ s.vaddr + s.memsz < ADDR /\ (k = 1 => s.vaddr + s.memsz > 0)
View == INSTANCE Spaces WITH
  Owner <- MProc, PageSize <- PGSIZE, InitImage <- FirstImage, Growth <- SbrkArgs, Byte <- {"w"},
  Images <- {ImageOf(prog) : prog \in {q \in Programs : Runnable(q)}},
  Addrs <- CopyAddrs, Counts <- CopyLens, space <- [p \in MProc |-> Seen(p)]
ImplementsSpaces == View!SpacesSpec
=============================================================================
