------------------------------ MODULE FileSys -------------------------------
(***************************************************************************)
(* Inodes, directories and path names: the inode table of kernel/fs.c, the *)
(* walk of namex(), and the calls of kernel/sysfile.c that make and remove *)
(* names.  One action is one section under an inode's sleep-lock or under  *)
(* itable.lock; a process that holds a directory waits for its second      *)
(* inode with the first one locked, and iput() works through the list      *)
(* `puts' that a call leaves behind.  What files contain is in FileData;   *)
(* a write that runs out of disk blocks is a choice here.                  *)
(***************************************************************************)
EXTENDS Integers, Sequences, FiniteSets, FiniteSetsExt

CONSTANTS FsProc,               \* processes
          NINODES,              \* inodes on disk; 1 is the root
          Calls,                \* system calls: [op, path, new]
          MaxFsCalls            \* bound on the calls made

ASSUME FsAssumption == NINODES \in Nat /\ NINODES >= 3 /\ MaxFsCalls \in Nat

Inum == 1 .. NINODES
Slot == 1 .. NINODES            \* NINODE entries, enough for every inode

VARIABLES dinode,       \* inode -> [type, nlink] on disk, "none" when free
          dirents,      \* inode -> name -> inode, what a directory contains
          itable,       \* entry -> [inum, ref, valid, type, nlink]
          ilocked,      \* entry -> the holder of its sleep-lock, or 0
          pr,           \* process -> where it is in a call and what it holds
          fscalls       \* calls made so far
fsVars == <<dinode, dirents, itable, ilocked, pr, fscalls>>

NoInode == [type |-> "none", nlink |-> 0]
NoEntry == [inum |-> 0, ref |-> 0, valid |-> FALSE, type |-> "none", nlink |-> 0]
Names(d) == DOMAIN dirents[d]
NoNames == [n \in {} |-> 0]
Add(d, n, i) == [x \in DOMAIN d \cup {n} |-> IF x = n THEN i ELSE d[x]]

(* The tree /a/b, b a file or a directory; a process is in the root, in a  *)
(* or in b.  This is a state after mkdir(), create() and chdir() calls.    *)
Resting(cwd) == [pc |-> "idle", op |-> "none", rest |-> <<>>, new |-> <<>>,
              parent |-> FALSE, name |-> ".", ip |-> 0, dp |-> 0,
              puts |-> <<>>, freeing |-> "no", cwd |-> cwd, file |-> 0]

FsInit ==
  /\ \E tb \in {"file", "dir"} :
       /\ dinode = [i \in Inum |->
            CASE i = 1 -> [type |-> "dir", nlink |-> 2]
              [] i = 2 -> [type |-> "dir", nlink |-> IF tb = "dir" THEN 2 ELSE 1]
              [] i = 3 -> [type |-> tb, nlink |-> 1]
              [] OTHER -> NoInode]
       /\ dirents = [i \in Inum |->
            CASE i = 1 -> Add(Add(Add(NoNames, ".", 1), "..", 1), "a", 2)
              [] i = 2 -> Add(Add(Add(NoNames, ".", 2), "..", 1), "b", 3)
              [] i = 3 -> IF tb = "dir" THEN Add(Add(NoNames, ".", 3), "..", 2) ELSE NoNames
              [] OTHER -> NoNames]
  /\ \E cwd \in [FsProc -> {i \in Inum : dinode[i].type = "dir"}] :
       /\ pr = [p \in FsProc |-> Resting(cwd[p])]
       /\ itable = [s \in Slot |->
            LET n == Cardinality({p \in FsProc : cwd[p] = s})
            IN  IF n = 0 THEN NoEntry ELSE [inum |-> s, ref |-> n, valid |-> TRUE,
                                          type |-> dinode[s].type, nlink |-> dinode[s].nlink]]
  /\ ilocked = [s \in Slot |-> 0]
  /\ fscalls = 0

-----------------------------------------------------------------------------
\* bug: an entry that is not valid yet is passed over
EntriesValid(t, i) == {s \in Slot : t[s].ref > 0 /\ t[s].valid /\ t[s].inum = i}
(* iget(): the entry that holds inode i, or else the first one unused.     *)
EntriesOf(t, i) == {s \in Slot : t[s].ref > 0 /\ t[s].inum = i}
FreeEntries(t) == {s \in Slot : t[s].ref = 0}
IgetSlot(t, i) == IF EntriesOf(t, i) # {} THEN Min(EntriesOf(t, i)) ELSE Min(FreeEntries(t))
Iget(t, i) ==
  LET s == IgetSlot(t, i)
  IN  [t EXCEPT ![s] = IF EntriesOf(t, i) # {} THEN [@ EXCEPT !.ref = @ + 1]
                                             ELSE [NoEntry EXCEPT !.inum = i, !.ref = 1]]

(* ilock(), its sleep-lock aside: the entry is read when it is not valid.  *)
Fill(e) == IF e.valid THEN e
           ELSE [e EXCEPT !.valid = TRUE, !.type = dinode[e.inum].type,
                          !.nlink = dinode[e.inum].nlink]
Read(t, s) == [t EXCEPT ![s] = Fill(@)]

(* iupdate(): an entry's fields go to the disk. *)
Iupdate(d, e) == [d EXCEPT ![e.inum] = [type |-> e.type, nlink |-> e.nlink]]

Put(s) == [slot |-> s, unlock |-> FALSE]        \* iput()
UnlockPut(s) == [slot |-> s, unlock |-> TRUE]   \* iunlockput()

(* The end of a call, or of one of its steps, with iput()s still to do.    *)
Returns(r, puts) == [r EXCEPT !.pc = "idle", !.op = "none", !.ip = 0, !.dp = 0, !.rest = <<>>,
                           !.new = <<>>, !.parent = FALSE, !.name = ".", !.puts = puts]
Stands(p, pc) == pr[p].pc = pc /\ pr[p].puts = <<>>
Lockable(s) == ilocked[s] = 0
Panics(p) == /\ pr' = [pr EXCEPT ![p].pc = "panic"]
             /\ UNCHANGED <<dinode, dirents, itable, ilocked, fscalls>>

-----------------------------------------------------------------------------
(* namex() starts at the root or, by idup(), at the current directory.     *)
(* Where it ends depends on the call; a parent's name cannot be empty.     *)
Arrives(r, s, rest) ==
  IF rest # <<>> THEN [r EXCEPT !.pc = "walk", !.ip = s, !.rest = rest]
  ELSE IF ~r.parent THEN [r EXCEPT !.pc = r.op, !.ip = s, !.rest = <<>>]
  ELSE IF r.op = "link" THEN [r EXCEPT !.pc = "unlink_old", !.ip = r.dp, !.dp = 0, !.puts = <<Put(s)>>]
  ELSE Returns(r, <<Put(s)>>)

NameiParent(op) == op \in {"create", "mkdir", "mknod", "unlink"}
StartSlot(p, path) == IF path.abs THEN IgetSlot(itable, 1) ELSE pr[p].cwd
\* bug: no idup() of the current directory
StartNoDup(p, path) == IF path.abs THEN Iget(itable, 1) ELSE itable
StartTable(p, path) == IF path.abs THEN Iget(itable, 1) ELSE [itable EXCEPT ![pr[p].cwd].ref = @ + 1]

FsCall(p, c) ==
  /\ Stands(p, "idle") /\ fscalls < MaxFsCalls
  /\ fscalls' = fscalls + 1
  /\ itable' = StartTable(p, c.path)
  /\ pr' = [pr EXCEPT ![p] =
              Arrives([@ EXCEPT !.op = c.op, !.parent = NameiParent(c.op),
                                !.new = IF c.op = "link" THEN <<c.new>> ELSE <<>>],
                      StartSlot(p, c.path), c.path.names)]
  /\ UNCHANGED <<dinode, dirents, ilocked>>

(* A walk that fails: in link() the first name has been counted already.   *)
Lost(r, puts) ==
  IF r.op = "link" /\ r.parent
  THEN [r EXCEPT !.pc = "unlink_old", !.ip = r.dp, !.dp = 0, !.rest = <<>>, !.puts = puts]
  ELSE Returns(r, puts)

(* One element: lock the directory, look the name up, unlock, put.  For a  *)
(* parent the walk stops one level early.                                  *)
NamexStep(p) ==
  /\ Stands(p, "walk") /\ Lockable(pr[p].ip)
  /\ LET r == pr[p]
         s == r.ip
         t == Read(itable, s)
         n == Head(r.rest)
         last == Tail(r.rest) = <<>>
     IN  IF t[s].type = "none" THEN Panics(p)
         ELSE /\ UNCHANGED <<dinode, dirents, ilocked, fscalls>>
              /\ IF t[s].type # "dir" THEN
                   /\ itable' = t /\ pr' = [pr EXCEPT ![p] = Lost(r, <<Put(s)>>)]
                 ELSE IF r.parent /\ last THEN
                   /\ itable' = t
                   /\ pr' = [pr EXCEPT ![p] = IF r.op = "link"
                        THEN [r EXCEPT !.pc = "link_new", !.name = n, !.rest = <<>>, !.ip = r.dp, !.dp = s]
                        ELSE [r EXCEPT !.pc = r.op, !.name = n, !.rest = <<>>, !.ip = 0, !.dp = s]]
                 ELSE IF n \notin Names(t[s].inum) THEN
                   /\ itable' = t /\ pr' = [pr EXCEPT ![p] = Lost(r, <<Put(s)>>)]
                 ELSE
                   LET i == dirents[t[s].inum][n]
                   IN  /\ itable' = Iget(t, i)
                       /\ pr' = [pr EXCEPT ![p] = [Arrives([r EXCEPT !.name = n], IgetSlot(t, i), Tail(r.rest))
                                                     EXCEPT !.puts = <<Put(s)>>]]
-----------------------------------------------------------------------------
\* bug: the reference need not be the last one
DoomedShared(e) == e.valid /\ e.nlink = 0
\* bug: the links are not looked at
DoomedLinked(e) == e.ref = 1 /\ e.valid
(* iput().  The last reference to an inode without a name frees it:        *)
(* locked, but without itable.lock, the inode is marked free on disk, made *)
(* invalid, and only then released.                                        *)
Doomed(e) == e.ref = 1 /\ e.valid /\ e.nlink = 0
Dropped(e) == IF e.ref = 1 THEN NoEntry ELSE [e EXCEPT !.ref = @ - 1]
Putting(p) == pr[p].puts # <<>> /\ pr[p].freeing = "no" /\ ~Head(pr[p].puts).unlock

(* iunlockput() first releases the sleep-lock.                             *)
Iunlock(p) ==
  /\ pr[p].puts # <<>> /\ Head(pr[p].puts).unlock
  /\ LET s == Head(pr[p].puts).slot
     IN  /\ ilocked' = [ilocked EXCEPT ![s] = 0]
         /\ pr' = [pr EXCEPT ![p].puts = <<Put(s)>> \o Tail(@)]
  /\ UNCHANGED <<dinode, dirents, itable, fscalls>>

Iput(p) ==
  /\ Putting(p)
  /\ LET s == Head(pr[p].puts).slot
     IN  IF Doomed(itable[s])
         THEN /\ ilocked[s] = 0
              /\ ilocked' = [ilocked EXCEPT ![s] = p]
              /\ pr' = [pr EXCEPT ![p].freeing = "trunc"]
              /\ UNCHANGED itable
         ELSE /\ itable' = [itable EXCEPT ![s] = Dropped(@)]
              /\ pr' = [pr EXCEPT ![p].puts = Tail(@)]
              /\ UNCHANGED ilocked
  /\ UNCHANGED <<dinode, dirents, fscalls>>

IputFree(p) ==
  /\ pr[p].freeing = "trunc"
  /\ LET s == Head(pr[p].puts).slot
         e == [itable[s] EXCEPT !.type = "none"]
     IN  /\ itable' = [itable EXCEPT ![s] = e]
         /\ dinode' = Iupdate(dinode, e)
         /\ dirents' = [dirents EXCEPT ![e.inum] = NoNames]
  /\ pr' = [pr EXCEPT ![p].freeing = "release"]
  /\ UNCHANGED <<ilocked, fscalls>>

\* bug: ip->valid is left set
IputReleaseValid(p) ==
  /\ pr[p].freeing = "release"
  /\ ilocked' = [ilocked EXCEPT ![Head(pr[p].puts).slot] = 0]
  /\ pr' = [pr EXCEPT ![p].freeing = "drop"]
  /\ UNCHANGED <<dinode, dirents, itable, fscalls>>
IputRelease(p) ==
  /\ pr[p].freeing = "release"
  /\ LET s == Head(pr[p].puts).slot
     IN  /\ itable' = [itable EXCEPT ![s].valid = FALSE]
         /\ ilocked' = [ilocked EXCEPT ![s] = 0]
  /\ pr' = [pr EXCEPT ![p].freeing = "drop"]
  /\ UNCHANGED <<dinode, dirents, fscalls>>

IputDrop(p) ==
  /\ pr[p].freeing = "drop"
  /\ itable' = [itable EXCEPT ![Head(pr[p].puts).slot] = Dropped(@)]
  /\ pr' = [pr EXCEPT ![p].freeing = "no", ![p].puts = Tail(@)]
  /\ UNCHANGED <<dinode, dirents, ilocked, fscalls>>
-----------------------------------------------------------------------------
(* The end of sys_open(), with ip locked: the file, or no room for it.     *)
OpenTail(r, s) == IF r.file = 0 THEN [Returns(r, <<>>) EXCEPT !.file = s] ELSE Returns(r, <<Put(s)>>)

(* open() of an existing name, for reading or for writing.                 *)
Open1(p) ==
  /\ pr[p].op \in {"open", "openw"} /\ Stands(p, pr[p].op) /\ Lockable(pr[p].ip)
  /\ LET r == pr[p]
         t == Read(itable, r.ip)
     IN  IF t[r.ip].type = "none" THEN Panics(p)
         ELSE /\ itable' = t
              /\ pr' = [pr EXCEPT ![p] = IF t[r.ip].type = "dir" /\ r.op = "openw"
                                         THEN Returns(r, <<Put(r.ip)>>) ELSE OpenTail(r, r.ip)]
              /\ UNCHANGED <<dinode, dirents, ilocked, fscalls>>

FsClose(p) ==
  /\ Stands(p, "idle") /\ pr[p].file # 0
  /\ pr' = [pr EXCEPT ![p].file = 0, ![p].puts = <<Put(pr[p].file)>>]
  /\ UNCHANGED <<dinode, dirents, itable, ilocked, fscalls>>

Chdir(p) ==
  /\ Stands(p, "chdir") /\ Lockable(pr[p].ip)
  /\ LET r == pr[p]
         t == Read(itable, r.ip)
     IN  IF t[r.ip].type = "none" THEN Panics(p)
         ELSE /\ itable' = t
              /\ pr' = [pr EXCEPT ![p] = IF t[r.ip].type # "dir" THEN Returns(r, <<Put(r.ip)>>)
                                         ELSE [Returns(r, <<Put(r.cwd)>>) EXCEPT !.cwd = r.ip]]
              /\ UNCHANGED <<dinode, dirents, ilocked, fscalls>>

TypeOf(op) == CASE op = "create" -> "file" [] op = "mkdir" -> "dir" [] op = "mknod" -> "device"

(* create(): the parent is locked; an existing name may be opened.         *)
Create(p) ==
  /\ NameiParent(pr[p].op) /\ pr[p].op # "unlink" /\ Stands(p, pr[p].op) /\ Lockable(pr[p].dp)
  /\ LET r == pr[p]
         t == Read(itable, r.dp)
         d == t[r.dp].inum
         free == {i \in Inum : dinode[i].type = "none"}
     IN  IF r.name \in Names(d) THEN
           /\ itable' = Iget(t, dirents[d][r.name])
           /\ pr' = [pr EXCEPT ![p] = [r EXCEPT !.pc = "exists", !.ip = IgetSlot(t, dirents[d][r.name]),
                                                !.dp = 0, !.puts = <<Put(r.dp)>>]]
           /\ UNCHANGED <<dinode, ilocked>>
         ELSE IF free = {} THEN
           /\ itable' = t
           /\ pr' = [pr EXCEPT ![p] = Returns(r, <<Put(r.dp)>>)]
           /\ UNCHANGED <<dinode, ilocked>>
         ELSE                                   \* ialloc() marks the inode
           /\ dinode' = [dinode EXCEPT ![Min(free)] = [type |-> TypeOf(r.op), nlink |-> 0]]
           /\ itable' = t
           /\ ilocked' = [ilocked EXCEPT ![r.dp] = p]
           /\ pr' = [pr EXCEPT ![p] = [r EXCEPT !.pc = "iget", !.rest = <<Min(free)>>]]
  /\ UNCHANGED <<dirents, fscalls>>

Exists(p) ==
  /\ Stands(p, "exists") /\ Lockable(pr[p].ip)
  /\ LET r == pr[p]
         t == Read(itable, r.ip)
     IN  IF t[r.ip].type = "none" THEN Panics(p)
         ELSE /\ itable' = t
              /\ pr' = [pr EXCEPT ![p] = IF r.op = "create" /\ t[r.ip].type \in {"file", "device"}
                                         THEN OpenTail(r, r.ip) ELSE Returns(r, <<Put(r.ip)>>)]
              /\ UNCHANGED <<dinode, dirents, ilocked, fscalls>>

(* ialloc()'s iget(). *)
CreateIget(p) ==
  /\ Stands(p, "iget")
  /\ LET i == Head(pr[p].rest)
     IN  /\ itable' = Iget(itable, i)
         /\ pr' = [pr EXCEPT ![p].pc = "made", ![p].rest = <<>>, ![p].ip = IgetSlot(itable, i)]
  /\ UNCHANGED <<dinode, dirents, ilocked, fscalls>>

(* The new inode gets its link count, a directory its two entries, and the *)
(* parent the name; either write may run out of blocks, and then the inode *)
(* is given up again.  Both inodes are locked.                             *)
CreateMade(p, full) ==
  /\ Stands(p, "made") /\ Lockable(pr[p].ip)
  /\ LET r == pr[p]
         dir == r.op = "mkdir"
         t == Read(itable, r.ip)
         i == t[r.ip].inum
         d == t[r.dp].inum
         ti == [t EXCEPT ![r.ip].nlink = IF full = "no" THEN 1 ELSE 0]
         tt == IF dir /\ full = "no" THEN [ti EXCEPT ![r.dp].nlink = @ + 1] ELSE ti
         dots == IF dir /\ full # "self" THEN Add(Add(NoNames, ".", i), "..", d) ELSE NoNames
     IN  /\ full = "self" => dir
         /\ IF t[r.ip].type = "none" THEN Panics(p)
            ELSE /\ itable' = tt
                 /\ dinode' = Iupdate(Iupdate(dinode, tt[r.ip]), tt[r.dp])
                 /\ dirents' = [dirents EXCEPT ![i] = dots,
                                               ![d] = IF full = "no" THEN Add(@, r.name, i) ELSE @]
                 /\ ilocked' = [ilocked EXCEPT ![r.ip] = p]
                 /\ pr' = [pr EXCEPT ![p] =
                      IF full # "no" THEN Returns(r, <<UnlockPut(r.ip), UnlockPut(r.dp)>>)
                      ELSE IF r.op = "create"
                      THEN [r EXCEPT !.pc = "created", !.dp = 0, !.puts = <<UnlockPut(r.dp)>>]
                      ELSE Returns(r, <<UnlockPut(r.dp), UnlockPut(r.ip)>>)]
                 /\ UNCHANGED fscalls

Created(p) ==
  /\ Stands(p, "created")
  /\ ilocked' = [ilocked EXCEPT ![pr[p].ip] = 0]
  /\ pr' = [pr EXCEPT ![p] = OpenTail(pr[p], pr[p].ip)]
  /\ UNCHANGED <<dinode, dirents, itable, fscalls>>
-----------------------------------------------------------------------------
(* sys_unlink(): the parent locked, then the inode.                        *)
Unlink(p) ==
  /\ Stands(p, "unlink") /\ Lockable(pr[p].dp)
  /\ LET r == pr[p]
         t == Read(itable, r.dp)
         d == t[r.dp].inum
     IN  IF r.name \in {".", ".."} \/ r.name \notin Names(d)
         THEN /\ itable' = t
              /\ pr' = [pr EXCEPT ![p] = Returns(r, <<Put(r.dp)>>)]
              /\ UNCHANGED ilocked
         ELSE /\ itable' = Iget(t, dirents[d][r.name])
              /\ ilocked' = [ilocked EXCEPT ![r.dp] = p]
              /\ pr' = [pr EXCEPT ![p] = [r EXCEPT !.pc = "remove", !.ip = IgetSlot(t, dirents[d][r.name])]]
  /\ UNCHANGED <<dinode, dirents, fscalls>>

IsDirEmpty(i) == Names(i) \subseteq {".", ".."}

UnlinkRemove(p) ==
  /\ Stands(p, "remove") /\ Lockable(pr[p].ip)
  /\ LET r == pr[p]
         t == Read(itable, r.ip)
         d == t[r.dp].inum
         dir == t[r.ip].type = "dir"
         tt == IF dir THEN [t EXCEPT ![r.dp].nlink = @ - 1] ELSE t
     IN  IF t[r.ip].type = "none" \/ t[r.ip].nlink < 1 THEN Panics(p)
         ELSE IF dir /\ ~IsDirEmpty(t[r.ip].inum) THEN
           /\ itable' = t
           /\ pr' = [pr EXCEPT ![p] = Returns(r, <<Put(r.ip), UnlockPut(r.dp)>>)]
           /\ UNCHANGED <<dinode, dirents, ilocked, fscalls>>
         ELSE
           /\ itable' = tt
           /\ dinode' = Iupdate(dinode, tt[r.dp])
           /\ dirents' = [dirents EXCEPT ![d] = [n \in DOMAIN @ \ {r.name} |-> @[n]]]
           /\ ilocked' = [ilocked EXCEPT ![r.ip] = p]
           /\ pr' = [pr EXCEPT ![p] = [r EXCEPT !.pc = "unlinked", !.dp = 0, !.puts = <<UnlockPut(r.dp)>>]]
           /\ UNCHANGED fscalls

Unlinked1(p) ==
  /\ Stands(p, "unlinked")
  /\ LET s == pr[p].ip
         e == [itable[s] EXCEPT !.nlink = @ - 1]
     IN  /\ itable' = [itable EXCEPT ![s] = e]
         /\ dinode' = Iupdate(dinode, e)
         /\ pr' = [pr EXCEPT ![p] = Returns(pr[p], <<UnlockPut(s)>>)]
  /\ UNCHANGED <<dirents, ilocked, fscalls>>
-----------------------------------------------------------------------------
\* bug: the new link is not counted
LinkUncounted(p) ==
  /\ Stands(p, "link") /\ ~pr[p].parent /\ Lockable(pr[p].ip)
  /\ LET t == Read(itable, pr[p].ip)
     IN  /\ t[pr[p].ip].type \notin {"none", "dir"}
         /\ itable' = t
  /\ pr' = [pr EXCEPT ![p].pc = "link_walk", ![p].dp = pr[p].ip, ![p].ip = 0, ![p].parent = TRUE]
  /\ UNCHANGED <<dinode, dirents, ilocked, fscalls>>
(* sys_link(): the count goes up before the name is made, and down again   *)
(* when it cannot be.                                                      *)
Link(p) ==
  /\ Stands(p, "link") /\ ~pr[p].parent /\ Lockable(pr[p].ip)
  /\ LET r == pr[p]
         t == Read(itable, r.ip)
         e == [t[r.ip] EXCEPT !.nlink = @ + 1]
     IN  IF e.type = "none" THEN Panics(p)
         ELSE IF e.type = "dir" THEN
           /\ itable' = t
           /\ pr' = [pr EXCEPT ![p] = Returns(r, <<Put(r.ip)>>)]
           /\ UNCHANGED <<dinode, dirents, ilocked, fscalls>>
         ELSE
           /\ itable' = [t EXCEPT ![r.ip] = e]
           /\ dinode' = Iupdate(dinode, e)
           /\ pr' = [pr EXCEPT ![p] = [r EXCEPT !.pc = "link_walk", !.dp = r.ip, !.ip = 0, !.parent = TRUE]]
           /\ UNCHANGED <<dirents, ilocked, fscalls>>

LinkWalk(p) ==
  /\ Stands(p, "link_walk")
  /\ LET path == Head(pr[p].new)
     IN  /\ itable' = StartTable(p, path)
         /\ pr' = [pr EXCEPT ![p] = Arrives([@ EXCEPT !.new = <<>>], StartSlot(p, path), path.names)]
  /\ UNCHANGED <<dinode, dirents, ilocked, fscalls>>

(* dirlink() fails when the name exists or the directory cannot grow.      *)
LinkNew(p, full) ==
  /\ Stands(p, "link_new") /\ Lockable(pr[p].dp)
  /\ LET r == pr[p]
         t == Read(itable, r.dp)
         d == t[r.dp].inum
         bad == [r EXCEPT !.pc = "unlink_old", !.dp = 0]
     IN  IF r.name \in Names(d) THEN
           /\ full = "no"
           /\ itable' = Iget(t, dirents[d][r.name])
           /\ ilocked' = [ilocked EXCEPT ![r.dp] = p]
           /\ pr' = [pr EXCEPT ![p] = [bad EXCEPT !.puts = <<Put(IgetSlot(t, dirents[d][r.name])), UnlockPut(r.dp)>>]]
           /\ UNCHANGED dirents
         ELSE IF full = "parent" THEN
           /\ itable' = t
           /\ pr' = [pr EXCEPT ![p] = [bad EXCEPT !.puts = <<Put(r.dp)>>]]
           /\ UNCHANGED <<dirents, ilocked>>
         ELSE
           /\ itable' = t
           /\ dirents' = [dirents EXCEPT ![d] = Add(@, r.name, t[r.ip].inum)]
           /\ pr' = [pr EXCEPT ![p] = Returns(r, <<Put(r.dp), Put(r.ip)>>)]
           /\ UNCHANGED ilocked
  /\ UNCHANGED <<dinode, fscalls>>

LinkBad(p) ==
  /\ Stands(p, "unlink_old") /\ Lockable(pr[p].ip)
  /\ LET s == pr[p].ip
         e == [itable[s] EXCEPT !.nlink = @ - 1]
     IN  /\ itable' = [itable EXCEPT ![s] = e]
         /\ dinode' = Iupdate(dinode, e)
         /\ pr' = [pr EXCEPT ![p] = Returns(pr[p], <<Put(s)>>)]
  /\ UNCHANGED <<dirents, ilocked, fscalls>>
-----------------------------------------------------------------------------
Panicked == \E p \in FsProc : pr[p].pc = "panic"
FsQuiet ==
  /\ Panicked \/ (fscalls = MaxFsCalls /\ \A p \in FsProc : Stands(p, "idle") /\ pr[p].file = 0)
  /\ UNCHANGED fsVars

FsNext ==
  \/ /\ ~Panicked
     /\ \E p \in FsProc :
          \/ \E c \in Calls : FsCall(p, c)
          \/ NamexStep(p) \/ Iunlock(p) \/ Iput(p) \/ IputFree(p) \/ IputRelease(p) \/ IputDrop(p)
          \/ Open1(p) \/ FsClose(p) \/ Chdir(p)
          \/ Create(p) \/ Exists(p) \/ CreateIget(p)
          \/ \E full \in {"no", "self", "parent"} : CreateMade(p, full)
          \/ Created(p)
          \/ Unlink(p) \/ UnlinkRemove(p) \/ Unlinked1(p)
          \/ Link(p) \/ LinkWalk(p) \/ LinkBad(p)
          \/ \E full \in {"no", "parent"} : LinkNew(p, full)
  \/ FsQuiet

FsSpec == FsInit /\ [][FsNext]_fsVars
-----------------------------------------------------------------------------
(* Two entries of the table never stand for one inode (iget(), fs.c:246).  *)
OneSlotPerInode ==
  \A s, u \in Slot : itable[s].ref > 0 /\ itable[u].ref > 0 /\ itable[s].inum = itable[u].inum => s = u

(* ip->ref counts the pointers to the entry: current directories, open     *)
(* files, and what calls in progress still have to put.                    *)
Pointers(p, s) ==
  Cardinality({f \in {"cwd", "file", "ip", "dp"} : pr[p][f] = s})
    + Cardinality({k \in DOMAIN pr[p].puts : pr[p].puts[k].slot = s})
RefsCounted == \A s \in Slot : itable[s].ref = MapThenSumSet(LAMBDA p : Pointers(p, s), FsProc)

(* A valid entry that nobody has locked agrees with the disk: also when    *)
(* iput() frees the inode while ialloc() gives it to another process.      *)
EntriesMatchDisk ==
  \A s \in Slot : itable[s].ref > 0 /\ itable[s].valid /\ ilocked[s] = 0 =>
    dinode[itable[s].inum] = [type |-> itable[s].type, nlink |-> itable[s].nlink]

(* fs.c:344-345: the last reference finds the sleep-lock free.             *)
IputNeverBlocks ==
  \A p \in FsProc : Putting(p) =>
    LET s == Head(pr[p].puts).slot IN Doomed(itable[s]) => ilocked[s] = 0

(* An inode never has fewer links than names, so that one that has a name  *)
(* is not freed: link() counts first, unlink() last.                       *)
NamesOf(i) == {<<d, n>> \in Inum \X {"a", "b"} : n \in Names(d) /\ dirents[d][n] = i}
LinksCoverNames == \A i \in Inum : Cardinality(NamesOf(i)) <= dinode[i].nlink

(* Names lead to inodes in use, "." to the directory itself; only the ".." *)
(* of a directory that has been removed may have outlived its parent, and  *)
(* following it is the one way to the panic of ilock().                    *)
NoDanglingName ==
  /\ \A d \in Inum : \A n \in Names(d) :
       /\ n # ".." \/ d = 1 \/ NamesOf(d) # {} => dinode[dirents[d][n]].type # "none"
       /\ n = "." => dirents[d][n] = d
  /\ \A p \in FsProc : pr[p].pc = "panic" => pr[p].name = ".."

(* fs.c:332-333: an inode without links that nobody refers to is free.     *)
UnnamedIsFreed ==
  (\A p \in FsProc : Stands(p, "idle")) =>
    \A i \in Inum : dinode[i].type # "none" /\ dinode[i].nlink = 0 => EntriesOf(itable, i) # {}
=============================================================================
