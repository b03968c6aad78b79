------------------------------ MODULE Peterson ------------------------------
(***************************************************************************)
(* The Peterson locks of kernel/peterson.c: a table of two-role locks and  *)
(* the four system calls on it.  Everything a call reads or writes in a    *)
(* slot it reads or writes holding that slot's spinlock lk, so a stretch   *)
(* of code between acquire(&pl->lk) and release(&pl->lk) is one step here. *)
(* The slots' active bits change only under ptable_lock, so the scan of    *)
(* peterson_alloc is one step too.                                         *)
(*                                                                         *)
(* The callers are arbitrary user processes.  Spec lets them make any call *)
(* with any argument; DisciplinedSpec keeps them to the protocol that      *)
(* ptest.c and libtournament.c follow (see "The callers").                 *)
(***************************************************************************)
EXTENDS Integers

CONSTANTS Proc,            \* the processes that call
          NPETERSONLOCKS   \* slots of the table (16 in kernel/peterson.h)

ASSUME TableSize == NPETERSONLOCKS \in Nat \ {0}

VARIABLES ptable,    \* slot -> [active, flag, turn]
          waiting,   \* <<p, id, role>>: p is in the loop of an acquire call,
                     \* at yield(), off the spinlock
          held,      \* <<p, id, role>>: an acquire call of p returned 0 and no
                     \* release call of p succeeded since (the caller's view)
          doomed,    \* waiting processes whose lock was destroyed meanwhile
          dead,      \* processes that exited
          ret        \* the result of each process's last call

vars == <<ptable, waiting, held, doomed, dead, ret>>

Id == 0 .. NPETERSONLOCKS - 1
Role == {0, 1}
Claim == Proc \X Id \X Role

\* The arguments a caller may pass: the valid ones and their neighbours.
ArgId == -1 .. NPETERSONLOCKS
ArgRole == -1 .. 2

Slot == [active : BOOLEAN, flag : [Role -> {0, 1}], turn : Role]

TypeOK ==
  /\ ptable \in [Id -> Slot]
  /\ waiting \subseteq Claim
  /\ held \subseteq Claim
  /\ doomed \subseteq Proc
  /\ dead \subseteq Proc
  /\ ret \in [Proc -> -1 .. NPETERSONLOCKS - 1]

-----------------------------------------------------------------------------
(* The slots.                                                              *)

NoFlag == [r \in Role |-> 0]
Unused == [active |-> FALSE, flag |-> NoFlag, turn |-> 0]
Fresh == [active |-> TRUE, flag |-> NoFlag, turn |-> 0]

Init ==
  /\ ptable = [i \in Id |-> Unused]
  /\ waiting = {} /\ held = {} /\ doomed = {} /\ dead = {}
  /\ ret = [p \in Proc |-> 0]

\* peterson_free
Freed(pl) == Unused

\* bug: turn set to the caller's own role
InterestedSelfish(pl, role) ==
  [active |-> pl.active, flag |-> [pl.flag EXCEPT ![role] = 1], turn |-> role]
\* bug: turn not set at all
InterestedNoTurn(pl, role) == [pl EXCEPT !.flag[role] = 1]
\* bug: turn set off by one
InterestedOffByOne(pl, role) ==
  [active |-> pl.active, flag |-> [pl.flag EXCEPT ![role] = 1], turn |-> 1 + role]
\* the two assignments that announce interest
Interested(pl, role) ==
  [active |-> pl.active, flag |-> [pl.flag EXCEPT ![role] = 1], turn |-> 1 - role]

\* bug: the loop condition without its test of turn
MustWaitFlagOnly(pl, role) == pl.flag[1 - role] = 1
\* the loop condition
MustWait(pl, role) == pl.flag[1 - role] = 1 /\ pl.turn = 1 - role

\* p can make a call: it is alive and not inside one
Runs(p) == p \notin dead /\ \A w \in waiting : w[1] # p

Returns(p, r) == ret' = [ret EXCEPT ![p] = r]

-----------------------------------------------------------------------------
(* The system calls.                                                       *)

\* the slot peterson_alloc stops at: the first inactive one
FirstFree(i) == ~ptable[i].active /\ \A j \in 0 .. i - 1 : ptable[j].active

sys_peterson_create(p) ==
  /\ Runs(p)
  /\ \/ \E i \in Id : /\ FirstFree(i)
                      /\ ptable' = [ptable EXCEPT ![i] = Fresh]
                      /\ Returns(p, i)
     \/ /\ \A i \in Id : ptable[i].active
        /\ Returns(p, -1)
        /\ UNCHANGED ptable
  /\ UNCHANGED <<waiting, held, doomed, dead>>

\* the checks of acquire, release and destroy: arguments in range, slot active
Usable(id, role) == id \in Id /\ role \in Role /\ ptable[id].active

\* The early returns of acquire, release and destroy.
Rejected(p, id, role) ==
  /\ Runs(p)
  /\ ~Usable(id, role)
  /\ Returns(p, -1)
  /\ UNCHANGED <<ptable, waiting, held, doomed, dead>>

\* Announce interest and test the loop condition for the first time.
Entered(p, id, role) ==
  /\ Runs(p)
  /\ Usable(id, role)
  /\ ptable' = [ptable EXCEPT ![id] = Interested(@, role)]
  /\ IF MustWait(ptable'[id], role)
       THEN waiting' = waiting \cup {<<p, id, role>>} /\ UNCHANGED <<held, ret>>
       ELSE held' = held \cup {<<p, id, role>>} /\ Returns(p, 0) /\ UNCHANGED waiting
  /\ UNCHANGED <<doomed, dead>>

sys_peterson_acquire(p, id, role) ==
  Entered(p, id, role) \/ Rejected(p, id, role)

\* what the call returns once the loop is left
RecheckResult(id) == IF ptable[id].active THEN 0 ELSE -1

\* Back from yield() with the spinlock: leave the loop and return.  (A test
\* that sends the process back to yield() changes nothing.)
Recheck(p, id, role) ==
  /\ <<p, id, role>> \in waiting
  /\ ~ptable[id].active \/ ~MustWait(ptable[id], role)
  /\ waiting' = waiting \ {<<p, id, role>>}
  /\ held' = IF RecheckResult(id) = 0 THEN held \cup {<<p, id, role>>} ELSE held
  /\ Returns(p, RecheckResult(id))
  /\ doomed' = doomed \ {p}
  /\ UNCHANGED <<ptable, dead>>

Released(pl, role) == [pl EXCEPT !.flag[role] = 0]

sys_peterson_release(p, id, role) ==
  \/ Rejected(p, id, role)
  \/ /\ Runs(p)
     /\ Usable(id, role)
     /\ ptable' = [ptable EXCEPT ![id] = Released(@, role)]
     /\ held' = held \ {<<p, id, role>>}
     /\ Returns(p, 0)
     /\ UNCHANGED <<waiting, doomed, dead>>

sys_peterson_destroy(p, id) ==
  \/ Rejected(p, id, 0)
  \/ /\ Runs(p)
     /\ Usable(id, 0)
     /\ ptable' = [ptable EXCEPT ![id] = Freed(@)]
     /\ doomed' = doomed \cup {q \in Proc : \E w \in waiting : w[1] = q /\ w[2] = id}
     /\ Returns(p, 0)
     /\ UNCHANGED <<waiting, held, dead>>

\* exit() or a kill taken on the way back to user space (usertrap); neither
\* touches ptable, so whatever the process held stays flagged.
exit(p) ==
  /\ Runs(p)
  /\ dead' = dead \cup {p}
  /\ UNCHANGED <<ptable, waiting, held, doomed, ret>>

Next ==
  \/ \E p \in Proc : sys_peterson_create(p) \/ exit(p)
  \/ \E p \in Proc, id \in ArgId :
       \/ sys_peterson_destroy(p, id)
       \/ \E role \in ArgRole : \/ sys_peterson_acquire(p, id, role)
                                \/ sys_peterson_release(p, id, role)
  \/ \E p \in Proc, id \in Id, role \in Role : Recheck(p, id, role)

Spec == Init /\ [][Next]_vars

-----------------------------------------------------------------------------
(* What holds whatever the callers do.                                     *)

\* A slot that is not active is clean: both flags 0.  peterson_alloc hands out
\* clean slots, and a process that waits on a slot that was destroyed and not
\* created again finds its loop condition false (so the test of active inside
\* the loop of sys_peterson_acquire never succeeds, the one after it does).
InactiveIsReset == \A i \in Id : ~ptable[i].active => ptable[i] = Unused

\* A raised flag always has a process behind it: one in the loop of acquire,
\* or one that got the lock and still owes the release.  Destroying, failing
\* and creating again never leave a flag raised that nobody will lower.
FlagHasClaimant ==
  \A i \in Id, r \in Role :
    ptable[i].flag[r] = 1 => \E p \in Proc : <<p, i, r>> \in waiting \cup held

\* The comments in sys_peterson_acquire ("Lock destroyed while waiting", "Lock
\* destroyed just before acquisition completed"): the call of a process whose
\* lock is destroyed while it waits returns -1.
DestroyedWaiterFails ==
  [][\A p \in doomed : p \notin doomed' => ret'[p] = -1]_vars

-----------------------------------------------------------------------------
(* The callers.  ptest.c and libtournament.c use a lock so: each role has  *)
(* one user at a time, a process uses a lock in one role, only the holder  *)
(* releases, and nobody destroys a lock that is in use.  They may still    *)
(* make calls that are rejected, and exit at any point outside a call,     *)
(* holding what they hold.                                                 *)

Claims(id) == {c \in waiting \cup held : c[2] = id}

MayAcquire(p, id, role) == \A c \in Claims(id) : c[1] # p /\ c[3] # role

Create == \E p \in Proc : sys_peterson_create(p)
Acquire(p, id, role) == MayAcquire(p, id, role) /\ sys_peterson_acquire(p, id, role)
Release(p, id, role) == <<p, id, role>> \in held /\ sys_peterson_release(p, id, role)
Destroy(p, id) == Claims(id) = {} /\ sys_peterson_destroy(p, id)

DisciplinedNext ==
  \/ Create
  \/ \E p \in Proc, id \in ArgId, role \in ArgRole : Rejected(p, id, role)
  \/ \E p \in Proc : exit(p)
  \/ \E p \in Proc, id \in Id : Destroy(p, id)
  \/ \E p \in Proc, id \in Id, role \in Role :
       Acquire(p, id, role) \/ Recheck(p, id, role) \/ Release(p, id, role)

\* The same callers, except that they may destroy a lock others still use.
LateDestroyNext ==
  \/ DisciplinedNext
  \/ \E p \in Proc, id \in Id : sys_peterson_destroy(p, id)

LateDestroySpec == Init /\ [][LateDestroyNext]_vars

\* yield() leaves the process RUNNABLE and scheduler() passes over the whole
\* process table again and again, so a process in the loop is always run again.
Fairness == \A p \in Proc, id \in Id, role \in Role : WF_vars(Recheck(p, id, role))

DisciplinedSpec == Init /\ [][DisciplinedNext]_vars /\ Fairness

\* At most one process is between a successful acquire and its release of one
\* lock, also when processes exit while they hold it.
MutualExclusion == \A c, d \in held : c[2] = d[2] => c = d

\* Why: every claim has its flag up and is the only one of its slot and role,
\* and while a role holds the lock and the other wants it, turn stays with the
\* holder, so that the loop condition of the other is true.
ClaimFlagged == \A c \in waiting \cup held : ptable[c[2]].flag[c[3]] = 1
ClaimUnique == \A c, d \in waiting \cup held : c[2] = d[2] /\ c[3] = d[3] => c = d
TurnKept == \A c \in held : ptable[c[2]].flag[1 - c[3]] = 1 => ptable[c[2]].turn = c[3]

\* The inductive invariant of the disciplined callers.
IndInv ==
  /\ TypeOK /\ InactiveIsReset /\ FlagHasClaimant
  /\ ClaimFlagged /\ ClaimUnique /\ TurnKept
  /\ waiting \cap held = {}

-----------------------------------------------------------------------------
(* For its disciplined callers a Peterson lock is a first-come first-      *)
(* served lock: the queue of a slot is read off its flags and its turn.    *)

User(id, r) == CHOOSE p \in Proc : <<p, id, r>> \in waiting \cup held

Queue(id) ==
  LET pl == ptable[id] IN
  IF pl.flag = NoFlag THEN <<>>
  ELSE IF pl.flag[0] = 1 /\ pl.flag[1] = 1
       THEN <<User(id, pl.turn), User(id, 1 - pl.turn)>>
       ELSE <<User(id, IF pl.flag[0] = 1 THEN 0 ELSE 1)>>

Live == {i \in Id : ptable[i].active}
Queues == [i \in Id |-> Queue(i)]
Granted == {i \in Id : \E c \in held : c[2] = i}

Fifo == INSTANCE FifoLock WITH Lock <- Id, live <- Live, queue <- Queues, granted <- Granted

\* Processes get a lock in the order of their acquire calls: a process that
\* finds the other role interested gets the lock after it, and before it can
\* have the lock a second time.
FifoOrder == Fifo!Safety

\* A lock whose first waiter may have it is eventually taken: the loop around
\* yield() misses no release.
FifoProgress == Fifo!Progress
=============================================================================
