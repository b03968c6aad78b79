---------------------------- MODULE PetersonSpin ----------------------------
(***************************************************************************)
(* kernel/peterson.c statement by statement: every acquire() and release() *)
(* of ptable_lock and of a slot's lk, and every write to a slot, is a step *)
(* of its own.  It is shown to implement module Peterson, in which a       *)
(* stretch under lk is one step and the scan of peterson_alloc too: a slot *)
(* there is what the slot here was when its lk was last released.          *)
(***************************************************************************)
EXTENDS Integers

CONSTANTS Proc, NPETERSONLOCKS

ASSUME SlotCount == NPETERSONLOCKS \in Nat \ {0}

VARIABLES slot,      \* the table in memory
          spin,      \* spinlock -> the processors' processes that hold it
          at, id, role,     \* each process: place in the code, arguments (id is
                            \* also the index i of the scan)
          waiting, held, doomed, ret,   \* as in module Peterson
          pub        \* each slot as its lk's last holder left it

svars == <<slot, spin, at, id, role, waiting, held, doomed, ret, pub>>

P == INSTANCE Peterson WITH ptable <- pub, dead <- {}

\* ptable_lock has the number NPETERSONLOCKS, the slots' locks have theirs.
TableLock == NPETERSONLOCKS

SpinTableInit ==
  /\ slot = [i \in P!Id |-> P!Unused] /\ pub = slot
  /\ spin = [k \in 0 .. TableLock |-> {}]
  /\ at = [p \in Proc |-> "user"] /\ id = [p \in Proc |-> 0] /\ role = [p \in Proc |-> 0]
  /\ waiting = {} /\ held = {} /\ doomed = {} /\ ret = [p \in Proc |-> 0]

Advances(p, from, to) == at[p] = from /\ at' = [at EXCEPT ![p] = to]
Takes(p, k) == spin[k] = {} /\ spin' = [spin EXCEPT ![k] = {p}]
Drops(k) == spin' = [spin EXCEPT ![k] = {}]
Writes(p, s) == slot' = [slot EXCEPT ![id[p]] = s]
Private(p) == UNCHANGED <<waiting, held, doomed, ret, pub>>
Mine(p) == slot[id[p]]
Claim(p) == <<p, id[p], role[p]>>

\* release(&pl->lk): the slot becomes visible to the others.
Publishes(p) == Drops(id[p]) /\ pub' = [pub EXCEPT ![id[p]] = slot[id[p]]] /\ UNCHANGED slot

\* Back to the caller; the call's local variables are gone.
EndsCall(p, from) ==
  /\ Advances(p, from, "user")
  /\ id' = [id EXCEPT ![p] = 0] /\ role' = [role EXCEPT ![p] = 0]

\* A process makes a system call, with arguments in range.  To keep the model
\* small it acquires a lock only when it holds none, and releases only what it
\* holds.
Enters(p, place, i, r) ==
  /\ Advances(p, "user", place)
  /\ id' = [id EXCEPT ![p] = i] /\ role' = [role EXCEPT ![p] = r]
  /\ UNCHANGED <<slot, spin>> /\ Private(p)

UserCall(p) ==
  \/ Enters(p, "c_table", 0, 0)
  \/ \E i \in P!Id : Enters(p, "d_table", i, 0)
  \/ \E i \in P!Id, r \in P!Role :
       \/ (\A c \in held : c[1] # p) /\ Enters(p, "a_lock", i, r)
       \/ <<p, i, r>> \in held /\ Enters(p, "r_lock", i, r)

-----------------------------------------------------------------------------
(* sys_peterson_create                                                     *)

\* bug: the scan runs without ptable_lock
CreateUnlocked(p) ==
  /\ Advances(p, "c_table", "c_scan")
  /\ id' = [id EXCEPT ![p] = 0] /\ UNCHANGED <<spin, slot, role>> /\ Private(p)
CreateLocks(p) ==
  /\ Advances(p, "c_table", "c_scan") /\ Takes(p, TableLock)
  /\ id' = [id EXCEPT ![p] = 0] /\ UNCHANGED <<slot, role>> /\ Private(p)

ScanLocks(p) == Advances(p, "c_scan", "c_test") /\ Takes(p, id[p]) /\ UNCHANGED <<slot, id, role>> /\ Private(p)

\* An active slot: on to the next one, or fail after the last.
ScanSkips(p) ==
  /\ Mine(p).active
  /\ Publishes(p)
  /\ IF id[p] + 1 < NPETERSONLOCKS
       THEN Advances(p, "c_test", "c_scan") /\ id' = [id EXCEPT ![p] = @ + 1] /\ UNCHANGED ret
       ELSE Advances(p, "c_test", "c_done") /\ P!Returns(p, -1) /\ UNCHANGED id
  /\ UNCHANGED <<role, waiting, held, doomed>>

ScanActivates(p) ==
  /\ ~Mine(p).active
  /\ Advances(p, "c_test", "c_reset") /\ Writes(p, [Mine(p) EXCEPT !.active = TRUE])
  /\ UNCHANGED <<spin, id, role>> /\ Private(p)

ScanResets(p) ==
  /\ Advances(p, "c_reset", "c_found") /\ Writes(p, P!Fresh)
  /\ UNCHANGED <<spin, id, role>> /\ Private(p)

ScanFound(p) ==
  /\ Advances(p, "c_found", "c_done") /\ Publishes(p) /\ P!Returns(p, id[p])
  /\ UNCHANGED <<id, role, waiting, held, doomed>>

CreateDone(p) == EndsCall(p, "c_done") /\ Drops(TableLock) /\ UNCHANGED slot /\ Private(p)

-----------------------------------------------------------------------------
(* sys_peterson_acquire                                                    *)

AcquireLocks(p) == Advances(p, "a_lock", "a_test") /\ Takes(p, id[p]) /\ UNCHANGED <<slot, id, role>> /\ Private(p)

\* The slot is not active: acquire and release fail.
Fails(p, place) ==
  /\ ~Mine(p).active
  /\ EndsCall(p, place) /\ Publishes(p) /\ P!Returns(p, -1)
  /\ UNCHANGED <<waiting, held, doomed>>

RaisesFlag(p) ==
  /\ Mine(p).active
  /\ Advances(p, "a_test", "a_turn") /\ Writes(p, [Mine(p) EXCEPT !.flag[role[p]] = 1])
  /\ UNCHANGED <<spin, id, role>> /\ Private(p)

SetsTurn(p) ==
  /\ Advances(p, "a_turn", "a_loop") /\ Writes(p, [Mine(p) EXCEPT !.turn = 1 - role[p]])
  /\ UNCHANGED <<spin, id, role>> /\ Private(p)

\* The loop condition holds and the slot is active: release lk and yield.
Yields(p) ==
  /\ P!MustWait(Mine(p), role[p]) /\ Mine(p).active
  /\ Advances(p, "a_loop", "a_yield") /\ Publishes(p)
  /\ waiting' = waiting \cup {Claim(p)}
  /\ UNCHANGED <<id, role, held, doomed, ret>>

Relocks(p) == Advances(p, "a_yield", "a_loop") /\ Takes(p, id[p]) /\ UNCHANGED <<slot, id, role>> /\ Private(p)

\* The loop is left, at its end or by the return inside it.
LeavesLoop(p) ==
  /\ ~Mine(p).active \/ ~P!MustWait(Mine(p), role[p])
  /\ EndsCall(p, "a_loop") /\ Publishes(p)
  /\ waiting' = waiting \ {Claim(p)}
  /\ doomed' = doomed \ {p}
  /\ P!Returns(p, IF Mine(p).active THEN 0 ELSE -1)
  /\ held' = IF Mine(p).active THEN held \cup {Claim(p)} ELSE held

-----------------------------------------------------------------------------
(* sys_peterson_release and sys_peterson_destroy                           *)

ReleaseLocks(p) == Advances(p, "r_lock", "r_test") /\ Takes(p, id[p]) /\ UNCHANGED <<slot, id, role>> /\ Private(p)

LowersFlag(p) ==
  /\ Mine(p).active
  /\ Advances(p, "r_test", "r_done") /\ Writes(p, P!Released(Mine(p), role[p]))
  /\ UNCHANGED <<spin, id, role>> /\ Private(p)

ReleaseDone(p) ==
  /\ EndsCall(p, "r_done") /\ Publishes(p)
  /\ held' = held \ {Claim(p)} /\ P!Returns(p, 0)
  /\ UNCHANGED <<waiting, doomed>>

DestroyLocks(p) == Advances(p, "d_table", "d_lock") /\ Takes(p, TableLock) /\ UNCHANGED <<slot, id, role>> /\ Private(p)

DestroyLocksSlot(p) == Advances(p, "d_lock", "d_test") /\ Takes(p, id[p]) /\ UNCHANGED <<slot, id, role>> /\ Private(p)

DestroyFails(p) ==
  /\ ~Mine(p).active
  /\ Advances(p, "d_test", "d_done") /\ Publishes(p) /\ P!Returns(p, -1)
  /\ UNCHANGED <<id, role, waiting, held, doomed>>

\* peterson_free
Frees(p) ==
  /\ Mine(p).active
  /\ Advances(p, "d_test", "d_freed") /\ Writes(p, P!Freed(Mine(p)))
  /\ UNCHANGED <<spin, id, role>> /\ Private(p)

DestroySucceeds(p) ==
  /\ Advances(p, "d_freed", "d_done") /\ Publishes(p) /\ P!Returns(p, 0)
  /\ doomed' = doomed \cup {q \in Proc : \E w \in waiting : w[1] = q /\ w[2] = id[p]}
  /\ UNCHANGED <<id, role, waiting, held>>

DestroyDone(p) == EndsCall(p, "d_done") /\ Drops(TableLock) /\ UNCHANGED slot /\ Private(p)

Step(p) ==
  \/ CreateLocks(p) \/ ScanLocks(p) \/ ScanSkips(p) \/ ScanActivates(p) \/ ScanResets(p)
  \/ ScanFound(p) \/ CreateDone(p)
  \/ AcquireLocks(p) \/ Fails(p, "a_test") \/ RaisesFlag(p) \/ SetsTurn(p) \/ Yields(p)
  \/ Relocks(p) \/ LeavesLoop(p)
  \/ ReleaseLocks(p) \/ Fails(p, "r_test") \/ LowersFlag(p) \/ ReleaseDone(p)
  \/ DestroyLocks(p) \/ DestroyLocksSlot(p) \/ DestroyFails(p) \/ Frees(p)
  \/ DestroySucceeds(p) \/ DestroyDone(p)

SpinTableNext == \E p \in Proc : Step(p) \/ UserCall(p)

SpinTableSpec == SpinTableInit /\ [][SpinTableNext]_svars

-----------------------------------------------------------------------------
\* Every interleaving of the statements of peterson.c looks, to the callers, as if
\* the calls and the tests of the loop took effect one at a time: P!Spec, with the
\* steps that nobody sees named first.
ImplementsPeterson == P!Init /\ [][UNCHANGED P!vars \/ P!Next]_P!vars
=============================================================================
