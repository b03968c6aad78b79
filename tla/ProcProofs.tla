----------------------------- MODULE ProcProofs -----------------------------
(***************************************************************************)
(* Proofs about module Proc, for any number of processes and processors:   *)
(* a kernel stack has one user, a child has a parent that can wait for it, *)
(* and exit's wakeups reach a parent that sleeps in wait().                *)
(***************************************************************************)
EXTENDS Proc, TLAPS

\* The states of a process that has been made and has not exited.
Live == {"SLEEPING", "RUNNABLE", "RUNNING"}

\* The places in wait() and exit() that are under wait_lock.
UnderLock == {"w_scan", "w_sleep", "x_wake"}

\* Where a process's thread is agrees with its state; init is always there.
Placed ==
  /\ state[initproc] \in Live /\ pc[initproc] # "x_wake"
  /\ \A q \in Slot : /\ state[q] \in {"UNUSED", "USED"} => pc[q] = "none"
                     /\ state[q] = "ZOMBIE" => pc[q] = "x_end"
                     /\ pc[q] \in UnderLock <=> wait_lock = q

\* A child in the making has one maker, and nobody runs or frees it.
Making ==
  /\ \A p \in Slot : pc[p] \in {"f_parent", "f_run"} <=> np[p] # None
  /\ \A p \in Slot : np[p] # None => state[np[p]] = "USED"
  /\ \A p, q \in Slot : np[p] # None /\ np[p] = np[q] => p = q
  /\ \A p \in Slot : pc[p] = "f_run" => parent[np[p]] = p

\* A process has a parent, and has given its children away before it wakes anybody.
Family ==
  /\ \A q \in Slot : q # initproc /\ state[q] \notin {"UNUSED", "USED"} => parent[q] # None
  /\ \A p \in Slot : pc[p] = "x_wake" => Children(p) = {}

Asleep(p) == state[p] = "SLEEPING" /\ chan[p] = p

\* A parent that sleeps beside an exited child is still to be woken by an exit, and
\* so is the parent of one that is about to become a zombie.
Waking ==
  /\ \A p \in Slot : Asleep(p) /\ ~NoZombieChild(p) => \E r \in Slot : pc[r] = "x_wake" /\ p \in wakes[r]
  /\ \A r \in Slot : pc[r] = "x_wake" => parent[r] \in wakes[r] \/ ~Asleep(parent[r])
  /\ \A p \in Slot : pc[p] = "w_sleep" => NoZombieChild(p)

\* p's thread goes on outside fork, wait_lock and the scheduler.
Moves(p, to) ==
  /\ Runs(p) /\ pc[p] \in {"user", "ret", "x_lock"}
  /\ pc' = [pc EXCEPT ![p] = to]
  /\ killed' \in [Slot -> BOOLEAN]
  /\ UNCHANGED <<state, parent, chan, locked, wait_lock, cpus, np, shell, wakes>>

\* p returns from wait() without having freed a child.
Returns(p) ==
  /\ Runs(p) /\ pc[p] = "w_scan" /\ wait_lock' = None
  /\ pc' = [pc EXCEPT ![p] = "ret"]
  /\ UNCHANGED <<fields, locked, cpus, np, shell, wakes>>

(* The inductive invariant. *)
ProcInv == TypeOK /\ StackOwned /\ ParentCanWait /\ Placed /\ Making /\ Family /\ Waking

\* Slot 1 is init's, and None is no slot.
LEMMA SlotFacts == initproc \in Slot /\ None \notin Slot
BY ProcBounds DEF Slot, initproc, None

\* The scheduler's scan stays in the table.
LEMMA NextSlot == ASSUME NEW i \in Slot PROVE (i % NPROC) + 1 \in Slot
BY ProcBounds DEF Slot

\* The machine has the invariant when userinit() is done.
LEMMA ProcInvInit == Init => ProcInv
<1> SUFFICES ASSUME Init PROVE ProcInv
  OBVIOUS
<1> USE SlotFacts DEF Init
<1>1. TypeOK
  BY ProcBounds DEF TypeOK, State, Place, Slot
<1>2. StackOwned /\ ParentCanWait
  BY DEF StackOwned, ParentCanWait
<1>3. Placed /\ Making
  BY DEF Placed, Making, Live, UnderLock
<1>4. Family /\ Waking
  BY DEF Family, Waking, Children, Asleep, NoZombieChild
<1> QED BY <1>1, <1>2, <1>3, <1>4 DEF ProcInv

\* Whoever is to be woken still is, as long as nobody falls asleep or exits, and
\* the family and the wakeups that exit() owes stay as they are.
LEMMA WakingKept ==
  ASSUME ProcInv, UNCHANGED <<parent, wakes>>,
         \A x \in Slot : /\ Asleep(x)' => Asleep(x)
                         /\ pc'[x] = "x_wake" <=> pc[x] = "x_wake"
                         /\ pc'[x] = "w_sleep" => pc[x] = "w_sleep",
         \A x \in Slot : state'[x] = "ZOMBIE" <=> state[x] = "ZOMBIE"
  PROVE  Waking'
<1>1. \A x \in Slot : NoZombieChild(x)' = NoZombieChild(x)
  BY DEF NoZombieChild, Children
<1>2. \A r \in Slot : pc[r] = "x_wake" => parent[r] \in Slot
  BY DEF ProcInv, TypeOK, Placed, Family, UnderLock
<1> QED BY <1>1, <1>2 DEF ProcInv, Waking

\* A thread's way through the kernel outside fork, wait and exit keeps the invariant.
LEMMA MovesInv ==
  ASSUME ProcInv, NEW p \in Slot,
         NEW to \in {"user", "ret", "x_lock", "w_lock", "panic"}, Moves(p, to)
  PROVE  ProcInv'
<1> USE SlotFacts DEF ProcInv, Moves, Runs, fields, cpus, threads
<1>1. TypeOK'
  BY DEF TypeOK, Place
<1>2. StackOwned'
  BY DEF StackOwned, TypeOK
<1>3. ParentCanWait'
  BY DEF ParentCanWait, TypeOK
<1>4. Placed'
  BY DEF Placed, TypeOK, UnderLock
<1>5. Making'
  BY DEF Making, TypeOK
<1>6. Family'
  BY DEF Family, TypeOK, Children
<1>7. Waking'
  <2>1. \A x \in Slot : /\ Asleep(x)' => Asleep(x)
                        /\ pc'[x] = "x_wake" <=> pc[x] = "x_wake"
                        /\ pc'[x] = "w_sleep" => pc[x] = "w_sleep"
    BY DEF Asleep, TypeOK
  <2>2. \A x \in Slot : state'[x] = "ZOMBIE" <=> state[x] = "ZOMBIE"
    BY DEF TypeOK
  <2> QED BY <2>1, <2>2, WakingKept
<1> QED BY <1>1, <1>2, <1>3, <1>4, <1>5, <1>6, <1>7

\* fork() takes a free slot: nobody's child, parent or stack.
LEMMA ForkAllocInv ==
  ASSUME ProcInv, NEW p \in Slot, NEW q \in Slot, ForkAlloc(p, q)
  PROVE  ProcInv'
<1> USE SlotFacts DEF ProcInv, ForkAlloc, Goes, Runs, Allocatable, fields, cpus, threads
<1>1. TypeOK'
  BY DEF TypeOK, Place, State
<1>2. StackOwned'
  BY DEF StackOwned, TypeOK
<1>3. ParentCanWait'
  BY DEF ParentCanWait, TypeOK
<1>4. Placed'
  BY DEF Placed, TypeOK, UnderLock, Live
<1>5. Making'
  BY DEF Making, TypeOK
<1>6. Family'
  BY DEF Family, TypeOK, Children
<1>7. Waking'
  <2>1. \A x \in Slot : /\ Asleep(x)' => Asleep(x)
                        /\ pc'[x] = "x_wake" <=> pc[x] = "x_wake"
                        /\ pc'[x] = "w_sleep" => pc[x] = "w_sleep"
    BY DEF Asleep, TypeOK
  <2>2. \A x \in Slot : state'[x] = "ZOMBIE" <=> state[x] = "ZOMBIE"
    BY DEF TypeOK
  <2> QED BY <2>1, <2>2, WakingKept
<1> QED BY <1>1, <1>2, <1>3, <1>4, <1>5, <1>6, <1>7

\* fork() makes itself the child's parent; it is not exiting.
LEMMA ForkParentInv ==
  ASSUME ProcInv, NEW p \in Slot, ForkParent(p)
  PROVE  ProcInv'
<1> USE SlotFacts DEF ProcInv, ForkParent, Goes, Runs, fields, cpus, threads
<1>1. TypeOK'
  BY DEF TypeOK, Place
<1>2. StackOwned'
  BY DEF StackOwned, TypeOK
<1>3. ParentCanWait'
  BY DEF ParentCanWait, TypeOK
<1>4. Placed'
  BY DEF Placed, TypeOK, UnderLock
<1>5. Making'
  BY DEF Making, TypeOK
<1>6. Family'
  BY DEF Family, TypeOK, Children
<1>7. Waking'
  BY DEF Waking, TypeOK, Children, Asleep, NoZombieChild
<1> QED BY <1>1, <1>2, <1>3, <1>4, <1>5, <1>6, <1>7

\* The child becomes RUNNABLE; it has a parent and is on no processor.
LEMMA ForkRunInv ==
  ASSUME ProcInv, NEW p \in Slot, ForkRun(p)
  PROVE  ProcInv'
<1> USE SlotFacts DEF ProcInv, ForkRun, Runs, fields, cpus, threads
<1>1. TypeOK'
  BY DEF TypeOK, Place, State
<1>2. StackOwned'
  BY DEF StackOwned, TypeOK, Making
<1>3. ParentCanWait'
  BY DEF ParentCanWait, TypeOK
<1>4. Placed'
  BY DEF Placed, TypeOK, Making, UnderLock, Live
<1>5. Making'
  BY DEF Making, TypeOK, Placed
<1>6. Family'
  BY DEF Family, TypeOK, Making, Children
<1>7. Waking'
  <2>1. \A x \in Slot : /\ Asleep(x)' => Asleep(x)
                        /\ pc'[x] = "x_wake" <=> pc[x] = "x_wake"
                        /\ pc'[x] = "w_sleep" => pc[x] = "w_sleep"
    BY DEF Asleep, TypeOK, Making, Placed
  <2>2. \A x \in Slot : state'[x] = "ZOMBIE" <=> state[x] = "ZOMBIE"
    BY DEF TypeOK, Making
  <2> QED BY <2>1, <2>2, WakingKept
<1> QED BY <1>1, <1>2, <1>3, <1>4, <1>5, <1>6, <1>7

\* exit() gives its children to init, which stays, and will wake it and the parent.
LEMMA ExitLocksInv ==
  ASSUME ProcInv, NEW p \in Slot, ExitLocks(p)
  PROVE  ProcInv'
<1> USE SlotFacts DEF ProcInv, ExitLocks, Goes, Runs, Reparented, ExitWakes, fields, cpus, threads
<1>1. TypeOK'
  BY DEF TypeOK, Place, Family
<1>2. StackOwned'
  BY DEF StackOwned, TypeOK
<1>3. ParentCanWait'
  BY DEF ParentCanWait, TypeOK, Placed, Live
<1>4. Placed'
  BY DEF Placed, TypeOK, UnderLock
<1>5. Making'
  BY DEF Making, TypeOK
<1>6. Family'
  BY DEF Family, TypeOK, Placed, Children
<1>7. Waking'
  BY DEF Waking, TypeOK, Placed, UnderLock, Children, Asleep, NoZombieChild
<1> QED BY <1>1, <1>2, <1>3, <1>4, <1>5, <1>6, <1>7

\* A wakeup of exit() takes its sleeper off the channel.
LEMMA ExitWakeupInv ==
  ASSUME ProcInv, NEW p \in Slot, ExitWakeup(p)
  PROVE  ProcInv'
<1> USE SlotFacts DEF ProcInv, ExitWakeup, Runs, Free, Woken, fields, cpus, threads
<1>1. TypeOK'
  BY DEF TypeOK, State
<1>2. StackOwned'
  BY DEF StackOwned, TypeOK
<1>3. ParentCanWait'
  BY DEF ParentCanWait, TypeOK
<1>4. Placed'
  BY DEF Placed, TypeOK, Live
<1>5. Making'
  BY DEF Making, TypeOK
<1>6. Family'
  BY DEF Family, TypeOK, Children
<1>7. Waking'
  BY DEF Waking, TypeOK, Children, Asleep, NoZombieChild
<1> QED BY <1>1, <1>2, <1>3, <1>4, <1>5, <1>6, <1>7

\* exit() becomes a zombie: it has no children, and its parent is not asleep.
LEMMA ExitZombieInv ==
  ASSUME ProcInv, NEW p \in Slot, ExitZombie(p)
  PROVE  ProcInv'
<1> USE SlotFacts DEF ProcInv, ExitZombie, Goes, Runs, Switches, fields, cpus, threads
<1>1. TypeOK'
  BY DEF TypeOK, Place, State
<1>2. StackOwned'
  BY DEF StackOwned, TypeOK
<1>3. ParentCanWait'
  BY DEF ParentCanWait, TypeOK, Family, Children
<1>4. Placed'
  BY DEF Placed, TypeOK, UnderLock
<1>5. Making'
  BY DEF Making, TypeOK
<1>6. Family'
  BY DEF Family, TypeOK, Children
<1>7. Waking'
  BY DEF Waking, TypeOK, Placed, UnderLock, Live, Children, Asleep, NoZombieChild
<1> QED BY <1>1, <1>2, <1>3, <1>4, <1>5, <1>6, <1>7

\* wait() takes wait_lock.
LEMMA WaitLocksInv ==
  ASSUME ProcInv, NEW p \in Slot, WaitLocks(p)
  PROVE  ProcInv'
<1> USE SlotFacts DEF ProcInv, WaitLocks, Goes, Runs, fields, cpus, threads
<1>1. TypeOK'
  BY DEF TypeOK, Place
<1>2. StackOwned'
  BY DEF StackOwned, TypeOK
<1>3. ParentCanWait'
  BY DEF ParentCanWait, TypeOK
<1>4. Placed'
  BY DEF Placed, TypeOK, UnderLock
<1>5. Making'
  BY DEF Making, TypeOK
<1>6. Family'
  BY DEF Family, TypeOK, Children
<1>7. Waking'
  <2>1. \A x \in Slot : /\ Asleep(x)' => Asleep(x)
                        /\ pc'[x] = "x_wake" <=> pc[x] = "x_wake"
                        /\ pc'[x] = "w_sleep" => pc[x] = "w_sleep"
    BY DEF Asleep, TypeOK
  <2>2. \A x \in Slot : state'[x] = "ZOMBIE" <=> state[x] = "ZOMBIE"
    BY DEF TypeOK
  <2> QED BY <2>1, <2>2, WakingKept
<1> QED BY <1>1, <1>2, <1>3, <1>4, <1>5, <1>6, <1>7

\* A wait() that frees nobody gives wait_lock back.
LEMMA ReturnsInv ==
  ASSUME ProcInv, NEW p \in Slot, Returns(p)
  PROVE  ProcInv'
<1> USE SlotFacts DEF ProcInv, Returns, Runs, fields, cpus, threads
<1>1. TypeOK'
  BY DEF TypeOK, Place
<1>2. StackOwned'
  BY DEF StackOwned, TypeOK
<1>3. ParentCanWait'
  BY DEF ParentCanWait, TypeOK
<1>4. Placed'
  BY DEF Placed, TypeOK, UnderLock
<1>5. Making'
  BY DEF Making, TypeOK
<1>6. Family'
  BY DEF Family, TypeOK, Children
<1>7. Waking'
  <2>1. \A x \in Slot : /\ Asleep(x)' => Asleep(x)
                        /\ pc'[x] = "x_wake" <=> pc[x] = "x_wake"
                        /\ pc'[x] = "w_sleep" => pc[x] = "w_sleep"
    BY DEF Asleep, TypeOK
  <2>2. \A x \in Slot : state'[x] = "ZOMBIE" <=> state[x] = "ZOMBIE"
    BY DEF TypeOK
  <2> QED BY <2>1, <2>2, WakingKept
<1> QED BY <1>1, <1>2, <1>3, <1>4, <1>5, <1>6, <1>7

\* wait() has found no exited child, and keeps wait_lock.
LEMMA WaitMustSleepInv ==
  ASSUME ProcInv, NEW p \in Slot, WaitMustSleep(p)
  PROVE  ProcInv'
<1> USE SlotFacts DEF ProcInv, WaitMustSleep, Goes, Runs, fields, cpus, threads
<1>1. TypeOK'
  BY DEF TypeOK, Place
<1>2. StackOwned'
  BY DEF StackOwned, TypeOK
<1>3. ParentCanWait'
  BY DEF ParentCanWait, TypeOK
<1>4. Placed'
  BY DEF Placed, TypeOK, UnderLock
<1>5. Making'
  BY DEF Making, TypeOK, UnderLock
<1>6. Family'
  BY DEF Family, TypeOK, Placed, UnderLock
<1>7. Waking'
  BY DEF Waking, TypeOK, UnderLock, Children, Asleep, NoZombieChild
<1> QED BY <1>1, <1>2, <1>3, <1>4, <1>5, <1>6, <1>7

\* wait() goes to sleep; no child has exited since it looked.
LEMMA WaitSleepsInv ==
  ASSUME ProcInv, NEW p \in Slot, WaitSleeps(p)
  PROVE  ProcInv'
<1> USE SlotFacts DEF ProcInv, WaitSleeps, Goes, Runs, Sleeps, Switches, fields, cpus, threads
<1>1. TypeOK'
  BY DEF TypeOK, Place, State
<1>2. StackOwned'
  BY DEF StackOwned, TypeOK
<1>3. ParentCanWait'
  BY DEF ParentCanWait, TypeOK
<1>4. Placed'
  BY DEF Placed, TypeOK, UnderLock, Live
<1>5. Making'
  BY DEF Making, TypeOK
<1>6. Family'
  BY DEF Family, TypeOK, Children
<1>7. Waking'
  BY DEF Waking, TypeOK, Placed, Family, UnderLock, Children, Asleep, NoZombieChild
<1> QED BY <1>1, <1>2, <1>3, <1>4, <1>5, <1>6, <1>7

\* wait() frees a zombie: it has no children and is on no processor.
LEMMA WaitReapsInv ==
  ASSUME ProcInv, NEW p \in Slot, NEW q \in Slot, WaitReaps(p, q)
  PROVE  ProcInv'
<1> USE SlotFacts DEF ProcInv, WaitReaps, Finds, Runs, Reapable, Free, freeproc, fields, cpus, threads
<1>1. TypeOK'
  BY DEF TypeOK, Place, State
<1>2. StackOwned'
  BY DEF StackOwned, TypeOK
<1>3. ParentCanWait'
  BY DEF ParentCanWait, TypeOK, UnderLock, Children
<1>4. Placed'
  BY DEF Placed, TypeOK, UnderLock, Live
<1>5. Making'
  BY DEF Making, TypeOK, Placed, UnderLock
<1>6. Family'
  BY DEF Family, TypeOK, UnderLock, Live, Children
<1>7. Waking'
  <2>1. p # q /\ wait_lock = p /\ \A r \in Slot : pc[r] \notin {"x_wake", "w_sleep"}
    BY DEF Placed, TypeOK, UnderLock
  <2>2. \A r \in Slot : pc'[r] \notin {"x_wake", "w_sleep"}
    BY <2>1 DEF TypeOK
  <2>3. \A x \in Slot : Asleep(x) => NoZombieChild(x)
    BY <2>1 DEF Waking
  <2>4. \A x \in Slot : /\ Asleep(x)' => Asleep(x)
                        /\ state'[x] = "ZOMBIE" => state[x] = "ZOMBIE" /\ parent'[x] = parent[x]
    BY DEF Asleep, TypeOK
  <2>5. \A x \in Slot : Asleep(x)' => NoZombieChild(x)'
    BY <2>3, <2>4 DEF NoZombieChild, Children
  <2> QED BY <2>2, <2>5 DEF Waking
<1> QED BY <1>1, <1>2, <1>3, <1>4, <1>5, <1>6, <1>7

\* kill() wakes a sleeper that is off its processor.
LEMMA killInv ==
  ASSUME ProcInv, NEW p \in Slot, NEW q \in Slot, kill(p, q)
  PROVE  ProcInv'
<1> USE SlotFacts DEF ProcInv, kill, Goes, Runs, Free, KilledState, fields, cpus, threads
<1>1. TypeOK'
  BY DEF TypeOK, Place, State
<1>2. StackOwned'
  BY DEF StackOwned, TypeOK
<1>3. ParentCanWait'
  BY DEF ParentCanWait, TypeOK, UnderLock, Children
<1>4. Placed'
  BY DEF Placed, TypeOK, UnderLock, Live
<1>5. Making'
  BY DEF Making, TypeOK
<1>6. Family'
  BY DEF Family, TypeOK, UnderLock, Children
<1>7. Waking'
  <2>1. \A x \in Slot : /\ Asleep(x)' => Asleep(x)
                        /\ pc'[x] = "x_wake" <=> pc[x] = "x_wake"
                        /\ pc'[x] = "w_sleep" => pc[x] = "w_sleep"
    BY DEF Asleep, TypeOK
  <2>2. \A x \in Slot : state'[x] = "ZOMBIE" <=> state[x] = "ZOMBIE"
    BY DEF TypeOK
  <2> QED BY <2>1, <2>2, WakingKept
<1> QED BY <1>1, <1>2, <1>3, <1>4, <1>5, <1>6, <1>7

\* yield() keeps its lock until the scheduler has left the stack.
LEMMA yieldInv ==
  ASSUME ProcInv, NEW p \in Slot, yield(p)
  PROVE  ProcInv'
<1> USE SlotFacts DEF ProcInv, yield, Runs, Switches, fields, cpus, threads
<1>1. TypeOK'
  BY DEF TypeOK, State
<1>2. StackOwned'
  BY DEF StackOwned, TypeOK
<1>3. ParentCanWait'
  BY DEF ParentCanWait, TypeOK, UnderLock, Children
<1>4. Placed'
  BY DEF Placed, TypeOK, Live
<1>5. Making'
  BY DEF Making, TypeOK, UnderLock
<1>6. Family'
  BY DEF Family, TypeOK, UnderLock, Children
<1>7. Waking'
  <2>1. \A x \in Slot : /\ Asleep(x)' => Asleep(x)
                        /\ pc'[x] = "x_wake" <=> pc[x] = "x_wake"
                        /\ pc'[x] = "w_sleep" => pc[x] = "w_sleep"
    BY DEF Asleep, TypeOK
  <2>2. \A x \in Slot : state'[x] = "ZOMBIE" <=> state[x] = "ZOMBIE"
    BY DEF TypeOK
  <2> QED BY <2>1, <2>2, WakingKept
<1> QED BY <1>1, <1>2, <1>3, <1>4, <1>5, <1>6, <1>7

\* The scheduler takes a process that is on no other processor.
LEMMA ScheduleInv ==
  ASSUME ProcInv, NEW c \in CPU, Schedule(c)
  PROVE  ProcInv'
<1> USE SlotFacts DEF ProcInv, Schedule, NextPos, Pickable, Free, fields, cpus, threads
<1>1. TypeOK'
  BY NextSlot DEF TypeOK, State
<1>2. StackOwned'
  BY DEF StackOwned, TypeOK
<1>3. ParentCanWait'
  BY DEF ParentCanWait, TypeOK, UnderLock, Children
<1>4. Placed'
  BY DEF Placed, TypeOK, UnderLock, Live
<1>5. Making'
  BY DEF Making, TypeOK, UnderLock
<1>6. Family'
  BY DEF Family, TypeOK, UnderLock, Children
<1>7. Waking'
  <2>1. \A x \in Slot : /\ Asleep(x)' => Asleep(x)
                        /\ pc'[x] = "x_wake" <=> pc[x] = "x_wake"
                        /\ pc'[x] = "w_sleep" => pc[x] = "w_sleep"
    BY DEF Asleep, TypeOK
  <2>2. \A x \in Slot : state'[x] = "ZOMBIE" <=> state[x] = "ZOMBIE"
    BY DEF TypeOK
  <2> QED BY <2>1, <2>2, WakingKept
<1> QED BY <1>1, <1>2, <1>3, <1>4, <1>5, <1>6, <1>7

\* The scheduler lets go of a process whose stack it has left.
LEMMA SwitchedOutInv ==
  ASSUME ProcInv, NEW c \in CPU, SwitchedOut(c)
  PROVE  ProcInv'
<1> USE SlotFacts DEF ProcInv, SwitchedOut, NextPos, fields, cpus, threads
<1>1. TypeOK'
  BY NextSlot DEF TypeOK
<1>2. StackOwned'
  BY DEF StackOwned, TypeOK
<1>3. ParentCanWait'
  BY DEF ParentCanWait, TypeOK
<1>4. Placed'
  BY DEF Placed, TypeOK
<1>5. Making'
  BY DEF Making, TypeOK, UnderLock
<1>6. Family'
  BY DEF Family, TypeOK, UnderLock, Children
<1>7. Waking'
  <2>1. \A x \in Slot : /\ Asleep(x)' => Asleep(x)
                        /\ pc'[x] = "x_wake" <=> pc[x] = "x_wake"
                        /\ pc'[x] = "w_sleep" => pc[x] = "w_sleep"
    BY DEF Asleep, TypeOK
  <2>2. \A x \in Slot : state'[x] = "ZOMBIE" <=> state[x] = "ZOMBIE"
    BY DEF TypeOK
  <2> QED BY <2>1, <2>2, WakingKept
<1> QED BY <1>1, <1>2, <1>3, <1>4, <1>5, <1>6, <1>7

-----------------------------------------------------------------------------
\* Every step keeps the invariant.
LEMMA ProcInvNext == ProcInv /\ [Next]_vars => ProcInv'
<1> SUFFICES ASSUME ProcInv, [Next]_vars PROVE ProcInv'
  OBVIOUS
<1>0. CASE UNCHANGED vars
  <2> USE <1>0 DEF ProcInv, vars, fields, cpus, threads
  <2>1. TypeOK' /\ StackOwned' /\ ParentCanWait'
    BY DEF TypeOK, StackOwned, ParentCanWait
  <2>2. Placed' /\ Making' /\ Family'
    BY DEF Placed, Making, Family, Children
  <2>3. Waking'
    BY DEF Waking, Asleep, NoZombieChild, Children
  <2> QED BY <2>1, <2>2, <2>3
<1>1. killed \in [Slot -> BOOLEAN]
  BY DEF ProcInv, TypeOK
<1>2. ASSUME NEW p \in Slot, Syscall(p) \/ KilledTrap(p) \/ SyscallReturns(p) \/ ExitPanics(p)
      PROVE  ProcInv'
  <2>1. \E to \in {"user", "ret", "x_lock", "w_lock", "panic"} : Moves(p, to)
    BY <1>1, <1>2 DEF Syscall, KilledTrap, SyscallReturns, ExitPanics, Goes, Moves, fields
  <2> QED BY <2>1, MovesInv
<1>3. ASSUME NEW p \in Slot, ForkFails(p) PROVE ProcInv'
  <2>1. killed' \in [Slot -> BOOLEAN]
    BY <1>1, <1>3 DEF ForkFails
  <2>2. Moves(p, "x_lock") \/ Moves(p, "ret")
    BY <1>3, <2>1 DEF ForkFails, Goes, Moves
  <2> QED BY <2>2, MovesInv
<1>4. ASSUME NEW p \in Slot, WaitFails(p) \/ \E q \in Slot : WaitCopyFails(p, q)
      PROVE  ProcInv'
  <2>1. Returns(p)
    BY <1>4 DEF WaitFails, WaitCopyFails, Finds, Goes, Returns
  <2> QED BY <2>1, ReturnsInv
<1>5. ASSUME NEW p \in Slot, Choice(p) PROVE ProcInv'
  BY <1>2, <1>3, <1>5, ForkAllocInv, killInv, Zenon DEF Choice
<1>6. ASSUME NEW p \in Slot, ThreadStep(p) PROVE ProcInv'
  BY <1>2, <1>4, <1>6, ForkParentInv, ForkRunInv, ExitLocksInv, ExitWakeupInv, ExitZombieInv,
     WaitLocksInv, WaitMustSleepInv, WaitSleepsInv, WaitReapsInv, Zenon DEF ThreadStep
<1> QED BY <1>0, <1>5, <1>6, yieldInv, ScheduleInv, SwitchedOutInv, Zenon DEF Next, Scheduler

\* The invariant holds in every run of processes.
LEMMA ProcInvariant == Spec => []ProcInv
BY ProcInvInit, ProcInvNext, PTL DEF Spec

\* However the processors interleave: a process is on one processor at most, and
\* nobody frees or runs it before the scheduler has left its kernel stack.
THEOREM StackOwnedHolds == Spec => []StackOwned
<1>1. ProcInv => StackOwned
  BY DEF ProcInv
<1> QED BY <1>1, ProcInvariant, PTL

\* exit() never leaves a child without a parent that can wait for it, also when
\* fork, exit and wait of several processes interleave.
THEOREM ParentCanWaitHolds == Spec => []ParentCanWait
<1>1. ProcInv => ParentCanWait
  BY DEF ProcInv
<1> QED BY <1>1, ProcInvariant, PTL

\* wait() and exit() never lose a wakeup: outside wait_lock, a parent that sleeps in
\* wait() has no child that has exited.
THEOREM NoLostWakeupHolds == Spec => []NoLostWakeup
<1>1. ASSUME ProcInv PROVE NoLostWakeup
  <2> SUFFICES ASSUME NEW p \in Slot, Asleep(p), wait_lock = None, ~NoZombieChild(p)
               PROVE  FALSE
    BY DEF NoLostWakeup, Asleep
  <2>1. PICK r \in Slot : pc[r] = "x_wake"
    BY <1>1 DEF ProcInv, Waking
  <2>2. wait_lock = r
    BY <1>1, <2>1 DEF ProcInv, Placed, UnderLock
  <2> QED BY <2>2, SlotFacts
<1> QED BY <1>1, ProcInvariant, PTL
=============================================================================
