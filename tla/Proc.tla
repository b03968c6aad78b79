-------------------------------- MODULE Proc --------------------------------
(***************************************************************************)
(* Processes: kernel/proc.c with the parts of kernel/trap.c, sysproc.c and *)
(* user/init.c that drive it.  Processors run the scheduler and the        *)
(* processes' kernel threads; a process forks, exits, waits, kills and *)
(* is preempted; sleep() has its own module, Ticks.                        *)
(*                                                                         *)
(* Steps are the stretches of code under one spinlock.  A process's p->lock *)
(* outlives such a stretch only in the switch to the scheduler: sleep,     *)
(* yield and exit take it, change state, and the scheduler of the same     *)
(* processor releases it once it is off the process's stack.  locked holds *)
(* the processes in that window.  wait_lock is held over several steps.    *)
(***************************************************************************)
EXTENDS Integers

CONSTANTS NPROC,   \* slots of the process table; slot 1 is init's
          CPU      \* the processors

ASSUME ProcBounds == NPROC \in Nat \ {0} /\ 0 \notin CPU

Slot == 1 .. NPROC
initproc == 1
None == 0

VARIABLES state, parent, chan, killed,   \* fields of struct proc
          locked,      \* p->lock is held across the switch to the scheduler
          wait_lock,   \* its holder or None
          cproc,       \* c->proc
          pos,         \* the scheduler's place in its scan of the table
          pc,          \* where the process's kernel thread is
          np,          \* the child fork is making
          shell,       \* the child init waits for (pid in user/init.c), or None
          wakes        \* the channels exit still has to wake

fields == <<state, parent, chan, killed>>
cpus == <<cproc, pos>>
threads == <<pc, np, shell, wakes>>
vars == <<fields, locked, wait_lock, cpus, threads>>

State == {"UNUSED", "USED", "SLEEPING", "RUNNABLE", "RUNNING", "ZOMBIE"}
Place == {"none", "user", "ret", "f_parent", "f_run", "w_lock", "w_scan", "w_sleep",
          "x_lock", "x_wake", "x_end", "panic"}

TypeOK ==
  /\ state \in [Slot -> State]
  /\ parent \in [Slot -> Slot \cup {None}]
  /\ chan \in [Slot -> Slot \cup {None}]
  /\ killed \in [Slot -> BOOLEAN]
  /\ locked \subseteq Slot
  /\ wait_lock \in Slot \cup {None}
  /\ cproc \in [CPU -> Slot \cup {None}]
  /\ pos \in [CPU -> Slot]
  /\ pc \in [Slot -> Place]
  /\ np \in [Slot -> Slot \cup {None}]
  /\ shell \in Slot \cup {None}
  /\ wakes \in [Slot -> SUBSET Slot]

\* userinit has made init; the others are free.
Init ==
  /\ state = [p \in Slot |-> IF p = initproc THEN "RUNNABLE" ELSE "UNUSED"]
  /\ parent = [p \in Slot |-> None]
  /\ chan = [p \in Slot |-> None]
  /\ killed = [p \in Slot |-> FALSE]
  /\ locked = {} /\ wait_lock = None
  /\ cproc = [c \in CPU |-> None] /\ pos = [c \in CPU |-> 1]
  /\ pc = [p \in Slot |-> IF p = initproc THEN "user" ELSE "none"]
  /\ np = [p \in Slot |-> None]
  /\ shell = None
  /\ wakes = [p \in Slot |-> {}]

-----------------------------------------------------------------------------
(* Spinlocks and the processor.                                            *)

Free(p) == p \notin locked

\* p's kernel thread executes.
Runs(p) == state[p] = "RUNNING" /\ \E c \in CPU : cproc[c] = p

Goes(p, from, to) == Runs(p) /\ pc[p] = from /\ pc' = [pc EXCEPT ![p] = to]

\* wakeup() at one process: make it RUNNABLE if it sleeps on ch.
Woken(p, ch) == IF state[p] = "SLEEPING" /\ chan[p] = ch
                  THEN [state EXCEPT ![p] = "RUNNABLE"] ELSE state

\* acquire(&p->lock); p->state = st; sched().
Switches(p, st) ==
  /\ Free(p)
  /\ state' = [state EXCEPT ![p] = st]
  /\ locked' = locked \cup {p}

Pickable(p) == Free(p) /\ state[p] = "RUNNABLE"

NextPos(c) == pos' = [pos EXCEPT ![c] = (@ % NPROC) + 1]

\* scheduler(): look at the next slot; run its process if it is RUNNABLE.  The
\* resumed thread clears chan if it slept and releases p->lock.
Schedule(c) ==
  LET p == pos[c] IN
  /\ cproc[c] = None
  /\ \/ /\ Pickable(p)
        /\ state' = [state EXCEPT ![p] = "RUNNING"]
        /\ chan' = [chan EXCEPT ![p] = None]
        /\ cproc' = [cproc EXCEPT ![c] = p]
        /\ UNCHANGED <<parent, killed, pos>>
     \/ /\ Free(p) /\ state[p] # "RUNNABLE"
        /\ NextPos(c)
        /\ UNCHANGED <<fields, cproc>>
  /\ UNCHANGED <<locked, wait_lock, threads>>

\* The switch is complete: c->proc = 0, release(&p->lock), on to the next slot.
SwitchedOut(c) ==
  /\ cproc[c] # None /\ state[cproc[c]] # "RUNNING"
  /\ cproc' = [cproc EXCEPT ![c] = None]
  /\ locked' = locked \ {cproc[c]}
  /\ NextPos(c)
  /\ UNCHANGED <<fields, wait_lock, threads>>

\* yield(), from a timer interrupt: interrupts are off under a spinlock.
yield(p) ==
  /\ Runs(p) /\ wait_lock # p
  /\ Switches(p, "RUNNABLE")
  /\ UNCHANGED <<parent, chan, killed, wait_lock, cpus, threads>>

-----------------------------------------------------------------------------
(* Traps.                                                                  *)

\* What a process may do next.  init forks a shell when it has none and waits
\* otherwise (user/init.c); the others do anything.
Wants(p, call) ==
  p = initproc => call = (IF shell = None THEN "fork" ELSE "wait")

\* usertrap: the start of wait or exit, or a kill that finds no process.
Syscall(p) ==
  /\ ~killed[p]
  /\ \/ Wants(p, "wait") /\ Goes(p, "user", "w_lock")
     \/ Wants(p, "exit") /\ Goes(p, "user", "x_lock")
     \/ Wants(p, "kill") /\ Goes(p, "user", "ret")
  /\ UNCHANGED <<fields, locked, wait_lock, cpus, np, shell, wakes>>

\* bug: a timer interrupt does not look at killed
KilledTrapNever(p) == FALSE /\ UNCHANGED vars
\* usertrap: a killed process exits at its next trap, a timer interrupt at the
\* latest.
KilledTrap(p) ==
  /\ killed[p]
  /\ Goes(p, "user", "x_lock")
  /\ UNCHANGED <<fields, locked, wait_lock, cpus, np, shell, wakes>>

\* The end of a system call, on the way to user space.
SyscallReturns(p) ==
  /\ Goes(p, "ret", IF killed[p] THEN "x_lock" ELSE "user")
  /\ UNCHANGED <<fields, locked, wait_lock, cpus, np, shell, wakes>>

-----------------------------------------------------------------------------
(* fork                                                                    *)

\* allocproc: a slot is free.  The scan takes one lock at a time, so the slot it
\* finds need not be the first that is free by then.
Allocatable(q) == Free(q) /\ state[q] = "UNUSED"

\* allocproc and the copying, up to release(&np->lock).
ForkAlloc(p, q) ==
  /\ ~killed[p] /\ Wants(p, "fork")
  /\ Goes(p, "user", "f_parent")
  /\ Allocatable(q)
  /\ state' = [state EXCEPT ![q] = "USED"]
  /\ np' = [np EXCEPT ![p] = q]
  /\ shell' = IF p = initproc THEN q ELSE shell
  /\ UNCHANGED <<parent, chan, killed, locked, wait_lock, cpus, wakes>>

\* No slot, or no memory for the child: its slot is freed again, which also clears
\* killed.  When init's fork fails, init exits.
ForkFails(p) ==
  /\ ~killed[p] /\ Wants(p, "fork")
  /\ Goes(p, "user", IF p = initproc THEN "x_lock" ELSE "ret")
  /\ \/ (\A q \in Slot : state[q] # "UNUSED") /\ UNCHANGED killed
     \/ \E q \in Slot : Allocatable(q) /\ killed' = [killed EXCEPT ![q] = FALSE]
  /\ UNCHANGED <<state, parent, chan, locked, wait_lock, cpus, np, shell, wakes>>

ForkParent(p) ==
  /\ Goes(p, "f_parent", "f_run")
  /\ wait_lock = None
  /\ parent' = [parent EXCEPT ![np[p]] = p]
  /\ UNCHANGED <<state, chan, killed, locked, wait_lock, cpus, np, shell, wakes>>

\* The child becomes RUNNABLE; its thread starts in forkret.
ForkRun(p) ==
  /\ Runs(p) /\ pc[p] = "f_run" /\ Free(np[p])
  /\ state' = [state EXCEPT ![np[p]] = "RUNNABLE"]
  /\ pc' = [pc EXCEPT ![p] = "ret", ![np[p]] = "user"]
  /\ np' = [np EXCEPT ![p] = None]
  /\ UNCHANGED <<parent, chan, killed, locked, wait_lock, cpus, shell, wakes>>

-----------------------------------------------------------------------------
(* exit (the files it closes first belong to other modules)                *)

Children(p) == {q \in Slot : parent[q] = p}

\* bug: reparent() is not called
NotReparented(p) == parent
\* reparent(): p's children become init's.
Reparented(p) == [q \in Slot |-> IF parent[q] = p THEN initproc ELSE parent[q]]

\* bug: nobody is woken
ExitWakesNobody(p) == {}
\* Who has to be woken: init if it got children, and the parent.
ExitWakes(p) == (IF Children(p) # {} THEN {initproc} ELSE {}) \cup {parent[p]}

\* "init exiting"
ExitPanics(p) ==
  /\ p = initproc
  /\ Goes(p, "x_lock", "panic")
  /\ UNCHANGED <<fields, locked, wait_lock, cpus, np, shell, wakes>>

ExitLocks(p) ==
  /\ p # initproc
  /\ Goes(p, "x_lock", "x_wake")
  /\ wait_lock = None /\ wait_lock' = p
  /\ parent' = Reparented(p)
  /\ wakes' = [wakes EXCEPT ![p] = ExitWakes(p)]
  /\ UNCHANGED <<state, chan, killed, locked, cpus, np, shell>>

\* wakeup(initproc) or wakeup(p->parent): only q sleeps on channel q.
ExitWakeup(p) ==
  /\ Runs(p) /\ pc[p] = "x_wake"
  /\ \E q \in wakes[p] : /\ Free(q)
                         /\ state' = Woken(q, q)
                         /\ wakes' = [wakes EXCEPT ![p] = @ \ {q}]
  /\ UNCHANGED <<parent, chan, killed, locked, wait_lock, cpus, pc, np, shell>>

ExitZombie(p) ==
  /\ Goes(p, "x_wake", "x_end") /\ wakes[p] = {}
  /\ Switches(p, "ZOMBIE")
  /\ wait_lock' = None
  /\ UNCHANGED <<parent, chan, killed, cpus, np, shell, wakes>>

-----------------------------------------------------------------------------
(* wait                                                                    *)

WaitLocks(p) ==
  /\ Goes(p, "w_lock", "w_scan")
  /\ wait_lock = None /\ wait_lock' = p
  /\ UNCHANGED <<fields, locked, cpus, np, shell, wakes>>

\* bug: the child's lock is not taken
ReapableUnlocked(p, q) == parent[q] = p /\ state[q] = "ZOMBIE"
Reapable(p, q) == parent[q] = p /\ state[q] = "ZOMBIE" /\ Free(q)

\* The first exited child.
Finds(p, q) ==
  /\ Runs(p) /\ pc[p] = "w_scan"
  /\ Reapable(p, q) /\ \A r \in 1 .. q - 1 : ~(parent[r] = p /\ state[r] = "ZOMBIE")

freeproc(q) ==
  /\ state' = [state EXCEPT ![q] = "UNUSED"]
  /\ parent' = [parent EXCEPT ![q] = None]
  /\ chan' = [chan EXCEPT ![q] = None]
  /\ killed' = [killed EXCEPT ![q] = FALSE]

\* The child is freed; init looks whether it was the shell.
WaitReaps(p, q) ==
  /\ Finds(p, q) /\ freeproc(q)
  /\ pc' = [pc EXCEPT ![p] = "ret", ![q] = "none"]
  /\ shell' = IF p = initproc /\ shell = q THEN None ELSE shell
  /\ wait_lock' = None
  /\ UNCHANGED <<locked, cpus, np, wakes>>

\* copyout of the status fails: return -1, the child remains.  init passes no
\* address.
WaitCopyFails(p, q) ==
  /\ p # initproc /\ Finds(p, q)
  /\ pc' = [pc EXCEPT ![p] = "ret"]
  /\ wait_lock' = None
  /\ UNCHANGED <<fields, locked, cpus, np, shell, wakes>>

NoZombieChild(p) == \A q \in Children(p) : state[q] # "ZOMBIE"

\* No children, or killed: return -1.
WaitFails(p) ==
  /\ NoZombieChild(p) /\ (Children(p) = {} \/ killed[p])
  /\ Goes(p, "w_scan", "ret")
  /\ wait_lock' = None
  /\ UNCHANGED <<fields, locked, cpus, np, shell, wakes>>

\* bug: wait_lock is released before sleep() has p->lock
WaitMustSleepUnlocked(p) ==
  /\ NoZombieChild(p) /\ Children(p) # {} /\ ~killed[p]
  /\ Goes(p, "w_scan", "w_sleep")
  /\ wait_lock' = None
  /\ UNCHANGED <<fields, locked, cpus, np, shell, wakes>>
\* bug: killed is not tested
WaitMustSleepDeaf(p) ==
  /\ NoZombieChild(p) /\ Children(p) # {}
  /\ Goes(p, "w_scan", "w_sleep")
  /\ UNCHANGED <<fields, locked, wait_lock, cpus, np, shell, wakes>>
WaitMustSleep(p) ==
  /\ NoZombieChild(p) /\ Children(p) # {} /\ ~killed[p]
  /\ Goes(p, "w_scan", "w_sleep")
  /\ UNCHANGED <<fields, locked, wait_lock, cpus, np, shell, wakes>>

\* sleep(): with p->lock, release the caller's lock and go to sleep on ch.
Sleeps(p, ch) == Switches(p, "SLEEPING") /\ chan' = [chan EXCEPT ![p] = ch]

\* When it runs again it takes wait_lock and scans again.
WaitSleeps(p) ==
  /\ Goes(p, "w_sleep", "w_lock")
  /\ Sleeps(p, p)
  /\ wait_lock' = None
  /\ UNCHANGED <<parent, killed, cpus, np, shell, wakes>>

-----------------------------------------------------------------------------
(* kill                                                                    *)

KilledState(q) == IF state[q] = "SLEEPING" THEN [state EXCEPT ![q] = "RUNNABLE"] ELSE state

\* A free slot has pid 0, so kill(0) finds the first free slot.
FirstUnused(q) == state[q] = "UNUSED" /\ \A r \in 1 .. q - 1 : state[r] # "UNUSED"

kill(p, q) ==
  /\ ~killed[p] /\ Wants(p, "kill")
  /\ Goes(p, "user", "ret")
  /\ (state[q] # "UNUSED" \/ FirstUnused(q)) /\ Free(q)
  /\ killed' = [killed EXCEPT ![q] = TRUE]
  /\ state' = KilledState(q)
  /\ UNCHANGED <<parent, chan, locked, wait_lock, cpus, np, shell, wakes>>

-----------------------------------------------------------------------------
\* What a process's program decides.
Choice(p) == Syscall(p) \/ ForkFails(p) \/ \E q \in Slot : ForkAlloc(p, q) \/ kill(p, q)

\* What its kernel thread then does.
ThreadStep(p) ==
  \/ KilledTrap(p) \/ SyscallReturns(p)
  \/ ForkParent(p) \/ ForkRun(p)
  \/ ExitPanics(p) \/ ExitLocks(p) \/ ExitWakeup(p) \/ ExitZombie(p)
  \/ WaitLocks(p) \/ WaitFails(p) \/ WaitMustSleep(p) \/ WaitSleeps(p)
  \/ \E q \in Slot : WaitReaps(p, q) \/ WaitCopyFails(p, q)

Scheduler(c) == Schedule(c) \/ SwitchedOut(c)

Next ==
  \/ \E p \in Slot : Choice(p) \/ ThreadStep(p) \/ yield(p)
  \/ \E c \in CPU : Scheduler(c)

Spec == Init /\ [][Next]_vars

\* The processors never stop, and the timer interrupts every process
\* that stays on a processor.  A thread that is run again and again
\* gets its next step done, a spinlock included: ticks are far apart, and no lock
\* is held for long.  init's program never stops either; the others' may.
Fairness ==
  /\ \A c \in CPU : WF_vars(Scheduler(c)) /\ SF_vars(\E p \in Slot : cproc[c] = p /\ yield(p))
  /\ SF_vars(ThreadStep(initproc) \/ Choice(initproc))
  /\ \A p \in Slot \ {initproc} : SF_vars(ThreadStep(p))

FairSpec == Spec /\ Fairness

-----------------------------------------------------------------------------
(* Properties.                                                             *)

\* A process executes on one processor at most, and while a processor is on its
\* kernel stack its slot is neither free nor open to others: it is RUNNING, or
\* its lock is held until the scheduler has left the stack (proc.c:444-499).
StackOwned ==
  \A c \in CPU : cproc[c] # None =>
    /\ \A d \in CPU : cproc[d] = cproc[c] => d = c
    /\ state[cproc[c]] \notin {"UNUSED", "USED"}
    /\ state[cproc[c]] = "RUNNING" \/ cproc[c] \in locked

\* A child's parent is a process that can still wait for it: reparent() comes
\* before exit's ZOMBIE, and no fork slips in between (proc.c:330-386).
ParentCanWait ==
  \A q \in Slot : parent[q] # None => state[parent[q]] \notin {"UNUSED", "USED", "ZOMBIE"}

\* A process sleeps in wait only as long as none of its children has exited:
\* when nobody is inside wait_lock, no wakeup has been missed (proc.c:374, 433).
NoLostWakeup ==
  \A p \in Slot : state[p] = "SLEEPING" /\ chan[p] = p /\ wait_lock = None => NoZombieChild(p)

\* kill() marks the process with the given pid and no other: a process is not
\* born killed (proc.c:109-150, 582-604).
NotBornKilled ==
  [][\A q \in Slot : state[q] = "UNUSED" /\ state'[q] = "USED" => ~killed'[q]]_vars

\* A child of init that exits, an orphan too, is reaped by init, unless init itself
\* has come to its end and the kernel has panicked.  wait() takes the first exited
\* child of the table, so one in an earlier slot may come first, again and again
\* (proc.c:390-435, user/init.c).
InitReaps ==
  LET Exited(q) == state[q] = "ZOMBIE" /\ parent[q] = initproc
  IN  \A q \in Slot \ {initproc} :
        Exited(q) ~> \/ state[q] = "UNUSED"
                     \/ pc[initproc] = "panic"
                     \/ \E r \in 1 .. q - 1 : Exited(r)

\* A killed process exits, wherever kill() finds it, asleep in wait() too.  The one
\* exception is between the test of killed in wait() and the sleep that follows: a
\* kill that comes there is not noticed before a child exits (proc.c:427-433, 586-604).
KillMissed(q) == pc[q] = "w_sleep" \/ (state[q] = "SLEEPING" /\ chan[q] = q)
KilledExits ==
  \A q \in Slot \ {initproc} :
    (killed[q] /\ state[q] \in {"RUNNABLE", "RUNNING", "SLEEPING"} /\ ~KillMissed(q))
      ~> state[q] \in {"ZOMBIE", "UNUSED"}
=============================================================================
