------------------------------ MODULE SpinLock ------------------------------
(***************************************************************************)
(* Spinlocks and the nesting of interrupt disabling (kernel/spinlock.c) on *)
(* several CPUs, each running kernel code that a device interrupt may      *)
(* interrupt with a handler that takes locks itself (kernel/trap.c).       *)
(* locked and cpu of a lock are separate words, written at separate steps. *)
(* Locks are taken in increasing order, as the kernel's locks are.         *)
(***************************************************************************)
EXTENDS Integers, FiniteSets

CONSTANTS Cpus,
          Locks,                \* a set of numbers: the locking order
          HandlerLocks          \* locks that interrupt handlers take

ASSUME LocksAssumption == Locks \subseteq Nat /\ HandlerLocks \subseteq Locks

VARIABLES locked, lkcpu,        \* struct spinlock
          intr,                 \* interrupts are enabled on the CPU
          noff, intena,         \* struct cpu
          inIntr,               \* the CPU runs the handler
          ctx,                  \* CPU -> "code" or "handler" -> [pc, lk, held]
          wanted,               \* what the code last made of interrupts itself
          trouble               \* one of spinlock.c's panics
spinVars == <<locked, lkcpu, intr, noff, intena, inIntr, ctx, wanted, trouble>>

NoCpu == 0
ASSUME CpuAssumption == NoCpu \notin Cpus
Idling == [pc |-> "run", lk |-> 0, held |-> {}]
Cur(c) == IF inIntr[c] THEN "handler" ELSE "code"
Me(c) == ctx[c][Cur(c)]

SpinInit ==
  /\ locked = [l \in Locks |-> FALSE]
  /\ lkcpu = [l \in Locks |-> NoCpu]
  /\ intr = [c \in Cpus |-> FALSE]
  /\ noff = [c \in Cpus |-> 0]
  /\ intena = [c \in Cpus |-> FALSE]
  /\ inIntr = [c \in Cpus |-> FALSE]
  /\ ctx = [c \in Cpus |-> [k \in {"code", "handler"} |-> Idling]]
  /\ wanted = [c \in Cpus |-> FALSE]
  /\ trouble = FALSE

-----------------------------------------------------------------------------
Holding(c, l) == locked[l] /\ lkcpu[l] = c

\* bug: interrupts stay on
PushOffNoCli(c) ==
  /\ intena' = IF noff[c] = 0 THEN [intena EXCEPT ![c] = intr[c]] ELSE intena
  /\ noff' = [noff EXCEPT ![c] = @ + 1]
  /\ UNCHANGED intr
\* bug: a nested call saves the state again
PushOffForgets(c) ==
  /\ intr' = [intr EXCEPT ![c] = FALSE]
  /\ intena' = [intena EXCEPT ![c] = intr[c]]
  /\ noff' = [noff EXCEPT ![c] = @ + 1]
PushOff(c) ==
  /\ intr' = [intr EXCEPT ![c] = FALSE]
  /\ intena' = IF noff[c] = 0 THEN [intena EXCEPT ![c] = intr[c]] ELSE intena
  /\ noff' = [noff EXCEPT ![c] = @ + 1]

PopOff(c) ==
  /\ noff' = [noff EXCEPT ![c] = @ - 1]
  /\ intr' = [intr EXCEPT ![c] = @ \/ (noff[c] = 1 /\ intena[c])]
  /\ UNCHANGED intena

(* acquire(): interrupts off first; then the swap, then lk->cpu. *)
AcqPush(c, l) ==
  /\ ~trouble /\ Me(c).pc = "run"
  /\ \A m \in Me(c).held : m < l
  /\ inIntr[c] => l \in HandlerLocks
  /\ PushOff(c)
  /\ trouble' = Holding(c, l)
  /\ ctx' = [ctx EXCEPT ![c][Cur(c)] = [pc |-> "spin", lk |-> l, held |-> Me(c).held]]
  /\ UNCHANGED <<locked, lkcpu, inIntr, wanted>>

\* bug: the old value of locked is not looked at
AcqSwapBlind(c) ==
  /\ ~trouble /\ Me(c).pc = "spin"
  /\ locked' = [locked EXCEPT ![Me(c).lk] = TRUE]
  /\ ctx' = [ctx EXCEPT ![c][Cur(c)] = [pc |-> "mark", lk |-> Me(c).lk, held |-> Me(c).held]]
  /\ UNCHANGED <<lkcpu, intr, noff, intena, inIntr, wanted, trouble>>
AcqSwap(c) ==
  /\ ~trouble /\ Me(c).pc = "spin" /\ ~locked[Me(c).lk]
  /\ locked' = [locked EXCEPT ![Me(c).lk] = TRUE]
  /\ ctx' = [ctx EXCEPT ![c][Cur(c)] = [pc |-> "mark", lk |-> Me(c).lk, held |-> Me(c).held]]
  /\ UNCHANGED <<lkcpu, intr, noff, intena, inIntr, wanted, trouble>>

AcqMark(c) ==
  /\ Me(c).pc = "mark"
  /\ lkcpu' = [lkcpu EXCEPT ![Me(c).lk] = c]
  /\ ctx' = [ctx EXCEPT ![c][Cur(c)] =
               [pc |-> "run", lk |-> 0, held |-> Me(c).held \cup {Me(c).lk}]]
  /\ UNCHANGED <<locked, intr, noff, intena, inIntr, wanted, trouble>>

\* bug: lk->cpu is not cleared
RelMarkKeepsCpu(c, l) ==
  /\ ~trouble /\ Me(c).pc = "run" /\ l \in Me(c).held
  /\ trouble' = ~Holding(c, l)
  /\ ctx' = [ctx EXCEPT ![c][Cur(c)] = [pc |-> "unlock", lk |-> l, held |-> Me(c).held]]
  /\ UNCHANGED <<locked, lkcpu, intr, noff, intena, inIntr, wanted>>
(* release(): cpu cleared, then locked, then interrupts perhaps on again. *)
RelMark(c, l) ==
  /\ ~trouble /\ Me(c).pc = "run" /\ l \in Me(c).held
  /\ trouble' = ~Holding(c, l)
  /\ lkcpu' = [lkcpu EXCEPT ![l] = NoCpu]
  /\ ctx' = [ctx EXCEPT ![c][Cur(c)] = [pc |-> "unlock", lk |-> l, held |-> Me(c).held]]
  /\ UNCHANGED <<locked, intr, noff, intena, inIntr, wanted>>

RelUnlock(c) ==
  /\ ~trouble /\ Me(c).pc = "unlock"
  /\ locked' = [locked EXCEPT ![Me(c).lk] = FALSE]
  /\ ctx' = [ctx EXCEPT ![c][Cur(c)] =
               [pc |-> "pop", lk |-> 0, held |-> Me(c).held \ {Me(c).lk}]]
  /\ UNCHANGED <<lkcpu, intr, noff, intena, inIntr, wanted, trouble>>

RelPop(c) ==
  /\ Me(c).pc = "pop"
  /\ trouble' = (intr[c] \/ noff[c] < 1)
  /\ PopOff(c)
  /\ ctx' = [ctx EXCEPT ![c][Cur(c)] = [pc |-> "run", lk |-> Me(c).lk, held |-> Me(c).held]]
  /\ UNCHANGED <<locked, lkcpu, inIntr, wanted>>

(* intr_on() and intr_off() of code outside critical sections. *)
SetIntr(c, on) ==
  /\ ~inIntr[c] /\ Me(c) = Idling /\ intr[c] # on
  /\ intr' = [intr EXCEPT ![c] = on]
  /\ wanted' = [wanted EXCEPT ![c] = on]
  /\ UNCHANGED <<locked, lkcpu, noff, intena, inIntr, ctx, trouble>>

(* A device interrupts; the hardware disables interrupts for the handler,  *)
(* whose return enables them again.                                        *)
Interrupt(c) ==
  /\ intr[c] /\ ~inIntr[c]
  /\ inIntr' = [inIntr EXCEPT ![c] = TRUE]
  /\ intr' = [intr EXCEPT ![c] = FALSE]
  /\ UNCHANGED <<locked, lkcpu, noff, intena, ctx, wanted, trouble>>

IntrReturn(c) ==
  /\ inIntr[c] /\ Me(c) = Idling
  /\ inIntr' = [inIntr EXCEPT ![c] = FALSE]
  /\ intr' = [intr EXCEPT ![c] = TRUE]
  /\ UNCHANGED <<locked, lkcpu, noff, intena, ctx, wanted, trouble>>

SpinStep(c) ==
  \/ \E l \in Locks : AcqPush(c, l) \/ RelMark(c, l)
  \/ AcqSwap(c) \/ AcqMark(c) \/ RelUnlock(c) \/ RelPop(c)
  \/ \E on \in BOOLEAN : SetIntr(c, on)
  \/ Interrupt(c) \/ IntrReturn(c)

SpinNext == \E c \in Cpus : SpinStep(c)
SpinSpec == SpinInit /\ [][SpinNext]_spinVars
-----------------------------------------------------------------------------
Has(c, k, l) == \/ l \in ctx[c][k].held
                \/ ctx[c][k].pc = "mark" /\ ctx[c][k].lk = l
InLock(c, k) == \E l \in Locks : Has(c, k, l)

(* A lock has at most one holder, over all CPUs and over code and handler  *)
(* of one CPU, and is marked as taken while it has one.                    *)
SpinExclusion ==
  \A c, d \in Cpus, j, k \in {"code", "handler"}, l \in Locks :
    Has(c, j, l) => locked[l] /\ (Has(d, k, l) => c = d /\ j = k)

(* A CPU never spins on a lock it holds itself, by an interrupt or not:    *)
(* acquire() disables interrupts before it takes the lock (line 24) and    *)
(* release() enables them after it gave it up (line 71).                   *)
NoSelfDeadlock ==
  \A c \in Cpus, l \in Locks :
    Me(c).pc = "spin" /\ Me(c).lk = l => ~Has(c, "code", l) /\ ~Has(c, "handler", l)

(* holding() reads two words without the lock, yet tells a CPU the truth   *)
(* about itself: none of the panics of acquire(), release() and pop_off()  *)
(* can happen.                                                             *)
NoSpinPanic == ~trouble

(* Matched push_off() and pop_off() restore the interrupt state, however   *)
(* they nest, whatever order locks are released in and whatever interrupts *)
(* happened meanwhile (spinlock.c:84-86).                                  *)
IntrRestored ==
  \A c \in Cpus : /\ Me(c).held # {} => ~intr[c]
                  /\ ~inIntr[c] /\ Me(c) = Idling =>
                        noff[c] = 0 /\ intr[c] = wanted[c]

(* All of that at once.                                                    *)
SpinSound == SpinExclusion /\ NoSelfDeadlock /\ NoSpinPanic /\ IntrRestored
=============================================================================
