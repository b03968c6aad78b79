----------------------------- MODULE SyncProofs -----------------------------
(***************************************************************************)
(* Proofs about the kernel's lowest layer, modules SpinLock and Ticks: for *)
(* any processors, any locks and any set of locks that interrupt handlers  *)
(* take, and for any width of the tick counter.                            *)
(***************************************************************************)
EXTENDS SpinLock, Ticks, FiniteSetTheorems, TLAPS

Contexts == {"code", "handler"}
Context == [pc : {"run", "spin", "mark", "unlock", "pop"}, lk : Nat, held : SUBSET Locks]

SpinTypes ==
  /\ locked \in [Locks -> BOOLEAN] /\ lkcpu \in [Locks -> Cpus \cup {NoCpu}]
  /\ intr \in [Cpus -> BOOLEAN] /\ noff \in [Cpus -> Nat]
  /\ intena \in [Cpus -> BOOLEAN] /\ inIntr \in [Cpus -> BOOLEAN]
  /\ wanted \in [Cpus -> BOOLEAN]
  /\ ctx \in [Cpus -> [Contexts -> Context]]

\* Interrupted code has no lock, and an idle handler has none either.
OneContext == \A c \in Cpus : ctx[c][IF inIntr[c] THEN "code" ELSE "handler"] = Idling

\* noff is the number of locks the CPU holds, is about to take or has just let go.
Nesting ==
  \A c \in Cpus : /\ IsFiniteSet(Me(c).held)
                  /\ Me(c).pc \in {"spin", "mark", "pop"} => noff[c] = Cardinality(Me(c).held) + 1
                  /\ Me(c).pc \in {"run", "unlock"} => noff[c] = Cardinality(Me(c).held)

\* Interrupts are off while noff counts, and what then is to be restored is saved.
Saved ==
  \A c \in Cpus : /\ noff[c] > 0 => ~intr[c] /\ (intena[c] <=> wanted[c] /\ ~inIntr[c])
                  /\ noff[c] = 0 => (intr[c] <=> wanted[c] /\ ~inIntr[c])
                  /\ inIntr[c] => wanted[c]

\* The lock an operation works on.
Operand ==
  \A c \in Cpus : /\ Me(c).pc \in {"run", "pop"} => Me(c).lk = 0
                  /\ Me(c).pc \in {"spin", "mark"} => Me(c).lk \in Locks /\ \A m \in Me(c).held : m < Me(c).lk
                  /\ Me(c).pc = "unlock" => Me(c).lk \in Me(c).held

Unlocking(c, l) == Me(c).pc = "unlock" /\ Me(c).lk = l

\* lk->cpu names the CPU from the end of acquire() to the start of release().
Marked ==
  \A c \in Cpus, l \in Locks : lkcpu[l] = c <=> l \in Me(c).held /\ ~Unlocking(c, l)

Owns(c, l) == l \in Me(c).held \/ (Me(c).pc = "mark" /\ Me(c).lk = l)

Owned == \A c \in Cpus, l \in Locks :
           Owns(c, l) => locked[l] /\ \A d \in Cpus : Owns(d, l) => d = c

SpinInv == SpinTypes /\ OneContext /\ Nesting /\ Saved /\ Operand /\ Marked /\ Owned /\ ~trouble

-----------------------------------------------------------------------------
(* Spinlocks                                                               *)

\* A step within one context changes what its CPU is doing, and nothing else's.
LEMMA ContextStep ==
  ASSUME SpinTypes, OneContext, NEW c \in Cpus, NEW x \in Context,
         ctx' = [ctx EXCEPT ![c][Cur(c)] = x], UNCHANGED inIntr
  PROVE  /\ ctx' \in [Cpus -> [Contexts -> Context]]
         /\ OneContext'
         /\ \A d \in Cpus : Me(d)' = IF d = c THEN x ELSE Me(d)
<1>1. Cur(c) \in Contexts
  BY DEF Cur, Contexts
<1>2. \A d \in Cpus, k \in Contexts : ctx'[d][k] = IF d = c /\ k = Cur(c) THEN x ELSE ctx[d][k]
  BY <1>1 DEF SpinTypes
<1>3. ctx' \in [Cpus -> [Contexts -> Context]]
  BY <1>1 DEF SpinTypes
<1>4. OneContext'
  BY <1>2 DEF OneContext, Cur, Contexts, SpinTypes
<1>5. \A d \in Cpus : Me(d)' = IF d = c THEN x ELSE Me(d)
  BY <1>2 DEF Me, Cur, Contexts
<1> QED BY <1>3, <1>4, <1>5

\* What a CPU is doing, as a record.
LEMMA MeType ==
  ASSUME SpinTypes, NEW c \in Cpus
  PROVE  /\ Me(c) \in Context
         /\ Me(c) = [pc |-> Me(c).pc, lk |-> Me(c).lk, held |-> Me(c).held]
         /\ ctx[c] \in [Contexts -> Context] /\ Cur(c) \in Contexts /\ Me(c) = ctx[c][Cur(c)]
BY DEF SpinTypes, Me, Cur, Contexts, Context

\* A lock more, or a lock less, in a finite set.
LEMMA CountLocks ==
  ASSUME NEW S, IsFiniteSet(S), NEW l
  PROVE  /\ Cardinality(S) \in Nat /\ IsFiniteSet(S \cup {l}) /\ IsFiniteSet(S \ {l})
         /\ l \notin S => Cardinality(S \cup {l}) = Cardinality(S) + 1
         /\ l \in S => Cardinality(S \ {l}) = Cardinality(S) - 1
         /\ Cardinality(S) = 0 <=> S = {}
BY FS_CardinalityType, FS_AddElement, FS_RemoveElement, FS_EmptySet, FS_Union, FS_Singleton, FS_Subset

\* The kernel starts with all locks free and no interrupts.
LEMMA SpinInvInit == SpinInit => SpinInv
<1> SUFFICES ASSUME SpinInit PROVE SpinInv
  OBVIOUS
<1>1. SpinTypes
  BY DEF SpinInit, SpinTypes, Contexts, Context, Idling
<1>2. \A c \in Cpus : Me(c) = Idling /\ ctx[c]["handler"] = Idling
  BY DEF SpinInit, Me, Cur
<1>3. IsFiniteSet({}) /\ Cardinality({}) = 0
  BY FS_EmptySet
<1>4. OneContext /\ Saved
  BY <1>2 DEF SpinInit, OneContext, Saved, Idling
<1>6. Nesting
  <2>1. \A c \in Cpus : Me(c).held = {} /\ Me(c).pc = "run" /\ noff[c] = 0
    BY <1>2 DEF SpinInit, Idling
  <2> QED BY <1>3, <2>1 DEF Nesting
<1>5. Operand /\ Marked /\ Owned
  BY <1>2, CpuAssumption DEF SpinInit, Operand, Marked, Owned, Owns, Idling
<1> QED BY <1>1, <1>4, <1>5, <1>6 DEF SpinInv, SpinInit

\* acquire() begins: interrupts go off before it spins, and holding() is false.
LEMMA AcqPushInv ==
  ASSUME SpinInv, NEW c \in Cpus, NEW l \in Locks, AcqPush(c, l)
  PROVE  SpinInv'
<1> DEFINE x == [pc |-> "spin", lk |-> l, held |-> Me(c).held]
<1> USE DEF SpinInv
<1>1. x \in Context /\ Me(c).pc = "run" /\ \A m \in Me(c).held : m < l
  BY MeType, LocksAssumption DEF AcqPush, Context
<1>2. ctx' = [ctx EXCEPT ![c][Cur(c)] = x]
  BY DEF AcqPush
<1>3. /\ ctx' \in [Cpus -> [Contexts -> Context]] /\ OneContext'
      /\ \A d \in Cpus : Me(d)' = IF d = c THEN x ELSE Me(d)
  BY <1>1, <1>2, ContextStep DEF AcqPush
<1>4. l \notin Me(c).held
  BY <1>1, LocksAssumption
<1>5. ~trouble'
  BY <1>4 DEF AcqPush, Holding, Marked
<1>6. /\ noff' = [noff EXCEPT ![c] = @ + 1]
      /\ intr' = [intr EXCEPT ![c] = FALSE]
      /\ intena' = IF noff[c] = 0 THEN [intena EXCEPT ![c] = intr[c]] ELSE intena
      /\ UNCHANGED <<locked, lkcpu, inIntr, wanted>>
  BY DEF AcqPush, PushOff
<1>12. SpinTypes'
  BY <1>3, <1>5, <1>6 DEF SpinTypes
<1>7. Nesting'
  <2>1. noff[c] = Cardinality(Me(c).held) /\ noff'[c] = noff[c] + 1
    BY <1>1, <1>6, CountLocks DEF Nesting, SpinTypes
  <2> QED BY <1>1, <1>3, <1>6, <2>1 DEF Nesting, SpinTypes
<1>8. Saved'
  BY <1>6 DEF Saved, SpinTypes
<1>9. Operand'
  BY <1>1, <1>3 DEF Operand
<1>10. Marked'
  BY <1>1, <1>3, <1>6 DEF Marked, Unlocking
<1>11. Owned'
  BY <1>1, <1>3, <1>6 DEF Owned, Owns
<1> QED BY <1>3, <1>5, <1>7, <1>8, <1>9, <1>10, <1>11, <1>12

\* The swap found the lock free, so nobody owned it.
LEMMA AcqSwapInv ==
  ASSUME SpinInv, NEW c \in Cpus, AcqSwap(c)
  PROVE  SpinInv'
<1> DEFINE x == [pc |-> "mark", lk |-> Me(c).lk, held |-> Me(c).held]
<1> USE DEF SpinInv
<1>1. /\ x \in Context /\ Me(c).pc = "spin" /\ Me(c).lk \in Locks /\ ~locked[Me(c).lk]
      /\ locked' = [locked EXCEPT ![Me(c).lk] = TRUE]
      /\ UNCHANGED <<lkcpu, intr, noff, intena, inIntr, wanted, trouble>>
  BY MeType DEF AcqSwap, Context, Operand
<1>2. ctx' = [ctx EXCEPT ![c][Cur(c)] = x]
  BY DEF AcqSwap
<1>3. /\ ctx' \in [Cpus -> [Contexts -> Context]] /\ OneContext'
      /\ \A d \in Cpus : Me(d)' = IF d = c THEN x ELSE Me(d)
  BY <1>1, <1>2, ContextStep
<1>4. SpinTypes'
  BY <1>1, <1>3 DEF SpinTypes
<1>5. Nesting' /\ Saved'
  BY <1>1, <1>3 DEF Nesting, Saved
<1>6. Operand' /\ Marked'
  BY <1>1, <1>3 DEF Operand, Marked, Unlocking
<1>7. Owned'
  BY <1>1, <1>3 DEF Owned, Owns, SpinTypes
<1> QED BY <1>1, <1>3, <1>4, <1>5, <1>6, <1>7

\* acquire() ends: lk->cpu names the one owner.
LEMMA AcqMarkInv ==
  ASSUME SpinInv, NEW c \in Cpus, AcqMark(c)
  PROVE  SpinInv'
<1> USE DEF SpinInv
<1>0. PICK l \in Locks : l = Me(c).lk
  BY DEF AcqMark, Operand
<1> DEFINE x == [pc |-> "run", lk |-> 0, held |-> Me(c).held \cup {l}]
<1>1. /\ x \in Context /\ Me(c).pc = "mark" /\ \A m \in Me(c).held : m < l
      /\ lkcpu' = [lkcpu EXCEPT ![l] = c]
      /\ UNCHANGED <<locked, intr, noff, intena, inIntr, wanted, trouble>>
  BY <1>0, MeType DEF AcqMark, Context, Operand
<1>2. ctx' = [ctx EXCEPT ![c][Cur(c)] = x]
  BY <1>0 DEF AcqMark
<1>3. /\ ctx' \in [Cpus -> [Contexts -> Context]] /\ OneContext'
      /\ \A d \in Cpus : Me(d)' = IF d = c THEN x ELSE Me(d)
  BY <1>1, <1>2, ContextStep
<1>4. SpinTypes'
  BY <1>1, <1>3 DEF SpinTypes
<1>5. l \notin Me(c).held
  BY <1>1, LocksAssumption
<1>6. Nesting'
  <2>1. IsFiniteSet(Me(c).held) /\ noff[c] = Cardinality(Me(c).held) + 1
    BY <1>1 DEF Nesting
  <2>2. /\ IsFiniteSet(Me(c).held \cup {l})
        /\ Cardinality(Me(c).held \cup {l}) = Cardinality(Me(c).held) + 1
    BY <1>5, <2>1, CountLocks
  <2>3. Me(c)'.held = Me(c).held \cup {l} /\ Me(c)'.pc = "run" /\ noff'[c] = noff[c]
    BY <1>1, <1>3
  <2>4. \A d \in Cpus \ {c} : Me(d)' = Me(d) /\ noff'[d] = noff[d]
    BY <1>1, <1>3
  <2> QED BY <2>1, <2>2, <2>3, <2>4 DEF Nesting
<1>7. Saved' /\ Operand'
  BY <1>1, <1>3 DEF Saved, Operand
<1>8. Owns(c, l) /\ \A d \in Cpus : Owns(d, l) => d = c
  BY <1>0, <1>1 DEF Owned, Owns
<1>9. Marked'
  BY <1>1, <1>3, <1>8 DEF Marked, Unlocking, Owns, SpinTypes
<1>10. Owned'
  BY <1>0, <1>1, <1>3 DEF Owned, Owns
<1> QED BY <1>1, <1>3, <1>4, <1>6, <1>7, <1>9, <1>10

\* release() begins: holding() is true of a lock the context holds.
LEMMA RelMarkInv ==
  ASSUME SpinInv, NEW c \in Cpus, NEW l \in Locks, RelMark(c, l)
  PROVE  SpinInv'
<1> DEFINE x == [pc |-> "unlock", lk |-> l, held |-> Me(c).held]
<1> USE DEF SpinInv
<1>1. /\ x \in Context /\ Me(c).pc = "run" /\ l \in Me(c).held
      /\ lkcpu' = [lkcpu EXCEPT ![l] = NoCpu]
      /\ UNCHANGED <<locked, intr, noff, intena, inIntr, wanted>>
  BY MeType, LocksAssumption DEF RelMark, Context
<1>2. ctx' = [ctx EXCEPT ![c][Cur(c)] = x]
  BY DEF RelMark
<1>3. /\ ctx' \in [Cpus -> [Contexts -> Context]] /\ OneContext'
      /\ \A d \in Cpus : Me(d)' = IF d = c THEN x ELSE Me(d)
  BY <1>1, <1>2, ContextStep
<1>4. ~trouble'
  BY <1>1 DEF RelMark, Holding, Marked, Unlocking, Owned, Owns
<1>5. SpinTypes'
  BY <1>1, <1>3, <1>4 DEF SpinTypes
<1>6. Nesting' /\ Saved'
  BY <1>1, <1>3 DEF Nesting, Saved
<1>7. Operand'
  BY <1>1, <1>3 DEF Operand
<1>8. \A d \in Cpus : l \in Me(d).held => d = c
  BY <1>1 DEF Owned, Owns
<1>9. Marked'
  BY <1>1, <1>3, <1>8, CpuAssumption DEF Marked, Unlocking, SpinTypes
<1>10. Owned'
  BY <1>1, <1>3 DEF Owned, Owns
<1> QED BY <1>3, <1>4, <1>5, <1>6, <1>7, <1>9, <1>10

\* The lock is free again; nobody else had it.
LEMMA RelUnlockInv ==
  ASSUME SpinInv, NEW c \in Cpus, RelUnlock(c)
  PROVE  SpinInv'
<1> USE DEF SpinInv
<1>0. PICK l \in Locks : l = Me(c).lk /\ l \in Me(c).held
  BY MeType DEF RelUnlock, Operand, Context
<1> DEFINE x == [pc |-> "pop", lk |-> 0, held |-> Me(c).held \ {l}]
<1>1. /\ x \in Context /\ Me(c).pc = "unlock"
      /\ locked' = [locked EXCEPT ![l] = FALSE]
      /\ UNCHANGED <<lkcpu, intr, noff, intena, inIntr, wanted, trouble>>
  BY <1>0, MeType DEF RelUnlock, Context
<1>2. ctx' = [ctx EXCEPT ![c][Cur(c)] = x]
  BY <1>0 DEF RelUnlock
<1>3. /\ ctx' \in [Cpus -> [Contexts -> Context]] /\ OneContext'
      /\ \A d \in Cpus : Me(d)' = IF d = c THEN x ELSE Me(d)
  BY <1>1, <1>2, ContextStep
<1>4. SpinTypes'
  BY <1>1, <1>3 DEF SpinTypes
<1>5. Nesting'
  <2>1. IsFiniteSet(Me(c).held) /\ noff[c] = Cardinality(Me(c).held)
    BY <1>1 DEF Nesting
  <2>2. /\ IsFiniteSet(Me(c).held \ {l}) /\ Cardinality(Me(c).held) \in Nat
        /\ Cardinality(Me(c).held \ {l}) = Cardinality(Me(c).held) - 1
    BY <1>0, <2>1, CountLocks
  <2>3. Me(c)'.held = Me(c).held \ {l} /\ Me(c)'.pc = "pop" /\ noff'[c] = noff[c]
    BY <1>1, <1>3
  <2>4. \A d \in Cpus \ {c} : Me(d)' = Me(d) /\ noff'[d] = noff[d]
    BY <1>1, <1>3
  <2>5. IsFiniteSet(Me(c)'.held) /\ noff'[c] = Cardinality(Me(c)'.held) + 1
    BY <2>1, <2>2, <2>3
  <2> QED BY <2>3, <2>4, <2>5 DEF Nesting
<1>6. Saved' /\ Operand'
  BY <1>1, <1>3 DEF Saved, Operand
<1>7. Marked'
  BY <1>0, <1>1, <1>3 DEF Marked, Unlocking
<1>8. \A d \in Cpus : Owns(d, l) => d = c
  BY <1>0 DEF Owned, Owns
<1>9. Owned'
  BY <1>0, <1>1, <1>3, <1>8 DEF Owned, Owns, SpinTypes
<1> QED BY <1>1, <1>3, <1>4, <1>5, <1>6, <1>7, <1>9

\* pop_off(): the last one restores what push_off() found.
LEMMA RelPopInv ==
  ASSUME SpinInv, NEW c \in Cpus, RelPop(c)
  PROVE  SpinInv'
<1> DEFINE x == [pc |-> "run", lk |-> Me(c).lk, held |-> Me(c).held]
<1> USE DEF SpinInv
<1>1. /\ x \in Context /\ Me(c).pc = "pop" /\ Me(c).lk = 0
      /\ noff' = [noff EXCEPT ![c] = @ - 1]
      /\ intr' = [intr EXCEPT ![c] = @ \/ (noff[c] = 1 /\ intena[c])]
      /\ UNCHANGED <<locked, lkcpu, intena, inIntr, wanted>>
  BY MeType DEF RelPop, PopOff, Context, Operand
<1>2. ctx' = [ctx EXCEPT ![c][Cur(c)] = x]
  BY DEF RelPop
<1>3. /\ ctx' \in [Cpus -> [Contexts -> Context]] /\ OneContext'
      /\ \A d \in Cpus : Me(d)' = IF d = c THEN x ELSE Me(d)
  BY <1>1, <1>2, ContextStep
<1>4. /\ noff[c] = Cardinality(Me(c).held) + 1 /\ Cardinality(Me(c).held) \in Nat
      /\ IsFiniteSet(Me(c).held) /\ ~intr[c]
  <2>1. IsFiniteSet(Me(c).held) /\ noff[c] = Cardinality(Me(c).held) + 1
    BY <1>1 DEF Nesting
  <2>2. Cardinality(Me(c).held) \in Nat
    BY <2>1, CountLocks
  <2> QED BY <2>1, <2>2 DEF Saved
<1>5. ~trouble'
  BY <1>4 DEF RelPop, SpinTypes
<1>6. SpinTypes'
  <2>1. (intr[c] \/ (noff[c] = 1 /\ intena[c])) \in BOOLEAN
    OBVIOUS
  <2>2. intr' \in [Cpus -> BOOLEAN] /\ noff' \in [Cpus -> Nat]
    BY <1>1, <1>4, <2>1 DEF SpinTypes
  <2> QED BY <1>1, <1>3, <2>2 DEF SpinTypes
<1>7. Nesting'
  BY <1>1, <1>3, <1>4 DEF Nesting, SpinTypes
<1>8. Saved'
  BY <1>1, <1>4 DEF Saved, SpinTypes
<1>9. Operand' /\ Marked' /\ Owned'
  BY <1>1, <1>3 DEF Operand, Marked, Unlocking, Owned, Owns
<1> QED BY <1>3, <1>5, <1>6, <1>7, <1>8, <1>9

\* An interrupt, its return, and intr_on() and intr_off() change no lock; a context
\* that is left or resumed is idle.
LEMMA IntrInv ==
  ASSUME SpinInv, NEW c \in Cpus,
         \/ Interrupt(c) \/ IntrReturn(c)
         \/ \E on \in BOOLEAN : SetIntr(c, on)
  PROVE  SpinInv'
<1> USE DEF SpinInv
<1>1. UNCHANGED <<locked, lkcpu, noff, intena, ctx, trouble>>
  BY Zenon DEF Interrupt, IntrReturn, SetIntr
<1>2. SpinTypes'
  BY <1>1 DEF Interrupt, IntrReturn, SetIntr, SpinTypes
<1>3. noff[c] = 0 /\ Me(c) = Idling
  <2>1. CASE Interrupt(c)
    <3>1. noff[c] = 0
      BY <2>1 DEF Interrupt, Saved, SpinTypes
    <3>2. Me(c).held = {} /\ Me(c).pc \in {"run", "unlock"}
      <4>1. IsFiniteSet(Me(c).held) /\ Cardinality(Me(c).held) \in Nat
        BY CountLocks DEF Nesting
      <4>2. Cardinality(Me(c).held) = 0 /\ Me(c).pc \notin {"spin", "mark", "pop"}
        BY <3>1, <4>1, MeType DEF Nesting, Context
      <4>3. Me(c).held = {}
        BY <4>1, <4>2, CountLocks
      <4> QED BY <4>2, <4>3, MeType DEF Context
    <3>3. Me(c).pc = "run" /\ Me(c).lk = 0
      BY <3>2 DEF Operand
    <3> QED BY <3>1, <3>2, <3>3, MeType DEF Idling
  <2>2. CASE Me(c) = Idling
    BY <2>2, FS_EmptySet DEF Nesting, Idling
  <2> QED BY <2>1, <2>2 DEF IntrReturn, SetIntr
<1>4. OneContext' /\ \A d \in Cpus : Me(d)' = Me(d)
  <2>1. \A k \in Contexts : ctx[c][k] = Idling
    BY <1>3 DEF OneContext, Me, Cur, Contexts
  <2>2. \A d \in Cpus \ {c} : inIntr'[d] = inIntr[d]
    BY DEF Interrupt, IntrReturn, SetIntr, SpinTypes
  <2> QED BY <1>1, <2>1, <2>2 DEF OneContext, Me, Cur, Contexts
<1>5. Nesting' /\ Operand' /\ Marked' /\ Owned'
  BY <1>1, <1>4 DEF Nesting, Operand, Marked, Unlocking, Owned, Owns
<1>6. Saved'
  <2>1. CASE Interrupt(c)
    BY <1>3, <2>1 DEF Interrupt, Saved, SpinTypes
  <2>2. CASE IntrReturn(c)
    BY <1>3, <2>2 DEF IntrReturn, Saved, SpinTypes
  <2>3. ASSUME NEW on \in BOOLEAN, SetIntr(c, on) PROVE Saved'
    BY <1>3, <2>3 DEF SetIntr, Saved, SpinTypes
  <2> QED BY <2>1, <2>2, <2>3
<1> QED BY <1>1, <1>2, <1>4, <1>5, <1>6

\* Every step of a CPU keeps the invariant.
LEMMA SpinInvNext == SpinInv /\ [SpinNext]_spinVars => SpinInv'
<1> SUFFICES ASSUME SpinInv, [SpinNext]_spinVars PROVE SpinInv'
  OBVIOUS
<1>1. CASE UNCHANGED spinVars
  <2>1. \A c \in Cpus : Me(c)' = Me(c)
    BY <1>1 DEF spinVars, Me, Cur
  <2>2. SpinTypes' /\ OneContext' /\ ~trouble'
    BY <1>1 DEF spinVars, SpinInv, SpinTypes, OneContext
  <2>3. Nesting' /\ Saved' /\ Operand'
    BY <1>1, <2>1 DEF spinVars, SpinInv, Nesting, Saved, Operand
  <2>4. Marked' /\ Owned'
    BY <1>1, <2>1 DEF spinVars, SpinInv, Marked, Unlocking, Owned, Owns
  <2> QED BY <2>2, <2>3, <2>4 DEF SpinInv
<1>2. CASE SpinNext
  <2>1. PICK c \in Cpus : SpinStep(c)
    BY <1>2 DEF SpinNext
  <2> QED BY <2>1, AcqPushInv, AcqSwapInv, AcqMarkInv, RelMarkInv, RelUnlockInv, RelPopInv, IntrInv
          DEF SpinStep
<1> QED BY <1>1, <1>2

\* What the invariant says of a state.
LEMMA SpinInvSound == SpinInv => SpinSound
<1> SUFFICES ASSUME SpinInv PROVE SpinSound
  OBVIOUS
<1> USE DEF SpinInv
<1>1. \A c \in Cpus, k \in Contexts, l \in Locks : Has(c, k, l) => k = Cur(c) /\ Owns(c, l)
  BY DEF Has, Owns, OneContext, Me, Cur, Idling, Contexts
<1>2. SpinExclusion
  BY <1>1 DEF SpinExclusion, Owned, Contexts
<1>3. NoSelfDeadlock
  <2> SUFFICES ASSUME NEW c \in Cpus, NEW l \in Locks, Me(c).pc = "spin", Me(c).lk = l
               PROVE  ~Owns(c, l)
    BY <1>1 DEF NoSelfDeadlock, Contexts
  <2> QED BY LocksAssumption DEF Operand, Owns
<1>4. IntrRestored
  <2> SUFFICES ASSUME NEW c \in Cpus
               PROVE  /\ Me(c).held # {} => ~intr[c]
                      /\ ~inIntr[c] /\ Me(c) = Idling => noff[c] = 0 /\ intr[c] = wanted[c]
    BY DEF IntrRestored
  <2>1. Me(c).held # {} => noff[c] > 0
    <3>1. IsFiniteSet(Me(c).held)
      BY DEF Nesting
    <3>2. Cardinality(Me(c).held) \in Nat /\ (Me(c).held # {} => Cardinality(Me(c).held) # 0)
      BY <3>1, CountLocks
    <3> QED BY <3>2, MeType DEF Nesting, Context
  <2>2. Me(c) = Idling => noff[c] = 0
    BY FS_EmptySet DEF Nesting, Idling
  <2> QED BY <2>1, <2>2 DEF Saved, SpinTypes
<1> QED BY <1>2, <1>3, <1>4 DEF SpinSound, NoSpinPanic

\* Spinlocks exclude, no CPU waits for itself, none of spinlock.c's panics happens, and
\* matched push_off() and pop_off() restore the interrupt state.
THEOREM SpinSoundHolds == SpinSpec => []SpinSound
BY SpinInvInit, SpinInvNext, SpinInvSound, PTL DEF SpinSpec

-----------------------------------------------------------------------------
(* The clock                                                               *)

Counter == 0 .. TickRange - 1
Sleeper == [pc : {"awake", "loop", "asleep"}, n : Ints, ticks0 : Counter, waited : 0 .. TickRange]

\* A sleeper has seen as many ticks as the counter has gone on, modulo its range.
TickInv ==
  /\ ticks \in Counter
  /\ zz \in [Sleepers -> Sleeper]
  /\ \A p \in Sleepers : zz[p].pc # "awake" =>
       zz[p].waited = TickRange \/ Since(ticks, zz[p].ticks0) = zz[p].waited

\* Unsigned subtraction, and the conversion of the argument.
LEMMA Modular ==
  /\ \A t, u \in Counter : Since(t, u) = IF t >= u THEN t - u ELSE t - u + TickRange
  /\ \A t \in Counter : (t + 1) % TickRange = IF t = TickRange - 1 THEN 0 ELSE t + 1
  /\ \A n \in Ints : /\ Unsigned(n) = IF n < 0 THEN n + TickRange ELSE n
                     /\ n \in Int /\ n < TickRange
<1>1. TickRange \in Nat /\ TickRange > 0 /\ 0 % TickRange = 0
  BY TickAssumption
<1>2. \A z \in Int : 0 <= z /\ z < TickRange => z % TickRange = z
  BY <1>1
<1>3. \A z \in Int : -TickRange <= z /\ z < 0 => z % TickRange = z + TickRange
  BY <1>1
<1>4. TickRange % TickRange = 0
  BY <1>1
<1>5. \A n \in Ints : n \in Int /\ -TickRange <= n /\ n < TickRange
  BY TickAssumption DEF Ints
<1>6. ASSUME NEW t \in Counter, NEW u \in Counter
      PROVE  Since(t, u) = IF t >= u THEN t - u ELSE t - u + TickRange
  BY <1>1, <1>2, <1>3 DEF Since, Counter
<1>7. ASSUME NEW t \in Counter
      PROVE  (t + 1) % TickRange = IF t = TickRange - 1 THEN 0 ELSE t + 1
  BY <1>1, <1>2, <1>4 DEF Counter
<1>8. ASSUME NEW n \in Ints
      PROVE  Unsigned(n) = IF n < 0 THEN n + TickRange ELSE n
  BY <1>2, <1>3, <1>5 DEF Unsigned
<1> QED BY <1>5, <1>6, <1>7, <1>8

\* Awake is a sleeper's record.
LEMMA AwakeType == Awake \in Sleeper /\ 0 \in Counter
BY TickAssumption DEF Awake, Sleeper, Ints, Counter

\* Nobody sleeps at boot.
LEMMA TickInvInit == TickInit => TickInv
BY AwakeType DEF TickInit, TickInv, Awake

\* One more tick is one more for every sleeper, wherever the counter wraps.
LEMMA ClockInv ==
  ASSUME TickInv, ClockIntr
  PROVE  TickInv'
<1>1. ticks' \in Counter /\ ticks' = IF ticks = TickRange - 1 THEN 0 ELSE ticks + 1
  <2>1. ticks \in Counter /\ ticks' = (ticks + 1) % TickRange
    BY DEF TickInv, ClockIntr
  <2> QED BY <2>1, Modular, TickAssumption DEF Counter
<1>2. ASSUME NEW p \in Sleepers
      PROVE  /\ zz'[p] \in Sleeper
             /\ zz'[p].pc # "awake" =>
                  zz'[p].waited = TickRange \/ Since(ticks', zz'[p].ticks0) = zz'[p].waited
  <2>1. zz[p] \in Sleeper
    BY DEF TickInv
  <2>2. CASE zz[p].pc = "awake"
    BY <2>2, AwakeType DEF ClockIntr, Awake
  <2>3. CASE zz[p].pc # "awake"
    <3>1. PICK v \in 0 .. TickRange : v = zz[p].waited
      BY <2>1 DEF Sleeper
    <3>2. PICK w \in 0 .. TickRange : w = IF v < TickRange THEN v + 1 ELSE v
      BY TickAssumption
    <3>3. zz'[p] = [zz[p] EXCEPT !.pc = IF @ = "asleep" THEN "loop" ELSE @, !.waited = w]
      BY <2>3, <3>1, <3>2 DEF ClockIntr
    <3>4. /\ zz'[p] \in Sleeper /\ zz'[p].ticks0 = zz[p].ticks0 /\ zz'[p].waited = w
          /\ zz[p].ticks0 \in Counter /\ ticks \in Counter
      <4>1. zz'[p] \in Sleeper /\ zz'[p].ticks0 = zz[p].ticks0 /\ zz'[p].waited = w
        BY <2>1, <3>3 DEF Sleeper
      <4> QED BY <2>1, <4>1 DEF TickInv, Sleeper
    <3>5. v < TickRange => Since(ticks, zz[p].ticks0) = v
      BY <2>3, <3>1, TickAssumption DEF TickInv
    <3>6. w = TickRange \/ Since(ticks', zz[p].ticks0) = w
      <4>1. PICK u \in Counter : u = zz[p].ticks0
        BY <3>4
      <4>2. /\ Since(ticks, u) = IF ticks >= u THEN ticks - u ELSE ticks - u + TickRange
            /\ Since(ticks', u) = IF ticks' >= u THEN ticks' - u ELSE ticks' - u + TickRange
        BY <1>1, <3>4, Modular
      <4> QED BY <1>1, <3>2, <3>4, <3>5, <4>1, <4>2, TickAssumption DEF Counter
    <3> QED BY <3>4, <3>6
  <2> QED BY <2>2, <2>3
<1>3. zz' = [p \in Sleepers |-> zz'[p]]
  BY DEF ClockIntr
<1> QED BY <1>1, <1>2, <1>3 DEF TickInv, Sleeper

\* A call of sleep() and kill() keep the count.
LEMMA SleeperInv ==
  ASSUME TickInv, NEW p \in Sleepers,
         \/ \E n \in Ints : SleepCall(p, n)
         \/ SleepReturn(p) \/ SleepSleep(p) \/ KillSleeper(p)
  PROVE  TickInv'
<1>1. ticks' = ticks /\ ticks \in Counter /\ zz \in [Sleepers -> Sleeper]
  BY DEF TickInv, Sleeper, SleepCall, SleepReturn, SleepSleep, KillSleeper
<1>2. \A q \in Sleepers \ {p} : zz'[q] = zz[q]
  BY <1>1 DEF SleepCall, SleepReturn, SleepSleep, KillSleeper
<1>3. /\ zz' \in [Sleepers -> Sleeper]
      /\ zz'[p].pc # "awake" =>
           zz'[p].waited = TickRange \/ Since(ticks, zz'[p].ticks0) = zz'[p].waited
  <2>1. ASSUME NEW n \in Ints, SleepCall(p, n) PROVE <1>3
    <3>1. zz' = [zz EXCEPT ![p] = [pc |-> "loop", n |-> n, ticks0 |-> ticks, waited |-> 0]]
      BY <2>1 DEF SleepCall
    <3>2. Since(ticks, ticks) = 0
      BY <1>1, Modular DEF Counter
    <3> QED BY <1>1, <3>1, <3>2, TickAssumption DEF Sleeper
  <2>2. CASE SleepReturn(p)
    BY <1>1, <2>2, AwakeType DEF SleepReturn, Awake
  <2>3. CASE SleepSleep(p) \/ KillSleeper(p)
    <3>1. /\ zz'[p].n = zz[p].n /\ zz'[p].ticks0 = zz[p].ticks0 /\ zz'[p].waited = zz[p].waited
          /\ zz'[p].pc # "awake" => zz[p].pc # "awake"
          /\ zz' \in [Sleepers -> Sleeper]
      BY <1>1, <2>3 DEF SleepSleep, KillSleeper, Sleeper
    <3> QED BY <3>1 DEF TickInv
  <2> QED BY <2>1, <2>2, <2>3
<1> QED BY <1>1, <1>2, <1>3 DEF TickInv, Sleeper

\* Every step of the clock and of the sleepers keeps the invariant.
LEMMA TickInvNext == TickInv /\ [TickNext]_tickVars => TickInv'
<1>1. ASSUME TickInv, UNCHANGED tickVars PROVE TickInv'
  BY <1>1 DEF TickInv, tickVars
<1> QED BY <1>1, ClockInv, SleeperInv DEF TickNext

\* A process that leaves sys_sleep() has seen its ticks go by, or has been killed.
LEMMA ReturnInTime ==
  ASSUME TickInv, TickNext, NEW p \in Sleepers,
         zz[p].pc # "awake", zz'[p].pc = "awake", p \notin hit
  PROVE  zz[p].waited >= IF zz[p].n < 0 THEN TickRange + zz[p].n ELSE zz[p].n
<1>1. zz \in [Sleepers -> Sleeper]
  BY DEF TickInv, Sleeper
<1>2. SleepReturn(p)
  <2>1. ASSUME NEW q \in Sleepers, NEW n \in Ints, SleepCall(q, n) PROVE FALSE
    BY <1>1, <2>1 DEF SleepCall
  <2>2. ASSUME NEW q \in Sleepers, SleepSleep(q) \/ KillSleeper(q) PROVE FALSE
    BY <1>1, <2>2 DEF SleepSleep, KillSleeper, Sleeper
  <2>3. ~ClockIntr
    <3>1. SUFFICES ASSUME ClockIntr PROVE zz'[p].pc # "awake"
      OBVIOUS
    <3>2. PICK w \in 0 .. TickRange :
            zz'[p] = [zz[p] EXCEPT !.pc = IF @ = "asleep" THEN "loop" ELSE @, !.waited = w]
      <4>1. zz[p].waited \in 0 .. TickRange
        BY <1>1 DEF Sleeper
      <4>2. (IF zz[p].waited < TickRange THEN zz[p].waited + 1 ELSE zz[p].waited) \in 0 .. TickRange
        BY <4>1, TickAssumption
      <4> QED BY <3>1, <4>2 DEF ClockIntr
    <3>3. zz[p] \in Sleeper /\ zz[p].pc # "awake"
      BY <1>1
    <3> QED BY <3>2, <3>3 DEF Sleeper
  <2>4. ASSUME NEW q \in Sleepers, SleepReturn(q) PROVE q = p
    BY <1>1, <2>4 DEF SleepReturn
  <2> QED BY <2>1, <2>2, <2>3, <2>4 DEF TickNext
<1>3. Since(ticks, zz[p].ticks0) >= Unsigned(zz[p].n)
  <2>1. ~(Since(ticks, zz[p].ticks0) < Unsigned(zz[p].n))
    BY <1>2 DEF SleepReturn, StillSleepy
  <2>2. Since(ticks, zz[p].ticks0) \in Int /\ Unsigned(zz[p].n) \in Int
    <3>1. ticks \in Counter /\ zz[p].ticks0 \in Counter /\ zz[p].n \in Ints
      BY <1>1 DEF TickInv, Sleeper
    <3>2. /\ Since(ticks, zz[p].ticks0)
               = IF ticks >= zz[p].ticks0 THEN ticks - zz[p].ticks0 ELSE ticks - zz[p].ticks0 + TickRange
          /\ Unsigned(zz[p].n) = IF zz[p].n < 0 THEN zz[p].n + TickRange ELSE zz[p].n
          /\ zz[p].n \in Int
      BY <3>1, Modular
    <3> QED BY <3>1, <3>2, TickAssumption DEF Counter
  <2> QED BY <2>1, <2>2
<1>4. zz[p].waited = TickRange \/ Since(ticks, zz[p].ticks0) = zz[p].waited
  BY DEF TickInv
<1> QED BY <1>1, <1>3, <1>4, Modular, TickAssumption DEF Sleeper

\* sleep(n) never returns before n ticks have gone by, wherever the unsigned counter
\* wraps, unless the process is killed; a negative n counts as an unsigned one.
THEOREM SleepsLongEnoughHolds == TickSpec => SleepsLongEnough
<1> DEFINE InTime == \A p \in Sleepers :
       zz[p].pc # "awake" /\ zz'[p].pc = "awake" /\ p \notin hit =>
         zz[p].waited >= IF zz[p].n < 0 THEN TickRange + zz[p].n ELSE zz[p].n
<1>1. TickInv /\ [TickNext]_tickVars => [zz' # zz => InTime]_tickVars
  BY ReturnInTime
<1> QED BY <1>1, TickInvInit, TickInvNext, PTL DEF TickSpec, SleepsLongEnough
=============================================================================
