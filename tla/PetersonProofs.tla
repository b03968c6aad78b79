--------------------------- MODULE PetersonProofs ---------------------------
(***************************************************************************)
(* Proofs about the Peterson lock table, for every set of processes and    *)
(* every table size.                                                       *)
(***************************************************************************)
EXTENDS Peterson, Sequences, TLAPS

\* What holds of the table whatever the callers do.
TableInv == TypeOK /\ InactiveIsReset /\ FlagHasClaimant

\* The clean slots are slots.
LEMMA CleanSlots == Unused \in Slot /\ Fresh \in Slot /\ \A r \in Role : Unused.flag[r] = 0 /\ Fresh.flag[r] = 0
BY DEF Unused, Fresh, Slot, NoFlag, Role

\* Announcing and revoking interest yield slots, and change one flag.
LEMMA SlotSteps ==
  ASSUME NEW pl \in Slot, NEW role \in Role
  PROVE  /\ Interested(pl, role) \in Slot
         /\ Released(pl, role) \in Slot
         /\ Interested(pl, role).active = pl.active
         /\ Released(pl, role).active = pl.active
         /\ Interested(pl, role).flag[role] = 1
         /\ Interested(pl, role).turn = 1 - role
         /\ Released(pl, role).flag[role] = 0
         /\ Released(pl, role).turn = pl.turn
<1>1. pl = [active |-> pl.active, flag |-> pl.flag, turn |-> pl.turn]
  BY DEF Slot
<1>2. pl.active \in BOOLEAN /\ pl.flag \in [Role -> {0, 1}] /\ pl.turn \in Role /\ 1 - role \in Role
  BY DEF Slot, Role
<1>3. Interested(pl, role)
        = [active |-> pl.active, flag |-> [pl.flag EXCEPT ![role] = 1], turn |-> 1 - role]
  BY DEF Interested
<1>4. Released(pl, role)
        = [active |-> pl.active, flag |-> [pl.flag EXCEPT ![role] = 0], turn |-> pl.turn]
  BY <1>1 DEF Released
<1>5. /\ [pl.flag EXCEPT ![role] = 1] \in [Role -> {0, 1}]
      /\ [pl.flag EXCEPT ![role] = 0] \in [Role -> {0, 1}]
  BY <1>2
<1>6. Interested(pl, role) \in Slot /\ Released(pl, role) \in Slot
  BY <1>2, <1>3, <1>4, <1>5 DEF Slot
<1> QED BY <1>2, <1>3, <1>4, <1>6

\* Setting or clearing one's own flag leaves the other side's alone.
LEMMA OtherFlag ==
  ASSUME NEW pl \in Slot, NEW role \in Role, NEW r \in Role, r # role
  PROVE  /\ Interested(pl, role).flag[r] = pl.flag[r]
         /\ Released(pl, role).flag[r] = pl.flag[r]
BY DEF Slot, Interested, Released

-----------------------------------------------------------------------------
\* The results of the calls are results.
LEMMA ReturnsType ==
  ASSUME TypeOK, NEW p \in Proc, NEW r \in -1 .. NPETERSONLOCKS - 1, Returns(p, r)
  PROVE  ret' \in [Proc -> -1 .. NPETERSONLOCKS - 1]
BY DEF TypeOK, Returns

\* What the calls that return no lock's index return.
LEMMA ResultRange == -1 \in -1 .. NPETERSONLOCKS - 1 /\ 0 \in -1 .. NPETERSONLOCKS - 1
BY TableSize

\* The table starts clean.
LEMMA TableInvInit == Init => TableInv
BY CleanSlots, TableSize
   DEF Init, TableInv, TypeOK, InactiveIsReset, FlagHasClaimant, Unused, NoFlag, Role, Slot

\* Creating a lock keeps the table invariant.
LEMMA TableInvCreate ==
  ASSUME TableInv, NEW p \in Proc, sys_peterson_create(p)
  PROVE  TableInv'
<1> USE DEF TableInv
<1>1. CASE UNCHANGED ptable
  <2>1. ret' \in [Proc -> -1 .. NPETERSONLOCKS - 1]
    BY ResultRange, ReturnsType DEF sys_peterson_create, Id
  <2> QED BY <1>1, <2>1, Zenon DEF sys_peterson_create, TypeOK, InactiveIsReset, FlagHasClaimant
<1>2. CASE \E i \in Id : ptable' = [ptable EXCEPT ![i] = Fresh] /\ Returns(p, i)
  <2>1. PICK i \in Id : ptable' = [ptable EXCEPT ![i] = Fresh] /\ Returns(p, i)
    BY <1>2, Zenon
  <2>2. TypeOK'
    BY <2>1, CleanSlots DEF sys_peterson_create, Returns, TypeOK, Id
  <2>3. InactiveIsReset'
    BY <2>1 DEF InactiveIsReset, Fresh, TypeOK
  <2>4. FlagHasClaimant'
    BY <2>1, CleanSlots DEF sys_peterson_create, FlagHasClaimant, TypeOK
  <2> QED BY <2>2, <2>3, <2>4
<1> QED BY <1>1, <1>2 DEF sys_peterson_create

\* So do the early returns.
LEMMA TableInvRejected ==
  ASSUME TableInv, NEW p \in Proc, NEW id, NEW role, Rejected(p, id, role)
  PROVE  TableInv'
<1>1. ret' \in [Proc -> -1 .. NPETERSONLOCKS - 1]
  BY ResultRange, ReturnsType DEF TableInv, Rejected
<1> QED BY <1>1, Zenon DEF TableInv, Rejected, TypeOK, InactiveIsReset, FlagHasClaimant

\* So does announcing interest.
LEMMA TableInvEntered ==
  ASSUME TableInv, NEW p \in Proc, NEW id, NEW role, Entered(p, id, role)
  PROVE  TableInv'
<1> USE DEF TableInv
<1>1. /\ id \in Id /\ role \in Role /\ ptable[id].active /\ ptable[id] \in Slot
      /\ ptable' = [ptable EXCEPT ![id] = Interested(ptable[id], role)]
      /\ <<p, id, role>> \in Claim
  BY DEF Entered, Usable, TypeOK, Claim
<1>2. waiting' \cup held' = waiting \cup held \cup {<<p, id, role>>}
  BY DEF Entered
<1>3. TypeOK'
  <2>1. ptable' \in [Id -> Slot]
    BY <1>1, SlotSteps DEF TypeOK
  <2>2. /\ waiting' \subseteq Claim /\ held' \subseteq Claim
        /\ ret' \in [Proc -> -1 .. NPETERSONLOCKS - 1]
    BY <1>1, TableSize DEF Entered, Returns, TypeOK
  <2> QED BY <2>1, <2>2 DEF Entered, TypeOK
<1>4. InactiveIsReset'
  BY <1>1, SlotSteps DEF InactiveIsReset, TypeOK
<1>5. FlagHasClaimant'
  <2>1. SUFFICES ASSUME NEW i \in Id, NEW r \in Role, ptable'[i].flag[r] = 1
                 PROVE  \E q \in Proc : <<q, i, r>> \in waiting' \cup held'
    BY DEF FlagHasClaimant
  <2>2. CASE i = id /\ r = role
    BY <1>2, <2>2
  <2>3. CASE ~(i = id /\ r = role)
    <3>1. ptable[i].flag[r] = 1
      <4>1. CASE i = id
        <5>1. ptable'[i] = Interested(ptable[i], role)
          BY <1>1, <4>1 DEF TypeOK
        <5>2. Interested(ptable[i], role).flag[r] = ptable[i].flag[r]
          BY <1>1, <2>3, <4>1, OtherFlag
        <5> QED BY <2>1, <5>1, <5>2
      <4>2. CASE i # id
        BY <1>1, <2>1, <4>2 DEF TypeOK
      <4> QED BY <4>1, <4>2
    <3> QED BY <1>2, <3>1 DEF FlagHasClaimant
  <2> QED BY <2>2, <2>3
<1> QED BY <1>3, <1>4, <1>5

\* So does leaving the loop.
LEMMA TableInvRecheck ==
  ASSUME TableInv, NEW p \in Proc, NEW id \in Id, NEW role \in Role, Recheck(p, id, role)
  PROVE  TableInv'
<1> USE DEF TableInv
<1>1. TypeOK'
  BY TableSize DEF Recheck, RecheckResult, Returns, TypeOK, Claim
<1>2. InactiveIsReset'
  BY DEF Recheck, InactiveIsReset
<1>3. FlagHasClaimant'
  <2>1. CASE ptable[id].active
    <3>1. waiting' \cup held' = waiting \cup held
      BY <2>1 DEF Recheck, RecheckResult
    <3> QED BY <3>1 DEF Recheck, FlagHasClaimant
  <2>2. CASE ~ptable[id].active
    <3>1. \A r \in Role : ptable[id].flag[r] = 0
      BY <2>2, CleanSlots DEF InactiveIsReset
    <3>2. \A c \in waiting \cup held : c # <<p, id, role>> => c \in waiting' \cup held'
      BY <2>2 DEF Recheck, RecheckResult
    <3>3. UNCHANGED ptable
      BY DEF Recheck
    <3>4. SUFFICES ASSUME NEW i \in Id, NEW r \in Role, ptable[i].flag[r] = 1
                   PROVE  \E q \in Proc : <<q, i, r>> \in waiting' \cup held'
      BY <3>3 DEF FlagHasClaimant
    <3>5. PICK q \in Proc : <<q, i, r>> \in waiting \cup held
      BY <3>4 DEF FlagHasClaimant
    <3>6. i # id
      BY <3>1, <3>4
    <3> QED BY <3>2, <3>5, <3>6
  <2> QED BY <2>1, <2>2
<1> QED BY <1>1, <1>2, <1>3

\* So does revoking interest.
LEMMA TableInvRelease ==
  ASSUME TableInv, NEW p \in Proc, NEW id, NEW role, sys_peterson_release(p, id, role)
  PROVE  TableInv'
<1> USE DEF TableInv
<1>1. CASE Rejected(p, id, role)
  BY <1>1, TableInvRejected
<1>2. CASE ~Rejected(p, id, role)
  <2>1. /\ id \in Id /\ role \in Role /\ ptable[id].active /\ ptable[id] \in Slot
        /\ ptable' = [ptable EXCEPT ![id] = Released(ptable[id], role)]
        /\ held' = held \ {<<p, id, role>>}
        /\ Returns(p, 0)
        /\ UNCHANGED <<waiting, doomed, dead>>
    BY <1>2 DEF sys_peterson_release, Usable, TypeOK
  <2>2. TypeOK'
    BY <2>1, SlotSteps, TableSize DEF Returns, TypeOK
  <2>3. InactiveIsReset'
    BY <2>1, SlotSteps DEF InactiveIsReset, TypeOK
  <2>4. FlagHasClaimant'
    <3>1. SUFFICES ASSUME NEW i \in Id, NEW r \in Role, ptable'[i].flag[r] = 1
                   PROVE  \E q \in Proc : <<q, i, r>> \in waiting' \cup held'
      BY DEF FlagHasClaimant
    <3>2. ptable[i].flag[r] = 1 /\ ~(i = id /\ r = role)
      <4>1. CASE i = id
        <5>1. ptable'[i] = Released(ptable[i], role)
          BY <2>1, <4>1 DEF TypeOK
        <5>2. r # role
          BY <2>1, <3>1, <4>1, <5>1, SlotSteps
        <5>3. Released(ptable[i], role).flag[r] = ptable[i].flag[r]
          BY <2>1, <4>1, <5>2, OtherFlag
        <5> QED BY <3>1, <5>1, <5>2, <5>3
      <4>2. CASE i # id
        BY <2>1, <3>1, <4>2 DEF TypeOK
      <4> QED BY <4>1, <4>2
    <3>3. PICK q \in Proc : <<q, i, r>> \in waiting \cup held
      BY <3>2 DEF FlagHasClaimant
    <3>4. <<q, i, r>> # <<p, id, role>>
      BY <3>2
    <3> QED BY <2>1, <3>3, <3>4
  <2> QED BY <2>2, <2>3, <2>4
<1> QED BY <1>1, <1>2

\* So does destroying a lock.
LEMMA TableInvDestroy ==
  ASSUME TableInv, NEW p \in Proc, NEW id, sys_peterson_destroy(p, id)
  PROVE  TableInv'
<1> USE DEF TableInv
<1>1. CASE Rejected(p, id, 0)
  BY <1>1, TableInvRejected
<1>2. CASE ~Rejected(p, id, 0)
  <2>1. /\ id \in Id
        /\ ptable' = [ptable EXCEPT ![id] = Unused]
        /\ doomed' \subseteq Proc
        /\ Returns(p, 0)
        /\ UNCHANGED <<waiting, held, dead>>
    BY <1>2 DEF sys_peterson_destroy, Usable, Freed, TypeOK
  <2>2. TypeOK'
    BY <2>1, CleanSlots, TableSize DEF Returns, TypeOK
  <2>3. InactiveIsReset'
    BY <2>1 DEF InactiveIsReset, TypeOK
  <2>4. FlagHasClaimant'
    <3>1. \A i \in Id, r \in Role : ptable'[i].flag[r] = 1 => ptable[i].flag[r] = 1
      BY <2>1, CleanSlots DEF TypeOK
    <3> QED BY <2>1, <3>1 DEF FlagHasClaimant
  <2> QED BY <2>2, <2>3, <2>4
<1> QED BY <1>1, <1>2

\* So does exiting.
LEMMA TableInvExit ==
  ASSUME TableInv, NEW p \in Proc, exit(p)
  PROVE  TableInv'
BY DEF TableInv, exit, TypeOK, InactiveIsReset, FlagHasClaimant

\* And stuttering.
LEMMA TableInvStutter == TableInv /\ UNCHANGED vars => TableInv'
BY DEF TableInv, vars, TypeOK, InactiveIsReset, FlagHasClaimant

\* Whatever the callers do, the table is well-typed, an inactive slot is clean,
\* and every raised flag has a process in the loop of sys_peterson_acquire, or
\* one that owes a release, behind it.
THEOREM TableIsSound == Spec => [](TypeOK /\ InactiveIsReset /\ FlagHasClaimant)
<1>1. TableInv /\ [Next]_vars => TableInv'
  BY TableInvCreate, TableInvExit, TableInvDestroy, TableInvEntered, TableInvRejected,
     TableInvRelease, TableInvRecheck, TableInvStutter DEF Next, sys_peterson_acquire
<1> QED BY <1>1, TableInvInit, PTL DEF Spec, TableInv

\* A slot that is not active is clean, so a process that waits on a destroyed
\* slot finds its loop condition false, whatever the callers do.
THEOREM InactiveSlotsAreReset == Spec => []InactiveIsReset
BY TableIsSound, PTL

-----------------------------------------------------------------------------
(* Disciplined callers.                                                    *)

\* The parts of a claim.
LEMMA ClaimParts ==
  ASSUME TypeOK, NEW c \in waiting \cup held
  PROVE  /\ c = <<c[1], c[2], c[3]>> /\ c[1] \in Proc /\ c[2] \in Id /\ c[3] \in Role
         /\ ptable[c[2]] \in Slot /\ 1 - c[3] \in Role
BY DEF TypeOK, Claim, Role

\* A claim's slot is active, because an inactive one has no flag up.
LEMMA ClaimActive ==
  ASSUME IndInv, NEW c \in waiting \cup held
  PROVE  ptable[c[2]].active
BY ClaimParts, CleanSlots DEF IndInv, ClaimFlagged, InactiveIsReset

\* A step that leaves the claims and the slots of the claims alone keeps what
\* IndInv says of the claims.
LEMMA ClaimsUntouched ==
  ASSUME IndInv, UNCHANGED <<waiting, held>>,
         \A c \in waiting \cup held : ptable'[c[2]] = ptable[c[2]]
  PROVE  /\ ClaimFlagged' /\ ClaimUnique' /\ TurnKept'
         /\ waiting' \cap held' = {}
BY DEF IndInv, ClaimFlagged, ClaimUnique, TurnKept

\* The table invariant is part of the inductive invariant, and every
\* disciplined step is a step of some caller.
LEMMA DisciplinedKeepsTable == IndInv /\ [DisciplinedNext]_vars => TableInv'
<1> SUFFICES ASSUME TableInv, [DisciplinedNext]_vars PROVE TableInv'
  BY DEF IndInv, TableInv
<1> QED
  BY Zenon, TableInvCreate, TableInvExit, TableInvDestroy, TableInvEntered, TableInvRejected,
     TableInvRelease, TableInvRecheck, TableInvStutter
     DEF DisciplinedNext, Create, Acquire, Release, Destroy, sys_peterson_acquire

\* Creating a lock touches a slot without claims.
LEMMA ClaimsCreate ==
  ASSUME IndInv, NEW p \in Proc, sys_peterson_create(p)
  PROVE  ClaimFlagged' /\ ClaimUnique' /\ TurnKept' /\ waiting' \cap held' = {}
<1>1. \A c \in waiting \cup held : ptable'[c[2]] = ptable[c[2]]
  BY ClaimActive, ClaimParts DEF sys_peterson_create, FirstFree, IndInv, TypeOK
<1> QED BY <1>1, ClaimsUntouched DEF sys_peterson_create

\* Destroying one that nobody uses, too.
LEMMA ClaimsDestroy ==
  ASSUME IndInv, NEW p \in Proc, NEW id \in Id, Destroy(p, id)
  PROVE  ClaimFlagged' /\ ClaimUnique' /\ TurnKept' /\ waiting' \cap held' = {}
<1>1. \A c \in waiting \cup held : ptable'[c[2]] = ptable[c[2]]
  BY ClaimParts DEF Destroy, Claims, sys_peterson_destroy, Rejected, IndInv, TypeOK
<1> QED BY <1>1, ClaimsUntouched DEF Destroy, sys_peterson_destroy, Rejected

\* Announcing interest adds a claim of the free role; turn goes to the other,
\* who is the holder if there is one.
LEMMA ClaimsEntered ==
  ASSUME IndInv, NEW p \in Proc, NEW id \in Id, NEW role \in Role,
         MayAcquire(p, id, role), Entered(p, id, role)
  PROVE  ClaimFlagged' /\ ClaimUnique' /\ TurnKept' /\ waiting' \cap held' = {}
<1> DEFINE new == <<p, id, role>>
<1>1. /\ ptable[id] \in Slot /\ 1 - role \in Role /\ 1 - role # role
      /\ ptable' = [ptable EXCEPT ![id] = Interested(ptable[id], role)]
      /\ ptable'[id] = Interested(ptable[id], role)
      /\ waiting' \cup held' = waiting \cup held \cup {new}
      /\ new[2] = id /\ new[3] = role
  BY DEF Entered, IndInv, TypeOK, Role
<1>2. \A c \in waiting \cup held : c[2] = id => c[3] = 1 - role
  BY ClaimParts DEF MayAcquire, Claims, IndInv, Role
<1>3. \A c \in waiting \cup held : c[2] # id => ptable'[c[2]] = ptable[c[2]]
  BY <1>1, ClaimParts DEF IndInv, TypeOK
<1>4. /\ ptable'[id].flag[role] = 1 /\ ptable'[id].turn = 1 - role
      /\ ptable'[id].flag[1 - role] = ptable[id].flag[1 - role]
  <2>1. Interested(ptable[id], role).flag[1 - role] = ptable[id].flag[1 - role]
    BY <1>1, OtherFlag
  <2>2. Interested(ptable[id], role).flag[role] = 1 /\ Interested(ptable[id], role).turn = 1 - role
    BY <1>1, SlotSteps, Zenon
  <2> QED BY <1>1, <2>1, <2>2
<1>5. ClaimFlagged'
  <2>1. SUFFICES ASSUME NEW c \in waiting' \cup held' PROVE ptable'[c[2]].flag[c[3]] = 1
    BY DEF ClaimFlagged
  <2>2. CASE c = new
    BY <2>2, <1>1, <1>4
  <2>3. CASE c \in waiting \cup held
    BY <2>3, <1>2, <1>3, <1>4 DEF IndInv, ClaimFlagged
  <2> QED BY <1>1, <2>2, <2>3
<1>6. ClaimUnique'
  BY <1>1, <1>2 DEF IndInv, ClaimUnique
<1>7. TurnKept'
  <2>1. SUFFICES ASSUME NEW c \in held', ptable'[c[2]].flag[1 - c[3]] = 1
                 PROVE  ptable'[c[2]].turn = c[3]
    BY DEF TurnKept
  <2>2. CASE c \in held
    BY <2>1, <2>2, <1>2, <1>3, <1>4 DEF IndInv, TurnKept
  <2>3. CASE c \notin held
    <3>1. c = new /\ ~MustWait(ptable'[id], role)
      BY <2>1, <2>3 DEF Entered
    <3> QED BY <3>1, <2>1, <1>1, <1>4 DEF MustWait
  <2> QED BY <2>2, <2>3
<1>8. waiting' \cap held' = {}
  BY <1>1, <1>2 DEF IndInv, Entered
<1> QED BY <1>5, <1>6, <1>7, <1>8

\* Leaving the loop makes a waiting claim a held one: then the other role is
\* not interested or the turn is the caller's.
LEMMA ClaimsRecheck ==
  ASSUME IndInv, NEW p \in Proc, NEW id \in Id, NEW role \in Role, Recheck(p, id, role)
  PROVE  ClaimFlagged' /\ ClaimUnique' /\ TurnKept' /\ waiting' \cap held' = {}
<1> DEFINE new == <<p, id, role>>
<1>1. /\ new \in waiting /\ new[2] = id /\ new[3] = role
      /\ UNCHANGED ptable /\ ptable[id].active
  BY ClaimActive DEF Recheck
<1>2. /\ waiting' = waiting \ {new} /\ held' = held \cup {new}
      /\ ~MustWait(ptable[id], role)
  BY <1>1 DEF Recheck, RecheckResult
<1>3. waiting' \cup held' = waiting \cup held /\ waiting' \cap held' = {}
  BY <1>1, <1>2 DEF IndInv
<1>4. ClaimFlagged' /\ ClaimUnique'
  BY <1>1, <1>3 DEF IndInv, ClaimFlagged, ClaimUnique
<1>5. ptable[id].flag[1 - role] = 1 => ptable[id].turn = role
  BY <1>2 DEF MustWait, IndInv, TypeOK, Slot, Role
<1>6. TurnKept'
  BY <1>1, <1>2, <1>5 DEF IndInv, TurnKept
<1> QED BY <1>3, <1>4, <1>6

\* A release by the holder lowers the flag of the claim it ends.
LEMMA ClaimsRelease ==
  ASSUME IndInv, NEW p \in Proc, NEW id \in Id, NEW role \in Role, Release(p, id, role)
  PROVE  ClaimFlagged' /\ ClaimUnique' /\ TurnKept' /\ waiting' \cap held' = {}
<1> DEFINE old == <<p, id, role>>
<1>1. CASE Rejected(p, id, role)
  BY <1>1, ClaimsUntouched DEF Rejected
<1>2. CASE ~Rejected(p, id, role)
  <2>1. /\ ptable[id] \in Slot
        /\ ptable' = [ptable EXCEPT ![id] = Released(ptable[id], role)]
        /\ ptable'[id] = Released(ptable[id], role)
        /\ old \in held /\ old[2] = id /\ old[3] = role
        /\ held' = held \ {old} /\ waiting' = waiting
    BY <1>2 DEF Release, sys_peterson_release, IndInv, TypeOK
  <2>2. waiting' \cup held' = (waiting \cup held) \ {old}
    BY <2>1 DEF IndInv
  <2>3. \A c \in waiting' \cup held' : c[2] # id \/ c[3] # role
    BY <2>1, <2>2 DEF IndInv, ClaimUnique
  <2>4. \A c \in waiting' \cup held' :
          /\ ptable'[c[2]].turn = ptable[c[2]].turn
          /\ ptable'[c[2]].flag[c[3]] = ptable[c[2]].flag[c[3]]
          /\ ptable'[c[2]].flag[1 - c[3]] = 1 => ptable[c[2]].flag[1 - c[3]] = 1
    <3>1. SUFFICES ASSUME NEW c \in waiting' \cup held'
                   PROVE  /\ ptable'[c[2]].turn = ptable[c[2]].turn
                          /\ ptable'[c[2]].flag[c[3]] = ptable[c[2]].flag[c[3]]
                          /\ ptable'[c[2]].flag[1 - c[3]] = 1 => ptable[c[2]].flag[1 - c[3]] = 1
      OBVIOUS
    <3>2. /\ c \in waiting \cup held /\ c[2] \in Id /\ c[3] \in Role /\ 1 - c[3] \in Role
      BY <2>2, ClaimParts DEF IndInv
    <3>3. CASE c[2] # id
      BY <3>2, <3>3, <2>1 DEF IndInv, TypeOK
    <3>4. CASE c[2] = id
      <4>1. c[3] # role /\ 1 - c[3] = role
        BY <3>2, <3>4, <2>3 DEF Role
      <4>2. Released(ptable[id], role).flag[c[3]] = ptable[id].flag[c[3]]
        BY <3>2, <4>1, <2>1, OtherFlag
      <4>3. Released(ptable[id], role).flag[role] = 0 /\ Released(ptable[id], role).turn = ptable[id].turn
        BY <2>1, SlotSteps
      <4> QED BY <3>4, <4>1, <4>2, <4>3, <2>1
    <3> QED BY <3>3, <3>4
  <2>5. ClaimFlagged' /\ ClaimUnique' /\ waiting' \cap held' = {}
    BY <2>1, <2>2, <2>4 DEF IndInv, ClaimFlagged, ClaimUnique
  <2>6. TurnKept'
    BY <2>1, <2>4 DEF IndInv, TurnKept
  <2> QED BY <2>5, <2>6
<1> QED BY <1>1, <1>2

\* A disciplined step keeps the inductive invariant.
LEMMA IndInvStep == IndInv /\ [DisciplinedNext]_vars => IndInv'
<1> SUFFICES ASSUME IndInv, [DisciplinedNext]_vars PROVE IndInv'
  OBVIOUS
<1>1. TableInv'
  BY DisciplinedKeepsTable
<1>2. SUFFICES ClaimFlagged' /\ ClaimUnique' /\ TurnKept' /\ waiting' \cap held' = {}
  BY <1>1 DEF IndInv, TableInv
<1>3. CASE Create
  BY <1>3, ClaimsCreate DEF Create
<1>4. ASSUME NEW p \in Proc, NEW id \in Id, NEW role \in Role, Acquire(p, id, role)
      PROVE  ClaimFlagged' /\ ClaimUnique' /\ TurnKept' /\ waiting' \cap held' = {}
  BY <1>4, ClaimsEntered, ClaimsUntouched DEF Acquire, sys_peterson_acquire, Rejected
<1>5. CASE UNCHANGED <<ptable, waiting, held>>
  BY <1>5, ClaimsUntouched
<1> QED BY <1>3, <1>4, <1>5, ClaimsDestroy, ClaimsRecheck, ClaimsRelease
        DEF DisciplinedNext, vars, exit, Rejected

\* It excludes: with both roles claimed turn is the role of every holder.
LEMMA IndInvExcludes == IndInv => MutualExclusion
<1> SUFFICES ASSUME IndInv, NEW c \in held, NEW d \in held, c[2] = d[2], c # d PROVE FALSE
  BY DEF MutualExclusion
<1>1. c[3] = 1 - d[3] /\ d[3] = 1 - c[3] /\ c[3] # d[3]
  BY ClaimParts DEF IndInv, ClaimUnique, Role
<1>2. ptable[c[2]].turn = c[3] /\ ptable[c[2]].turn = d[3]
  BY <1>1, Zenon DEF IndInv, ClaimFlagged, TurnKept
<1> QED BY <1>1, <1>2

\* With disciplined callers IndInv is an invariant.
THEOREM DisciplinedInv == DisciplinedSpec => []IndInv
<1>1. Init => IndInv
  BY TableInvInit DEF Init, IndInv, TableInv, ClaimFlagged, ClaimUnique, TurnKept
<1> QED BY <1>1, IndInvStep, PTL DEF DisciplinedSpec

\* Two processes are never both between a successful sys_peterson_acquire and
\* their release of one lock, for any number of processes and locks, also when
\* processes exit while they hold a lock.
THEOREM MutualExclusionHolds == DisciplinedSpec => []MutualExclusion
BY IndInvExcludes, DisciplinedInv, PTL

-----------------------------------------------------------------------------
(* The locks are first-come first-served.                                  *)

\* A claim's process is the user of its slot and role.
LEMMA UserOfClaim ==
  ASSUME IndInv, NEW p \in Proc, NEW id \in Id, NEW r \in Role, <<p, id, r>> \in waiting \cup held
  PROVE  User(id, r) = p
<1>1. \A q \in Proc : <<q, id, r>> \in waiting \cup held => q = p
  BY DEF IndInv, ClaimUnique
<1> QED BY <1>1 DEF User

\* A raised flag has a user.
LEMMA UserOfFlag ==
  ASSUME IndInv, NEW id \in Id, NEW r \in Role, ptable[id].flag[r] = 1
  PROVE  User(id, r) \in Proc /\ <<User(id, r), id, r>> \in waiting \cup held
BY DEF IndInv, FlagHasClaimant, User

\* What the queue of a slot is, by the flags that are up.
LEMMA QueueCases ==
  ASSUME TypeOK, NEW id \in Id, NEW r \in Role
  PROVE  /\ ptable[id].flag[r] = 0 /\ ptable[id].flag[1 - r] = 0 => Queue(id) = <<>>
         /\ ptable[id].flag[r] = 1 /\ ptable[id].flag[1 - r] = 0 => Queue(id) = <<User(id, r)>>
         /\ ptable[id].flag[r] = 1 /\ ptable[id].flag[1 - r] = 1
              => Queue(id) = <<User(id, ptable[id].turn), User(id, 1 - ptable[id].turn)>>
         /\ ptable[id].flag[r] \in {0, 1} /\ ptable[id].flag[1 - r] \in {0, 1}
<1>1. ptable[id].flag \in [{0, 1} -> {0, 1}] /\ ((r = 0 /\ 1 - r = 1) \/ (r = 1 /\ 1 - r = 0))
  <2>1. ptable[id].flag \in [{0, 1} -> {0, 1}]
    BY DEF TypeOK, Slot, Role
  <2>2. (r = 0 /\ 1 - r = 1) \/ (r = 1 /\ 1 - r = 0)
    BY DEF Role
  <2> QED BY <2>1, <2>2
<1>2. ptable[id].flag = NoFlag <=> ptable[id].flag[0] = 0 /\ ptable[id].flag[1] = 0
  BY <1>1 DEF NoFlag, Role
<1> QED BY <1>1, <1>2 DEF Queue

\* The queue of a slot depends on the slot and on its claims only.
LEMMA QueueUntouched ==
  ASSUME NEW id \in Id, ptable'[id] = ptable[id],
         \A p \in Proc, r \in {0, 1, ptable[id].turn, 1 - ptable[id].turn} :
           <<p, id, r>> \in waiting' \cup held' <=> <<p, id, r>> \in waiting \cup held
  PROVE  Queue(id)' = Queue(id)
<1>1. \A r \in {0, 1, ptable[id].turn, 1 - ptable[id].turn} : User(id, r)' = User(id, r)
  BY Zenon DEF User
<1> QED BY <1>1 DEF Queue

\* What changes of the refinement mapping when one slot's queue does.
LEMMA QueuesExcept ==
  ASSUME NEW id \in Id, NEW q, Queue(id)' = q, \A i \in Id : i # id => Queue(i)' = Queue(i)
  PROVE  Queues' = [Queues EXCEPT ![id] = q]
BY Zenon DEF Queues

\* Queues that are the same lock by lock are the same.
LEMMA QueuesSame ==
  ASSUME \A i \in Id : Queue(i)' = Queue(i)
  PROVE  Queues' = Queues
BY DEF Queues

\* Creating a lock is Fifo's Create, or nothing when the table is full.
LEMMA FifoCreate ==
  ASSUME IndInv, IndInv', NEW p \in Proc, sys_peterson_create(p)
  PROVE  [Fifo!Next]_(Fifo!fvars)
<1>1. \A i \in Id : ptable'[i] = ptable[i] => Queue(i)' = Queue(i)
  BY QueueUntouched DEF sys_peterson_create
<1>2. CASE UNCHANGED ptable
  <2>1. UNCHANGED <<Live, Queues, Granted>>
    BY <1>1, <1>2, QueuesSame DEF sys_peterson_create, Live, Granted
  <2> QED BY <2>1 DEF Fifo!fvars
<1>3. CASE \E i \in Id : FirstFree(i) /\ ptable' = [ptable EXCEPT ![i] = Fresh]
  <2>1. PICK i \in Id : FirstFree(i) /\ ptable' = [ptable EXCEPT ![i] = Fresh]
    BY <1>3, Zenon
  <2>2. ptable[i] = Unused /\ ptable'[i] = Fresh /\ \A j \in Id : j # i => ptable'[j] = ptable[j]
    BY <2>1 DEF FirstFree, IndInv, InactiveIsReset, TypeOK
  <2>3. Queue(i)' = Queue(i)
    BY <2>2 DEF Queue, Unused, Fresh
  <2>4. UNCHANGED <<Queues, Granted>>
    BY <1>1, <2>2, <2>3, QueuesSame DEF sys_peterson_create, Granted
  <2>5. i \notin Live /\ Live' = Live \cup {i}
    BY <2>1, <2>2 DEF Live, Unused, Fresh
  <2> QED BY <2>4, <2>5 DEF Fifo!Next, Fifo!Create
<1> QED BY <1>2, <1>3 DEF sys_peterson_create

\* Destroying a lock nobody uses is Fifo's Destroy.
LEMMA FifoDestroy ==
  ASSUME IndInv, IndInv', NEW p \in Proc, NEW id \in Id, Destroy(p, id)
  PROVE  [Fifo!Next]_(Fifo!fvars)
<1>1. \A i \in Id : ptable'[i] = ptable[i] => Queue(i)' = Queue(i)
  BY QueueUntouched DEF Destroy, sys_peterson_destroy, Rejected
<1>2. CASE UNCHANGED ptable
  <2>1. UNCHANGED <<Live, Queues, Granted>>
    BY <1>1, <1>2, QueuesSame DEF Destroy, sys_peterson_destroy, Rejected, Live, Granted
  <2> QED BY <2>1 DEF Fifo!fvars
<1>3. CASE ptable' = [ptable EXCEPT ![id] = Unused] /\ ptable[id].active
  <2>1. ptable'[id] = Unused /\ \A j \in Id : j # id => ptable'[j] = ptable[j]
    BY <1>3 DEF IndInv, TypeOK
  <2>2. Queue(id) = <<>>
    <3>1. 0 \in Role /\ 1 - 0 \in Role
      BY DEF Role
    <3>2. ptable[id].flag[0] # 1 /\ ptable[id].flag[1 - 0] # 1
      <4>1. \A r \in Role : ptable[id].flag[r] # 1
        <5> SUFFICES ASSUME NEW r \in Role, ptable[id].flag[r] = 1 PROVE FALSE
          OBVIOUS
        <5>1. <<User(id, r), id, r>> \in Claims(id)
          BY UserOfFlag DEF Claims
        <5> QED BY <5>1 DEF Destroy
      <4> QED BY <3>1, <4>1
    <3> QED BY <3>1, <3>2, QueueCases DEF IndInv
  <2>3. Queue(id)' = <<>>
    BY <2>1 DEF Queue, Unused
  <2>4. UNCHANGED <<Queues, Granted>>
    BY <1>1, <2>1, <2>2, <2>3, QueuesSame DEF Destroy, sys_peterson_destroy, Rejected, Granted
  <2>5. id \in Live /\ Live' = Live \ {id}
    BY <1>3, <2>1 DEF Live, Unused
  <2>6. Queues[id] = <<>>
    BY <2>2 DEF Queues
  <2> QED BY <2>4, <2>5, <2>6 DEF Fifo!Next, Fifo!Destroy
<1> QED BY <1>2, <1>3 DEF Destroy, sys_peterson_destroy, Rejected, Usable, Freed

\* A process that announces interest joins the queue of the lock, at its end,
\* and has the lock at once if it is alone there.
LEMMA FifoEntered ==
  ASSUME IndInv, IndInv', NEW p \in Proc, NEW id \in Id, NEW role \in Role,
         MayAcquire(p, id, role), Entered(p, id, role)
  PROVE  Fifo!Next
<1> DEFINE new == <<p, id, role>>
           o == 1 - role
<1>1. /\ ptable[id] \in Slot /\ o \in Role /\ o # role /\ 1 - o = role
      /\ ptable[id].active
      /\ ptable' = [ptable EXCEPT ![id] = Interested(ptable[id], role)]
      /\ ptable'[id] = Interested(ptable[id], role)
      /\ \A j \in Id : j # id => ptable'[j] = ptable[j]
      /\ waiting' \cup held' = waiting \cup held \cup {new}
  BY DEF Entered, Usable, IndInv, TypeOK, Role
<1>2. /\ ptable'[id].active /\ ptable'[id].flag[role] = 1 /\ ptable'[id].turn = o
  <2>1. /\ Interested(ptable[id], role).active = ptable[id].active
        /\ Interested(ptable[id], role).flag[role] = 1
        /\ Interested(ptable[id], role).turn = o
    BY <1>1, SlotSteps, ZenonT(30)
  <2> QED BY <1>1, <2>1, Zenon
<1>3. ptable'[id].flag[o] = ptable[id].flag[o]
  BY <1>1, OtherFlag
<1>4. ptable[id].flag[role] = 0
  <2>1. ptable[id].flag[role] # 1
    <3> SUFFICES ASSUME ptable[id].flag[role] = 1 PROVE FALSE
      OBVIOUS
    <3>1. <<User(id, role), id, role>> \in Claims(id)
      BY UserOfFlag DEF Claims
    <3> QED BY <3>1 DEF MayAcquire
  <2> QED BY <2>1, QueueCases DEF IndInv
<1>5. User(id, role)' = p
  <2>1. new \in waiting' \cup held'
    BY <1>1
  <2>2. \A q \in Proc : <<q, id, role>> \in waiting' \cup held' => q = p
    BY <2>1 DEF IndInv, ClaimUnique
  <2> QED BY <2>1, <2>2 DEF User
<1>6. \A i \in Id : i # id => Queue(i)' = Queue(i)
  BY <1>1, QueueUntouched
<1>7. Live' = Live /\ id \in Live
  BY <1>1, <1>2 DEF Live
<1>8. CASE ptable[id].flag[o] = 0
  <2>1. Queue(id) = <<>>
    BY <1>1, <1>4, <1>8, QueueCases DEF IndInv
  <2>2. Queue(id)' = <<p>>
    <3>1. \/ role = 0 /\ ptable'[id].flag[0] = 1 /\ ptable'[id].flag[1] = 0
          \/ role = 1 /\ ptable'[id].flag[0] = 0 /\ ptable'[id].flag[1] = 1
      BY <1>2, <1>3, <1>8 DEF Role
    <3>2. ptable'[id].flag # NoFlag
      BY <3>1 DEF NoFlag, Role
    <3> QED BY <1>5, <3>1, <3>2 DEF Queue
  <2>3. held' = held \cup {new}
    BY <1>1, <1>3, <1>8 DEF Entered, MustWait
  <2>4. Granted' = Granted \cup {id}
    <3>1. new[2] = id
      OBVIOUS
    <3>2. \A i \in Id : (\E c \in held' : c[2] = i) <=> (i = id \/ \E c \in held : c[2] = i)
      BY <2>3, <3>1, Zenon
    <3> QED BY <3>2 DEF Granted
  <2>5. Queues' = [Queues EXCEPT ![id] = Append(Queues[id], p)] /\ Queues[id] = <<>>
    BY <1>6, <2>1, <2>2, QueuesExcept DEF Queues
  <2>6. Fifo!Request(p, id)
    BY <1>7, <2>4, <2>5 DEF Fifo!Request
  <2> QED BY <2>6 DEF Fifo!Next
<1>9. CASE ptable[id].flag[o] = 1
  <2> DEFINE u == User(id, o)
  <2>1. u \in Proc /\ <<u, id, o>> \in waiting \cup held /\ u # p
    BY <1>1, <1>9, UserOfFlag DEF MayAcquire, Claims
  <2>2. Queue(id) = <<u>>
    BY <1>1, <1>4, <1>9, QueueCases DEF IndInv
  <2>3. User(id, o)' = u
    <3>1. \A q \in Proc : <<q, id, o>> \in waiting' \cup held' <=> <<q, id, o>> \in waiting \cup held
      BY <1>1
    <3> QED BY <3>1 DEF User
  <2>4. Queue(id)' = <<u, p>>
    <3>1. ptable'[id].flag[0] = 1 /\ ptable'[id].flag[1] = 1
      BY <1>1, <1>2, <1>3, <1>9 DEF Role
    <3>2. ptable'[id].flag # NoFlag
      BY <3>1 DEF NoFlag, Role
    <3> QED BY <1>1, <1>2, <1>5, <2>3, <3>1, <3>2 DEF Queue
  <2>5. held' = held
    BY <1>1, <1>2, <1>3, <1>9 DEF Entered, MustWait
  <2>6. Granted' = Granted
    BY <2>5 DEF Granted
  <2>7. Queues[id] = <<u>> /\ Queues' = [Queues EXCEPT ![id] = Append(Queues[id], p)]
    BY <1>6, <2>2, <2>4, QueuesExcept DEF Queues
  <2>8. Fifo!Request(p, id)
    BY <1>7, <2>1, <2>6, <2>7 DEF Fifo!Request
  <2> QED BY <2>8 DEF Fifo!Next
<1> QED BY <1>1, <1>8, <1>9, QueueCases DEF IndInv

\* A process that leaves the loop is the first of its queue, and the lock was
\* not granted.
LEMMA FifoRecheck ==
  ASSUME IndInv, IndInv', NEW p \in Proc, NEW id \in Id, NEW role \in Role, Recheck(p, id, role)
  PROVE  Fifo!Next
<1> DEFINE new == <<p, id, role>>
<1>1. /\ new \in waiting /\ new[2] = id /\ new[3] = role
      /\ UNCHANGED ptable /\ ptable[id].active
  BY ClaimActive DEF Recheck
<1>2. /\ waiting' = waiting \ {new} /\ held' = held \cup {new}
      /\ ~MustWait(ptable[id], role)
  BY <1>1 DEF Recheck, RecheckResult
<1>3. ptable[id].flag[role] = 1
  BY <1>1 DEF IndInv, ClaimFlagged
<1>4. Queues' = Queues
  <2>1. waiting' \cup held' = waiting \cup held
    BY <1>1, <1>2
  <2> QED BY <1>1, <2>1, QueueUntouched, QueuesSame
<1>5. Queues[id] # <<>>
  <2>1. \/ ptable[id].flag[1 - role] = 0 /\ Queue(id) = <<User(id, role)>>
        \/ Queue(id) = <<User(id, ptable[id].turn), User(id, 1 - ptable[id].turn)>>
    BY <1>3, QueueCases DEF IndInv
  <2>2. \A a, b : <<a>> # <<>> /\ <<a, b>> # <<>>
    OBVIOUS
  <2>3. Queue(id) # <<>>
    BY <2>1, <2>2, Zenon
  <2> QED BY <2>3 DEF Queues
<1>6. id \notin Granted
  <2> SUFFICES ASSUME NEW d \in held, d[2] = id PROVE FALSE
    BY DEF Granted
  <2>1. d[3] = 1 - role /\ 1 - d[3] = role
    BY <1>1, ClaimParts DEF IndInv, ClaimUnique, Role
  <2>2. ptable[id].flag[1 - role] = 1 /\ ptable[id].turn = 1 - role
    BY <1>3, <2>1 DEF IndInv, ClaimFlagged, TurnKept
  <2> QED BY <1>2, <2>2 DEF MustWait
<1>7. Granted' = Granted \cup {id}
  <2>1. \A i \in Id : (\E c \in held' : c[2] = i) <=> (i = id \/ \E c \in held : c[2] = i)
    BY <1>1, <1>2
  <2> QED BY <2>1 DEF Granted
<1>8. Live' = Live
  BY <1>1 DEF Live
<1>9. Fifo!Grant(id)
  BY <1>4, <1>5, <1>6, <1>7, <1>8 DEF Fifo!Grant
<1> QED BY <1>9 DEF Fifo!Next

\* A release by the holder takes the first of the queue out of it.
LEMMA FifoRelease ==
  ASSUME IndInv, IndInv', NEW p \in Proc, NEW id \in Id, NEW role \in Role, Release(p, id, role)
  PROVE  Fifo!Next
<1> DEFINE old == <<p, id, role>>
           o == 1 - role
<1>1. /\ old \in held /\ old[2] = id /\ old[3] = role /\ ptable[id].active
  BY ClaimActive DEF Release
<1>2. /\ ptable[id] \in Slot /\ o \in Role /\ o # role /\ 1 - o = role
      /\ ptable' = [ptable EXCEPT ![id] = Released(ptable[id], role)]
      /\ ptable'[id] = Released(ptable[id], role)
      /\ \A j \in Id : j # id => ptable'[j] = ptable[j]
      /\ held' = held \ {old} /\ waiting' = waiting /\ old \notin waiting
  BY <1>1 DEF Release, sys_peterson_release, Rejected, Usable, IndInv, TypeOK, Role
<1>3. ptable'[id].flag[role] = 0 /\ ptable'[id].active
  <2>1. Released(ptable[id], role).active = ptable[id].active /\ Released(ptable[id], role).flag[role] = 0
    BY <1>2, SlotSteps, Zenon
  <2> QED BY <1>1, <1>2, <2>1, Zenon
<1>4. ptable'[id].flag[o] = ptable[id].flag[o]
  BY <1>2, OtherFlag
<1>5. ptable[id].flag[role] = 1
  BY <1>1 DEF IndInv, ClaimFlagged
<1>6. \A i \in Id : i # id => Queue(i)' = Queue(i)
  BY <1>2, QueueUntouched
<1>7. Live' = Live /\ id \in Granted
  BY <1>1, <1>2, <1>3 DEF Live, Granted
<1>8. Granted' = Granted \ {id}
  <2>1. \A c \in held : c[2] = id => c = old
    <3> SUFFICES ASSUME NEW c \in held, c[2] = id, c # old PROVE FALSE
      OBVIOUS
    <3>1. c[3] = o /\ 1 - c[3] = role
      BY <1>1, ClaimParts DEF IndInv, ClaimUnique, Role
    <3>2. ptable[id].turn = o /\ ptable[id].turn = role
      BY <1>1, <1>5, <3>1 DEF IndInv, ClaimFlagged, TurnKept
    <3> QED BY <1>2, <3>2
  <2>2. \A i \in Id : (\E c \in held' : c[2] = i) <=> (i # id /\ \E c \in held : c[2] = i)
    BY <1>1, <1>2, <2>1
  <2> QED BY <2>2 DEF Granted
<1>9. User(id, role) = p
  BY <1>1, UserOfClaim
<1>10. Queue(id)' = Tail(Queue(id))
  <2>1. CASE ptable[id].flag[o] = 0
    <3>1. Queue(id) = <<p>>
      BY <1>5, <1>9, <2>1, QueueCases DEF IndInv
    <3>2. ptable'[id].flag = NoFlag
      <4>1. ptable'[id].flag \in [Role -> {0, 1}]
        BY DEF IndInv, TypeOK, Slot
      <4> QED BY <4>1, <1>3, <1>4, <2>1 DEF NoFlag, Role
    <3> QED BY <3>1, <3>2 DEF Queue
  <2>2. CASE ptable[id].flag[o] = 1
    <3>1. ptable[id].turn = role
      BY <1>1, <2>2 DEF IndInv, TurnKept
    <3>2. Queue(id) = <<p, User(id, o)>>
      BY <1>5, <1>9, <2>2, <3>1, QueueCases DEF IndInv
    <3>3. User(id, o)' = User(id, o)
      <4>1. \A q \in Proc : <<q, id, o>> \in waiting' \cup held' <=> <<q, id, o>> \in waiting \cup held
        BY <1>2
      <4> QED BY <4>1 DEF User
    <3>4. Queue(id)' = <<User(id, o)'>>
      <4>1. \/ o = 0 /\ ptable'[id].flag[0] = 1 /\ ptable'[id].flag[1] = 0
            \/ o = 1 /\ ptable'[id].flag[0] = 0 /\ ptable'[id].flag[1] = 1
        BY <1>2, <1>3, <1>4, <2>2 DEF Role
      <4>2. ptable'[id].flag # NoFlag
        BY <4>1 DEF NoFlag, Role
      <4> QED BY <4>1, <4>2 DEF Queue
    <3> QED BY <3>2, <3>3, <3>4
  <2> QED BY <1>2, <2>1, <2>2, QueueCases DEF IndInv
<1>11. Queues' = [Queues EXCEPT ![id] = Tail(Queues[id])]
  BY <1>6, <1>10, QueuesExcept, Zenon DEF Queues
<1>12. Fifo!Release(id)
  BY <1>7, <1>8, <1>11 DEF Fifo!Release
<1> QED BY <1>12 DEF Fifo!Next

\* Disciplined callers see a first-come first-served lock: every step of the
\* lock table is a step of FifoLock, or leaves it unchanged.
THEOREM FifoOrderHolds == DisciplinedSpec => FifoOrder
<1>1. Init => Fifo!Init
  <2> SUFFICES ASSUME Init PROVE Fifo!Init
    OBVIOUS
  <2>1. Live = {} /\ Granted = {}
    BY DEF Init, Live, Granted, Unused
  <2>2. Queues = [i \in Id |-> <<>>]
    BY DEF Init, Queues, Queue, Unused
  <2> QED BY <2>1, <2>2 DEF Fifo!Init
<1>2. IndInv /\ IndInv' /\ [DisciplinedNext]_vars => [Fifo!Next]_(Fifo!fvars)
  <2> SUFFICES ASSUME IndInv, IndInv', [DisciplinedNext]_vars PROVE [Fifo!Next]_(Fifo!fvars)
    OBVIOUS
  <2>1. CASE UNCHANGED <<ptable, waiting, held>>
    <3>1. UNCHANGED <<Live, Queues, Granted>>
      BY <2>1, QueueUntouched, QueuesSame DEF Live, Granted
    <3> QED BY <3>1 DEF Fifo!fvars
  <2>2. CASE Create
    BY <2>2, FifoCreate DEF Create
  <2>3. ASSUME NEW p \in Proc, NEW id \in Id, NEW role \in Role,
               Acquire(p, id, role), ~UNCHANGED <<ptable, waiting, held>>
        PROVE  Fifo!Next
    <3>1. MayAcquire(p, id, role) /\ Entered(p, id, role)
      BY <2>3 DEF Acquire, sys_peterson_acquire, Rejected
    <3> QED BY <3>1, FifoEntered
  <2> QED BY <2>1, <2>2, <2>3, FifoDestroy, FifoRecheck, FifoRelease
          DEF DisciplinedNext, vars, exit, Rejected
<1> QED BY <1>1, <1>2, DisciplinedInv, PTL DEF DisciplinedSpec, FifoOrder, Fifo!Safety
=============================================================================
