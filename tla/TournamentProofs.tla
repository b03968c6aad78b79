-------------------------- MODULE TournamentProofs --------------------------
(***************************************************************************)
(* Proofs about the tournament tree, for every number of processes, table  *)
(* size and number of slots lost to earlier runs: the library keeps to the *)
(* protocol of the Peterson locks, and the tree excludes.                  *)
(***************************************************************************)
EXTENDS Tournament, PetersonProofs

\* p is in tournament_acquire or tournament_release, or between them, in a tree.
InTree(p) == at[p] \in {"acquire", "release"} \/ (at[p] = "critical" /\ N > 1)

\* tournament_create has filled the array.
Built == N \in 1 .. MaxProcesses /\ IsPowerOf2(N) /\ Len(ids) = N - 1

\* How far the program is: nobody but process 0 exists before the tree is built.
Stages ==
  /\ at[0] # "unborn"
  /\ \A p \in Proc \ {0} :
       /\ at[p] \in {"unborn", "acquire", "critical", "release", "exit0", "exit1"}
       /\ at[p] = "unborn" <=> p > forked
  /\ at[0] \in {"start", "create"} => forked = 0
  /\ at[0] = "start" => ids = <<>>
  /\ at[0] = "create" => N \in 2 .. MaxProcesses /\ IsPowerOf2(N) /\ Len(ids) < N - 1
  /\ at[0] \in {"fork", "acquire", "critical", "release", "wait"} => Built
  /\ forked > 0 => Built /\ forked <= N - 1
  /\ at[0] \in {"acquire", "critical", "release", "wait"} => forked = N - 1
  /\ \A p \in Proc : at[p] \in {"acquire", "release"} => N > 1 /\ lvl[p] <= L_levels - 1

\* The array holds different, active locks.
OwnLocks ==
  /\ \A i, j \in 1 .. Len(ids) : ids[i] = ids[j] => i = j
  /\ \A i \in 1 .. Len(ids) : ptable[ids[i]].active

\* p holds its lock of level k.
HoldsLevel(p, k) ==
  \/ at[p] = "acquire" /\ lvl[p] < k
  \/ at[p] = "critical" /\ N > 1
  \/ at[p] = "release" /\ lvl[p] <= k

OnPath(p, k) == <<p, LockAt(p, k), RoleAt(p, k)>>

\* The locks that are held are those of the levels that HoldsLevel names, and a
\* process in the loop of an acquire call is there for the level it is at.
PathHeld ==
  /\ \A p \in Proc :
       InTree(p) => \A k \in 0 .. L_levels - 1 : HoldsLevel(p, k) => OnPath(p, k) \in held
  /\ \A c \in held : \E k \in 0 .. L_levels - 1 : HoldsLevel(c[1], k) /\ c = OnPath(c[1], k)
WaitsOnPath == \A c \in waiting : at[c[1]] = "acquire" /\ c = OnPath(c[1], lvl[c[1]])

\* What the formulas of libtournament.c have to give: a process's lock is in the
\* array, at the root it is the first one, locks of different levels are different,
\* and two processes that share a lock and a role shared the lock one level below.
TreeArithmetic ==
  \A L \in Nat : \A p, q \in {n \in Nat : n < 2 ^ L}, l, m \in 0 .. L - 1 :
    /\ ArrayIdx(L, p, l) \in Nat /\ ArrayIdx(L, p, l) < 2 ^ L - 1 /\ ArrayIdx(L, p, 0) = 0
    /\ RoleAtLevel(L, p, l) \in {0, 1}
    /\ ArrayIdx(L, p, l) = ArrayIdx(L, q, m) =>
         /\ l = m
         /\ RoleAtLevel(L, p, l) = RoleAtLevel(L, q, l) =>
              IF l = L - 1 THEN p = q ELSE ArrayIdx(L, p, l + 1) = ArrayIdx(L, q, l + 1)

\* The inductive invariant: with that of the Peterson locks.  Its first conjunct says
\* nothing of the state; it is proved last, where the library on finite sets is used.
TreeInv == TreeArithmetic /\ TTypeOK /\ IndInv /\ Stages /\ OwnLocks /\ PathHeld /\ WaitsOnPath

-----------------------------------------------------------------------------
(* The paths of the processes.                                             *)

\* L_levels is the logarithm of a power of two.
LEMMA Levels ==
  ASSUME N \in Nat, IsPowerOf2(N)
  PROVE  /\ L_levels \in Nat /\ L_levels <= N /\ 2 ^ L_levels = N
         /\ N > 1 => L_levels > 0
<1>1. L_levels \in 0 .. N /\ 2 ^ L_levels = N
  BY Zenon DEF L_levels, IsPowerOf2
<1>2. ASSUME L_levels = 0 PROVE N = 1
  <2>1. 2 ^ L_levels = 2 ^ 0
    BY <1>2
  <2>2. 2 ^ 0 = 1
    OBVIOUS
  <2> QED BY <1>1, <2>1, <2>2
<1> HIDE DEF L_levels
<1> QED BY <1>1, <1>2

\* Who is in the tree has a number below N.
LEMMA InTreeFacts ==
  ASSUME TreeInv, NEW p \in Proc, InTree(p)
  PROVE  /\ Built /\ N > 1 /\ L_levels \in Nat /\ L_levels > 0 /\ 2 ^ L_levels = N
         /\ p \in Nat /\ p < 2 ^ L_levels
         /\ at[p] \in {"acquire", "release"} => lvl[p] \in 0 .. L_levels - 1
<1>1. p \in Nat /\ N > 1
  BY Bounds DEF InTree, TreeInv, Stages
<1>2. Built /\ p < N
  <2>1. CASE p = 0
    <3>1. at[0] \in {"acquire", "critical", "release"}
      BY <2>1 DEF InTree
    <3>2. Built
      BY <3>1, Zenon DEF TreeInv, Stages
    <3> QED BY <1>1, <2>1, <3>2 DEF Built
  <2>2. CASE p # 0
    <3>1. at[p] # "unborn"
      BY DEF InTree
    <3>2. p <= forked
      BY <1>1, <2>2, <3>1 DEF TreeInv, Stages, TTypeOK
    <3> QED BY <1>1, <2>2, <3>2 DEF TreeInv, Stages, TTypeOK
  <2> QED BY <2>1, <2>2
<1>3. L_levels \in Nat /\ L_levels > 0 /\ 2 ^ L_levels = N
  BY <1>1, <1>2, Levels DEF Built
<1>4. at[p] \in {"acquire", "release"} => lvl[p] \in 0 .. L_levels - 1
  BY <1>3 DEF TreeInv, Stages, TTypeOK
<1> QED BY <1>1, <1>2, <1>3, <1>4

\* Its locks are in the array, and active.
LEMMA PathFacts ==
  ASSUME TreeInv, NEW p \in Proc, InTree(p), NEW k \in 0 .. L_levels - 1
  PROVE  /\ ArrayIdx(L_levels, p, k) + 1 \in 1 .. Len(ids)
         /\ LockAt(p, k) = ids[ArrayIdx(L_levels, p, k) + 1]
         /\ LockAt(p, k) \in Id /\ RoleAt(p, k) \in Role /\ ptable[LockAt(p, k)].active
<1>1. PICK i \in Nat : i = ArrayIdx(L_levels, p, k) /\ i < 2 ^ L_levels - 1
  BY InTreeFacts DEF TreeInv, TreeArithmetic
<1>2. i + 1 \in 1 .. Len(ids)
  BY <1>1, InTreeFacts DEF Built
<1>3. ids \in Seq(Id) /\ DOMAIN ids = 1 .. Len(ids)
  BY DEF TreeInv, TTypeOK
<1>4. ids[i + 1] \in Id /\ LockAt(p, k) = ids[i + 1]
  BY <1>1, <1>2, <1>3 DEF LockAt
<1>5. RoleAt(p, k) \in Role
  BY InTreeFacts DEF TreeInv, TreeArithmetic, RoleAt, Role
<1> QED BY <1>1, <1>2, <1>4, <1>5 DEF TreeInv, OwnLocks

\* Where two paths meet, they meet on the same level; in the same role only if they
\* met on the level below.
LEMMA PathsMeet ==
  ASSUME TreeInv, NEW p \in Proc, InTree(p), NEW q \in Proc, InTree(q),
         NEW k \in 0 .. L_levels - 1, NEW m \in 0 .. L_levels - 1, LockAt(p, k) = LockAt(q, m)
  PROVE  /\ k = m
         /\ RoleAt(p, k) = RoleAt(q, m) =>
              p = q \/ (k + 1 \in 0 .. L_levels - 1 /\ LockAt(p, k + 1) = LockAt(q, k + 1))
<1>1. /\ L_levels \in Nat /\ p \in Nat /\ p < 2 ^ L_levels /\ q \in Nat /\ q < 2 ^ L_levels
  BY InTreeFacts
<1>2. ArrayIdx(L_levels, p, k) = ArrayIdx(L_levels, q, m)
  <2>1. /\ ArrayIdx(L_levels, p, k) + 1 \in 1 .. Len(ids) /\ ArrayIdx(L_levels, q, m) + 1 \in 1 .. Len(ids)
        /\ ids[ArrayIdx(L_levels, p, k) + 1] = ids[ArrayIdx(L_levels, q, m) + 1]
    BY PathFacts
  <2>2. ArrayIdx(L_levels, p, k) + 1 = ArrayIdx(L_levels, q, m) + 1
    BY <2>1 DEF TreeInv, OwnLocks
  <2>3. ArrayIdx(L_levels, p, k) \in Nat /\ ArrayIdx(L_levels, q, m) \in Nat
    BY <1>1 DEF TreeInv, TreeArithmetic
  <2> QED BY <2>2, <2>3
<1>3. k = m
  BY <1>1, <1>2 DEF TreeInv, TreeArithmetic
<1>4. ASSUME RoleAt(p, k) = RoleAt(q, m), p # q
      PROVE  k + 1 \in 0 .. L_levels - 1 /\ LockAt(p, k + 1) = LockAt(q, k + 1)
  <2>1. ArrayIdx(L_levels, p, k) = ArrayIdx(L_levels, q, k)
    BY <1>2, <1>3
  <2>2. RoleAtLevel(L_levels, p, k) = RoleAtLevel(L_levels, q, k)
    BY <1>3, <1>4 DEF RoleAt
  <2>3. IF k = L_levels - 1 THEN p = q ELSE ArrayIdx(L_levels, p, k + 1) = ArrayIdx(L_levels, q, k + 1)
    BY <1>1, <2>1, <2>2 DEF TreeInv, TreeArithmetic
  <2>4. k # L_levels - 1 /\ ArrayIdx(L_levels, p, k + 1) = ArrayIdx(L_levels, q, k + 1)
    BY <1>4, <2>3
  <2>5. k + 1 \in 0 .. L_levels - 1
    BY <1>1, <2>4
  <2> QED BY <2>4, <2>5 DEF LockAt
<1> QED BY <1>3, <1>4

\* Every claim is on the path of its process.
LEMMA ClaimOnPath ==
  ASSUME TreeInv, NEW c \in waiting \cup held
  PROVE  /\ c[1] \in Proc /\ InTree(c[1])
         /\ \E k \in 0 .. L_levels - 1 :
              /\ c = OnPath(c[1], k)
              /\ c \in held => HoldsLevel(c[1], k)
              /\ c \in waiting => at[c[1]] = "acquire" /\ lvl[c[1]] = k
<1>1. c[1] \in Proc
  BY ClaimParts DEF TreeInv, TTypeOK
<1>2. CASE c \in held
  <2>1. PICK k \in 0 .. L_levels - 1 : HoldsLevel(c[1], k) /\ c = OnPath(c[1], k)
    BY <1>2 DEF TreeInv, PathHeld
  <2>2. InTree(c[1])
    BY <2>1 DEF HoldsLevel, InTree
  <2>3. c \notin waiting
    BY <1>2 DEF TreeInv, IndInv
  <2> QED BY <1>1, <2>1, <2>2, <2>3
<1>3. CASE c \in waiting
  <2>1. at[c[1]] = "acquire" /\ c = OnPath(c[1], lvl[c[1]])
    BY <1>3 DEF TreeInv, WaitsOnPath
  <2>2. InTree(c[1])
    BY <2>1 DEF InTree
  <2>3. lvl[c[1]] \in 0 .. L_levels - 1
    BY <1>1, <2>1, <2>2, InTreeFacts
  <2>4. c \notin held
    BY <1>3 DEF TreeInv, IndInv
  <2> QED BY <1>1, <2>1, <2>2, <2>3, <2>4
<1> QED BY <1>2, <1>3

\* A climbing process finds its lock free of claims of its own, and its role free:
\* who else comes with this role came through the lock below, which p holds.
LEMMA NoRival ==
  ASSUME TreeInv, NEW p \in Proc, at[p] = "acquire", Runs(p)
  PROVE  MayAcquire(p, LockAt(p, lvl[p]), RoleAt(p, lvl[p]))
<1> DEFINE l == lvl[p]
<1>1. InTree(p) /\ l \in 0 .. L_levels - 1 /\ L_levels \in Nat
  BY InTreeFacts DEF InTree
<1>2. SUFFICES ASSUME NEW c \in waiting \cup held, c[2] = LockAt(p, l)
               PROVE  c[1] # p /\ c[3] # RoleAt(p, l)
  BY DEF MayAcquire, Claims
<1>3. PICK k \in 0 .. L_levels - 1 :
        /\ c = OnPath(c[1], k)
        /\ c \in held => HoldsLevel(c[1], k)
        /\ c \in waiting => at[c[1]] = "acquire" /\ lvl[c[1]] = k
  BY ClaimOnPath
<1>4. PICK q \in Proc : q = c[1] /\ InTree(q)
  BY ClaimOnPath
<1>5. c[2] = LockAt(q, k) /\ c[3] = RoleAt(q, k)
  BY <1>3, <1>4 DEF OnPath
<1>6. k = l /\ LockAt(p, l) = LockAt(q, k)
  <2>1. LockAt(p, l) = LockAt(q, k)
    BY <1>2, <1>5
  <2> QED BY <1>1, <1>4, <2>1, PathsMeet
<1>7. q # p
  <2>1. CASE c \in waiting
    BY <1>4, <2>1 DEF Runs
  <2>2. CASE c \in held
    BY <1>1, <1>3, <1>4, <1>6, <2>2 DEF HoldsLevel
  <2> QED BY <2>1, <2>2
<1>8. ASSUME RoleAt(q, k) = RoleAt(p, l) PROVE FALSE
  <2>1. k + 1 \in 0 .. L_levels - 1 /\ LockAt(q, k + 1) = LockAt(p, k + 1)
    <3>1. q = p \/ (k + 1 \in 0 .. L_levels - 1 /\ LockAt(q, k + 1) = LockAt(p, k + 1))
      BY <1>1, <1>4, <1>6, <1>8, PathsMeet
    <3> QED BY <1>7, <3>1
  <2>2. HoldsLevel(p, k + 1)
    BY <1>1, <1>6 DEF HoldsLevel
  <2>3. HoldsLevel(q, k + 1)
    <3>1. lvl[q] \in Nat
      BY DEF TreeInv, TTypeOK
    <3>2. CASE c \in waiting
      BY <1>1, <1>3, <1>4, <3>2 DEF HoldsLevel
    <3>3. CASE c \in held
      BY <1>1, <1>3, <1>4, <3>1, <3>3 DEF HoldsLevel
    <3> QED BY <3>2, <3>3
  <2>4. OnPath(p, k + 1) \in held /\ OnPath(q, k + 1) \in held
    BY <1>1, <1>4, <2>1, <2>2, <2>3 DEF TreeInv, PathHeld
  <2>5. OnPath(p, k + 1)[2] = OnPath(q, k + 1)[2]
    BY <2>1 DEF OnPath
  <2>6. OnPath(p, k + 1) = OnPath(q, k + 1)
    BY <2>4, <2>5, IndInvExcludes DEF TreeInv, MutualExclusion
  <2> QED BY <1>7, <2>6 DEF OnPath
<1> QED BY <1>4, <1>5, <1>7, <1>8

-----------------------------------------------------------------------------
(* What the steps of a process in the tree do.                             *)

\* A round of the loop of tournament_acquire never fails: the process waits, or it
\* gets the lock of its level and goes on.
LEMMA ClimbStep ==
  ASSUME TreeInv, NEW p \in Proc, Climb(p)
  PROVE  LET c == OnPath(p, lvl[p]) IN
         /\ at[p] = "acquire" /\ DisciplinedNext
         /\ \/ waiting' = waiting \cup {c} /\ UNCHANGED <<held, at, lvl>>
            \/ /\ waiting' = waiting \ {c} /\ held' = held \cup {c}
               /\ IF lvl[p] = 0 THEN Goes(p, "critical") /\ UNCHANGED lvl
                                ELSE ClimbsFrom(p, lvl[p] - 1)
<1> DEFINE id == LockAt(p, lvl[p])
           role == RoleAt(p, lvl[p])
           c == <<p, id, role>>
<1>1. /\ at[p] = "acquire"
      /\ sys_peterson_acquire(p, id, role) \/ Recheck(p, id, role)
      /\ IF c \in waiting' THEN UNCHANGED <<at, lvl>> ELSE AfterAcquire(p)
  BY DEF Climb
<1>2. id \in Id /\ role \in Role /\ ptable[id].active
  <2>1. InTree(p) /\ lvl[p] \in 0 .. L_levels - 1
    BY <1>1, InTreeFacts DEF InTree
  <2> QED BY <2>1, PathFacts
<1>3. c = OnPath(p, lvl[p])
  BY DEF OnPath
<1>4. ret \in [Proc -> -1 .. NPETERSONLOCKS - 1]
  BY DEF TreeInv, TTypeOK, TypeOK
<1> HIDE DEF id, role
<1>5. CASE sys_peterson_acquire(p, id, role)
  <2>1. Entered(p, id, role)
    BY <1>2, <1>5 DEF sys_peterson_acquire, Rejected, Usable
  <2>2. Runs(p) /\ c \notin waiting
    BY <2>1 DEF Entered, Runs
  <2>3. Acquire(p, id, role)
    BY <1>1, <1>5, <2>2, NoRival DEF Acquire, id, role
  <2>4. DisciplinedNext
    BY <1>2, <2>3, Zenon DEF DisciplinedNext
  <2>5. CASE waiting' = waiting \cup {c} /\ UNCHANGED <<held, ret>>
    BY <1>1, <1>3, <2>4, <2>5
  <2>6. CASE held' = held \cup {c} /\ Returns(p, 0) /\ UNCHANGED waiting
    <3>1. ret'[p] = 0
      BY <1>4, <2>6 DEF Returns
    <3>2. AfterAcquire(p)
      BY <1>1, <2>2, <2>6
    <3>3. waiting' = waiting \ {c}
      BY <2>2, <2>6
    <3> QED BY <1>1, <1>3, <2>4, <2>6, <3>1, <3>2, <3>3 DEF AfterAcquire
  <2> QED BY <2>1, <2>5, <2>6 DEF Entered
<1>6. CASE Recheck(p, id, role)
  <2>1. DisciplinedNext
    BY <1>2, <1>6, Zenon DEF DisciplinedNext
  <2>2. waiting' = waiting \ {c} /\ held' = held \cup {c} /\ Returns(p, 0)
    BY <1>2, <1>6 DEF Recheck, RecheckResult
  <2>3. ret'[p] = 0
    BY <1>4, <2>2 DEF Returns
  <2>4. AfterAcquire(p)
    BY <1>1, <2>2
  <2> QED BY <1>1, <1>3, <2>1, <2>2, <2>3, <2>4 DEF AfterAcquire
<1> QED BY <1>1, <1>5, <1>6

\* A round of the loop of tournament_release gives back a lock the process holds.
LEMMA DescendStep ==
  ASSUME TreeInv, NEW p \in Proc, Descend(p)
  PROVE  /\ at[p] = "release" /\ Runs(p) /\ DisciplinedNext
         /\ UNCHANGED waiting /\ held' = held \ {OnPath(p, lvl[p])}
         /\ IF lvl[p] + 1 < L_levels THEN lvl' = [lvl EXCEPT ![p] = @ + 1] /\ UNCHANGED at
            ELSE Goes(p, IF p = 0 THEN "wait" ELSE "exit0") /\ UNCHANGED lvl
<1> DEFINE id == LockAt(p, lvl[p])
           role == RoleAt(p, lvl[p])
           c == <<p, id, role>>
<1>1. at[p] = "release" /\ sys_peterson_release(p, id, role)
  BY DEF Descend, ReleaseLevel
<1>2. InTree(p) /\ lvl[p] \in 0 .. L_levels - 1
  BY <1>1, InTreeFacts DEF InTree
<1>3. id \in Id /\ role \in Role /\ ptable[id].active
  BY <1>2, PathFacts
<1>4. c = OnPath(p, lvl[p])
  BY DEF OnPath
<1>5. c \in held
  <2>1. HoldsLevel(p, lvl[p])
    BY <1>1, <1>2 DEF HoldsLevel
  <2> QED BY <1>2, <1>4, <2>1 DEF TreeInv, PathHeld
<1> HIDE DEF id, role
<1>6. Runs(p) /\ UNCHANGED waiting /\ held' = held \ {c} /\ Returns(p, 0)
  BY <1>1, <1>3 DEF sys_peterson_release, Rejected, Usable
<1>7. DisciplinedNext
  BY <1>1, <1>3, <1>5, Zenon DEF DisciplinedNext, Release
<1>8. ret'[p] = 0
  BY <1>6 DEF Returns, TreeInv, TTypeOK, TypeOK
<1> QED BY <1>1, <1>4, <1>6, <1>7, <1>8 DEF Descend

\* The library keeps to the protocol of the Peterson locks at every step.
LEMMA StepIsDisciplined == TreeInv /\ [TNext \/ TDone]_tvars => [DisciplinedNext]_vars
<1> SUFFICES ASSUME TreeInv, TNext \/ UNCHANGED tvars PROVE DisciplinedNext \/ UNCHANGED vars
  BY DEF TDone
<1>0. 0 \in Proc
  BY Bounds
<1>1. CASE CreateLock
  BY <1>0, <1>1, Zenon DEF CreateLock, DisciplinedNext, Create
<1>2. ASSUME NEW p \in Proc, Exit(p) \/ Killed(p) PROVE DisciplinedNext
  BY <1>2, Zenon DEF Exit, Killed, DisciplinedNext
<1>3. CASE UNCHANGED tvars
  BY <1>3 DEF tvars
<1>4. CASE Start \/ Fork \/ Wait \/ \E p \in Proc : Leave(p)
  BY <1>4 DEF Start, Fork, Wait, Leave
<1> QED BY <1>1, <1>2, <1>3, <1>4, ClimbStep, DescendStep DEF TNext, Step

\* So the invariant of the Peterson locks is kept.
LEMMA LocksKept == TreeInv /\ [TNext \/ TDone]_tvars => IndInv'
BY StepIsDisciplined, IndInvStep DEF TreeInv

-----------------------------------------------------------------------------
(* The invariant is kept.                                                  *)

\* The paths depend on the number of processes and the array only.
LEMMA PathSame ==
  ASSUME UNCHANGED <<N, ids>>
  PROVE  /\ L_levels' = L_levels /\ (Built' <=> Built)
         /\ \A p, k : OnPath(p, k)' = OnPath(p, k)
BY DEF L_levels, Built, IsPowerOf2, OnPath, LockAt, RoleAt

\* A step that changes no claim, and nothing of who holds what, keeps the paths.
LEMMA PathKept ==
  ASSUME TreeInv, UNCHANGED <<waiting, held, N, ids>>,
         \A q \in Proc, k \in 0 .. L_levels - 1 : HoldsLevel(q, k)' <=> HoldsLevel(q, k),
         \A q \in Proc : at[q] = "acquire" => at'[q] = "acquire" /\ lvl'[q] = lvl[q]
  PROVE  PathHeld' /\ WaitsOnPath'
<1>1. \A q, k : HoldsLevel(q, k) => InTree(q)
  BY DEF HoldsLevel, InTree
<1>2. \A c \in waiting \cup held : c[1] \in Proc
  BY ClaimOnPath
<1>3. PathHeld'
  BY <1>1, <1>2, PathSame DEF TreeInv, PathHeld
<1>4. WaitsOnPath'
  BY <1>2, PathSame DEF TreeInv, WaitsOnPath
<1> QED BY <1>3, <1>4

\* Before the tree is built nobody is in it, and there are no claims.
LEMMA NoClaims ==
  ASSUME TreeInv, at[0] \in {"start", "create"}
  PROVE  waiting = {} /\ held = {} /\ \A p \in Proc : p # 0 => at[p] = "unborn"
<1>1. \A p \in Proc : p # 0 => at[p] = "unborn"
  BY Bounds DEF TreeInv, Stages
<1>2. \A p \in Proc : ~InTree(p)
  BY <1>1 DEF InTree
<1> QED BY <1>1, <1>2, ClaimOnPath

\* A step inside the tree keeps what Stages says.
LEMMA StagesKept ==
  ASSUME TreeInv, UNCHANGED <<N, ids, forked>>,
         NEW p \in Proc, at[p] \in {"acquire", "critical", "release"},
         at'[p] \in {"acquire", "critical", "release", IF p = 0 THEN "wait" ELSE "exit0"},
         at'[p] \in {"acquire", "release"} => N > 1 /\ lvl'[p] <= L_levels - 1,
         \A q \in Proc : q # p => at'[q] = at[q] /\ lvl'[q] = lvl[q]
  PROVE  Stages'
<1>1. L_levels' = L_levels /\ (Built' <=> Built) /\ 0 \in Proc
  BY PathSame, Bounds
<1>2. \A q \in Proc : at'[q] \in {"acquire", "release"} => N' > 1 /\ lvl'[q] <= L_levels' - 1
  BY <1>1 DEF TreeInv, Stages
<1>3. \A q \in Proc \ {0} :
        /\ at'[q] \in {"unborn", "acquire", "critical", "release", "exit0", "exit1"}
        /\ at'[q] = "unborn" <=> q > forked'
  BY DEF TreeInv, Stages
<1>4. CASE p = 0
  <2>1. /\ at[0] \in {"acquire", "critical", "release"}
        /\ at'[0] \in {"acquire", "critical", "release", "wait"}
    BY <1>4
  <2> QED BY <1>1, <1>2, <1>3, <2>1 DEF TreeInv, Stages
<1>5. CASE p # 0
  <2>1. at'[0] = at[0]
    BY <1>1, <1>5
  <2>2. at[0] = "create" => IsPowerOf2(N)' /\ Len(ids') < N' - 1 /\ N' \in 2 .. MaxProcesses
    BY DEF TreeInv, Stages, IsPowerOf2
  <2> QED BY <1>1, <1>2, <1>3, <2>1, <2>2 DEF TreeInv, Stages
<1> QED BY <1>4, <1>5

\* Announcing or revoking interest leaves the array's locks active.
LEMMA OwnLocksKept ==
  ASSUME TreeInv, UNCHANGED ids, NEW id, NEW role, NEW p,
         \/ sys_peterson_acquire(p, id, role)
         \/ sys_peterson_release(p, id, role)
         \/ Recheck(p, id, role)
  PROVE  OwnLocks'
<1>1. /\ ptable \in [Id -> Slot]
      /\ \A i \in 1 .. Len(ids) : ids[i] \in Id
  BY DEF TreeInv, TTypeOK, TypeOK
<1>2. \/ UNCHANGED ptable
      \/ /\ id \in Id /\ role \in Role
         /\ \/ ptable' = [ptable EXCEPT ![id] = Interested(ptable[id], role)]
            \/ ptable' = [ptable EXCEPT ![id] = Released(ptable[id], role)]
  BY DEF sys_peterson_acquire, sys_peterson_release, Recheck, Rejected, Entered, Usable
<1>3. ASSUME id \in Id, role \in Role
      PROVE  /\ Interested(ptable[id], role).active = ptable[id].active
             /\ Released(ptable[id], role).active = ptable[id].active
  BY <1>1, <1>3, SlotSteps
<1>4. \A i \in Id : ptable[i].active => ptable'[i].active
  BY <1>1, <1>2, <1>3
<1> QED BY <1>1, <1>4 DEF TreeInv, OwnLocks

\* tournament_create() turns down a bad number of processes before it makes anything.
LEMMA StartInv ==
  ASSUME TreeInv, IndInv', Start
  PROVE  TreeInv'
<1>1. /\ at[0] = "start" /\ UNCHANGED <<vars, N, ids, forked, reaped, lvl>> /\ 0 \in Proc
      /\ ids = <<>> /\ forked = 0
  BY Bounds DEF Start, TreeInv, Stages
<1>2. PICK place \in {"fork", "create", "exit1"} : at' = [at EXCEPT ![0] = place]
  BY DEF Start, Goes
<1>3. /\ place = "fork" => N = 1 /\ 1 \in 1 .. MaxProcesses /\ IsPowerOf2(N)
      /\ place = "create" => N \in 2 .. MaxProcesses /\ IsPowerOf2(N)
  BY <1>1, <1>2 DEF Start, Goes, TreeInv, TTypeOK
<1>4. at'[0] = place /\ \A p \in Proc : p # 0 => at'[p] = "unborn"
  BY <1>1, <1>2, NoClaims DEF TreeInv, TTypeOK
<1>5. TTypeOK'
  BY <1>1, <1>2 DEF TreeInv, TTypeOK, IndInv, At
<1>6. Stages'
  <2>1. Len(ids) = 0
    BY <1>1
  <2>2. place = "fork" => Built'
    BY <1>1, <1>3, <2>1 DEF Built, IsPowerOf2
  <2>3. place = "create" => IsPowerOf2(N)'
    BY <1>1, <1>3 DEF IsPowerOf2
  <2> QED BY <1>1, <1>3, <1>4, <2>1, <2>2, <2>3, Bounds DEF Stages
<1>7. OwnLocks'
  BY <1>1 DEF OwnLocks
<1>8. PathHeld' /\ WaitsOnPath'
  BY <1>1, <1>4, NoClaims DEF PathHeld, WaitsOnPath, vars, InTree
<1> QED BY <1>5, <1>6, <1>7, <1>8 DEF TreeInv

\* One more lock of the tree is created, or creation fails.
LEMMA CreateLockInv ==
  ASSUME TreeInv, IndInv', CreateLock
  PROVE  TreeInv'
<1>1. /\ at[0] = "create" /\ UNCHANGED <<waiting, held, N, forked, reaped, lvl>> /\ 0 \in Proc
      /\ N \in 2 .. MaxProcesses /\ IsPowerOf2(N) /\ Len(ids) < N - 1 /\ forked = 0
      /\ ids \in Seq(Id) /\ Len(ids) \in Nat
  BY Bounds DEF CreateLock, sys_peterson_create, TreeInv, Stages, TTypeOK
<1>2. IsPowerOf2(N)'
  BY <1>1 DEF IsPowerOf2
<1>3. waiting' = {} /\ held' = {} /\ \A p \in Proc : p # 0 => at[p] = "unborn"
  BY <1>1, NoClaims
<1>4. PathHeld' /\ WaitsOnPath'
  <2>1. at'[0] \in {"fork", "create", "exit1"} /\ \A p \in Proc : p # 0 => at'[p] = "unborn"
    BY <1>1, <1>3 DEF CreateLock, AfterCreate, Goes, TreeInv, TTypeOK
  <2> QED BY <1>3, <2>1 DEF PathHeld, WaitsOnPath, InTree
<1>5. CASE \A i \in Id : ptable[i].active
  <2>1. Returns(0, -1) /\ UNCHANGED ptable
    BY <1>5 DEF CreateLock, sys_peterson_create, FirstFree
  <2>2. ret'[0] = -1
    BY <1>1, <2>1 DEF Returns, TreeInv, TTypeOK, TypeOK
  <2>3. at' = [at EXCEPT ![0] = "exit1"] /\ UNCHANGED ids
    BY <2>2 DEF CreateLock, AfterCreate, Goes
  <2>4. TTypeOK'
    BY <1>1, <2>3 DEF TreeInv, TTypeOK, IndInv, At
  <2>5. Stages'
    BY <1>1, <1>3, <2>3, Bounds DEF TreeInv, TTypeOK, Stages
  <2>6. OwnLocks'
    BY <2>1, <2>3 DEF TreeInv, OwnLocks
  <2> QED BY <1>4, <2>4, <2>5, <2>6 DEF TreeInv
<1>6. CASE ~\A i \in Id : ptable[i].active
  <2>1. PICK i \in Id : ~ptable[i].active /\ ptable' = [ptable EXCEPT ![i] = Fresh] /\ Returns(0, i)
    BY <1>6 DEF CreateLock, sys_peterson_create, FirstFree
  <2>2. ret'[0] = i /\ i >= 0
    BY <1>1, <2>1 DEF Returns, TreeInv, TTypeOK, TypeOK, Id
  <2>3. /\ ids' = Append(ids, i)
        /\ at' = [at EXCEPT ![0] = IF Len(ids') = N - 1 THEN "fork" ELSE "create"]
    BY <2>1, <2>2 DEF CreateLock, AfterCreate, Goes, Id
  <2>4. /\ ids' \in Seq(Id) /\ Len(ids') = Len(ids) + 1 /\ ids'[Len(ids) + 1] = i
        /\ \A j \in 1 .. Len(ids) : ids'[j] = ids[j] /\ ids[j] \in Id
    BY <1>1, <2>1, <2>3
  <2>5. TTypeOK'
    BY <1>1, <2>3, <2>4, Bounds DEF TreeInv, TTypeOK, IndInv, At
  <2>6. Stages'
    <3>1. Len(ids') = N - 1 => Built'
      BY <1>1, <1>2 DEF Built
    <3>2. /\ at'[0] = IF Len(ids') = N - 1 THEN "fork" ELSE "create"
          /\ \A p \in Proc : p # 0 => at'[p] = "unborn"
      BY <1>1, <1>3, <2>3 DEF TreeInv, TTypeOK
    <3>3. Len(ids') # N - 1 => Len(ids') < N - 1
      BY <1>1, <2>4
    <3> QED BY <1>1, <1>2, <3>1, <3>2, <3>3, Bounds DEF Stages
  <2>7. OwnLocks'
    <3>1. \A j \in 1 .. Len(ids) : ids[j] # i /\ ptable'[ids[j]].active
      BY <2>1, <2>4 DEF TreeInv, OwnLocks, TTypeOK, TypeOK
    <3>2. ptable'[i].active
      BY <2>1 DEF Fresh, TreeInv, TTypeOK, TypeOK
    <3>3. \A j \in 1 .. Len(ids') : j = Len(ids) + 1 \/ j \in 1 .. Len(ids)
      BY <1>1, <2>4
    <3> QED BY <2>4, <3>1, <3>2, <3>3 DEF TreeInv, OwnLocks
  <2> QED BY <1>4, <2>5, <2>6, <2>7 DEF TreeInv
<1> QED BY <1>5, <1>6

\* A child is forked and knows its place, or fork() fails.
LEMMA ForkInv ==
  ASSUME TreeInv, IndInv', Fork
  PROVE  TreeInv'
<1>1. /\ at[0] = "fork" /\ Built /\ 0 \in Proc /\ UNCHANGED <<vars, N, ids, reaped>>
      /\ N \in 1 .. MaxProcesses /\ forked \in Nat /\ forked <= N - 1
      /\ at \in [Proc -> At] /\ lvl \in [Proc -> 0 .. MaxProcesses]
  BY Bounds DEF Fork, TreeInv, Stages, Built, TTypeOK
<1>2. L_levels \in Nat /\ L_levels <= N /\ (N > 1 => L_levels > 0)
  BY <1>1, Levels DEF Built
<1>3. OwnLocks'
  BY <1>1 DEF TreeInv, OwnLocks, vars
<1>4. Built' /\ L_levels' = L_levels
  BY <1>1, PathSame
<1>5. CASE /\ forked < N - 1 /\ forked' = forked + 1
           /\ at' = [at EXCEPT ![forked + 1] = "acquire"]
           /\ lvl' = [lvl EXCEPT ![forked + 1] = L_levels - 1]
  <2>1. PICK p \in Proc : p = forked + 1 /\ p # 0
    BY <1>1, <1>5, Bounds
  <2>2. at[p] = "unborn" /\ at'[p] = "acquire" /\ lvl'[p] = L_levels - 1
    BY <1>1, <1>5, <2>1 DEF TreeInv, Stages
  <2>3. \A q \in Proc : q # p => at'[q] = at[q] /\ lvl'[q] = lvl[q]
    BY <1>1, <1>5, <2>1
  <2>4. TTypeOK'
    BY <1>1, <1>2, <1>5, Bounds DEF TreeInv, TTypeOK, IndInv, At
  <2>5. Stages'
    <3>1. \A q \in Proc \ {0} :
            /\ at'[q] \in {"unborn", "acquire", "critical", "release", "exit0", "exit1"}
            /\ at'[q] = "unborn" <=> q > forked'
      BY <1>1, <1>5, <2>1, <2>2, <2>3, Bounds DEF TreeInv, Stages
    <3>2. \A q \in Proc : at'[q] \in {"acquire", "release"} => N > 1 /\ lvl'[q] <= L_levels - 1
      BY <1>1, <1>2, <1>5, <2>2, <2>3 DEF TreeInv, Stages
    <3>3. at'[0] = "fork"
      BY <1>1, <2>1, <2>3
    <3> QED BY <1>1, <1>4, <1>5, <3>1, <3>2, <3>3 DEF Stages
  <2>6. PathHeld' /\ WaitsOnPath'
    BY <1>1, <1>2, <2>2, <2>3, PathKept DEF HoldsLevel, vars
  <2> QED BY <1>3, <2>4, <2>5, <2>6 DEF TreeInv
<1>6. CASE forked = N - 1 /\ N = 1 /\ Goes(0, "critical") /\ UNCHANGED <<lvl, forked>>
  <2>1. at'[0] = "critical" /\ \A q \in Proc : q # 0 => at'[q] = at[q]
    BY <1>1, <1>6 DEF Goes
  <2>2. TTypeOK'
    BY <1>1, <1>6 DEF TreeInv, TTypeOK, IndInv, At, Goes
  <2>3. Stages'
    BY <1>1, <1>4, <1>6, <2>1 DEF TreeInv, Stages
  <2>4. PathHeld' /\ WaitsOnPath'
    BY <1>1, <1>6, <2>1, PathKept DEF HoldsLevel, vars
  <2> QED BY <1>3, <2>2, <2>3, <2>4 DEF TreeInv
<1>7. CASE forked = N - 1 /\ N # 1 /\ ClimbsFrom(0, L_levels - 1) /\ UNCHANGED forked
  <2>1. /\ at'[0] = "acquire" /\ lvl'[0] = L_levels - 1
        /\ \A q \in Proc : q # 0 => at'[q] = at[q] /\ lvl'[q] = lvl[q]
    BY <1>1, <1>7 DEF ClimbsFrom, Goes
  <2>2. TTypeOK'
    <3>1. L_levels - 1 \in 0 .. MaxProcesses
      BY <1>1, <1>2, <1>7, Bounds
    <3>2. at' \in [Proc -> At] /\ lvl' \in [Proc -> 0 .. MaxProcesses]
      BY <1>1, <1>7, <3>1 DEF ClimbsFrom, Goes, At
    <3> QED BY <1>1, <1>7, <3>2 DEF TreeInv, TTypeOK, IndInv
  <2>3. Stages'
    BY <1>1, <1>2, <1>4, <1>7, <2>1 DEF TreeInv, Stages
  <2>4. PathHeld' /\ WaitsOnPath'
    BY <1>1, <1>2, <2>1, PathKept DEF HoldsLevel, vars
  <2> QED BY <1>3, <2>2, <2>3, <2>4 DEF TreeInv
<1>8. CASE Goes(0, "exit1") /\ UNCHANGED <<forked, lvl>>
  <2>1. at'[0] = "exit1" /\ \A q \in Proc : q # 0 => at'[q] = at[q]
    BY <1>1, <1>8 DEF Goes
  <2>2. TTypeOK'
    BY <1>1, <1>8 DEF TreeInv, TTypeOK, IndInv, At, Goes
  <2>3. Stages'
    BY <1>1, <1>4, <1>8, <2>1 DEF TreeInv, Stages
  <2>4. PathHeld' /\ WaitsOnPath'
    BY <1>1, <1>8, <2>1, PathKept DEF HoldsLevel, vars
  <2> QED BY <1>3, <2>2, <2>3, <2>4 DEF TreeInv
<1> QED BY <1>5, <1>6, <1>7, <1>8 DEF Fork

\* The last part of tournament_acquire and the way to the critical section: the
\* process holds one level more.
LEMMA ClimbInv ==
  ASSUME TreeInv, IndInv', NEW p \in Proc, Climb(p)
  PROVE  TreeInv'
<1> DEFINE l == lvl[p]
           c == OnPath(p, l)
<1>1. /\ at[p] = "acquire" /\ InTree(p) /\ l \in 0 .. L_levels - 1 /\ L_levels \in Nat /\ N > 1
      /\ UNCHANGED <<N, ids, forked, reaped>>
      /\ at \in [Proc -> At] /\ lvl \in [Proc -> 0 .. MaxProcesses]
  BY InTreeFacts DEF InTree, Climb, TreeInv, TTypeOK
<1>2. L_levels' = L_levels /\ (Built' <=> Built) /\ \A q, k : OnPath(q, k)' = OnPath(q, k)
  BY <1>1, PathSame
<1>3. OwnLocks'
  <2>1. PICK id, role : sys_peterson_acquire(p, id, role) \/ Recheck(p, id, role)
    BY DEF Climb
  <2> QED BY <1>1, <2>1, OwnLocksKept
<1>4. CASE waiting' = waiting \cup {c} /\ UNCHANGED <<held, at, lvl>>
  <2>1. TTypeOK'
    BY <1>1, <1>4 DEF TreeInv, TTypeOK, IndInv
  <2>2. Stages'
    BY <1>1, <1>2, <1>4 DEF TreeInv, Stages, IsPowerOf2
  <2>3. PathHeld'
    BY <1>1, <1>2, <1>4 DEF TreeInv, PathHeld, HoldsLevel, InTree
  <2>4. WaitsOnPath'
    <3>1. c[1] = p
      BY DEF OnPath
    <3> QED BY <1>1, <1>2, <1>4, <3>1 DEF TreeInv, WaitsOnPath
  <2> QED BY <1>3, <2>1, <2>2, <2>3, <2>4 DEF TreeInv
<1>5. CASE /\ waiting' = waiting \ {c} /\ held' = held \cup {c}
           /\ IF l = 0 THEN Goes(p, "critical") /\ UNCHANGED lvl ELSE ClimbsFrom(p, l - 1)
  <2>1. /\ \A q \in Proc : q # p => at'[q] = at[q] /\ lvl'[q] = lvl[q]
        /\ \/ l = 0 /\ at'[p] = "critical" /\ lvl'[p] = 0
           \/ l > 0 /\ at'[p] = "acquire" /\ lvl'[p] = l - 1
    BY <1>1, <1>5 DEF Goes, ClimbsFrom
  <2>2. TTypeOK'
    <3>1. at' \in [Proc -> At] /\ lvl' \in [Proc -> 0 .. MaxProcesses]
      <4>1. l > 0 => l - 1 \in 0 .. MaxProcesses
        BY <1>1, Bounds
      <4> QED BY <1>1, <1>5, <4>1 DEF Goes, ClimbsFrom, At
    <3> QED BY <1>1, <3>1 DEF TreeInv, TTypeOK, IndInv
  <2>3. Stages'
    BY <1>1, <2>1, StagesKept
  <2>4. \A k \in 0 .. L_levels - 1 : HoldsLevel(p, k)' <=> HoldsLevel(p, k) \/ k = l
    BY <1>1, <2>1 DEF HoldsLevel
  <2>5. \A q \in Proc, k \in 0 .. L_levels - 1 : q # p => (HoldsLevel(q, k)' <=> HoldsLevel(q, k))
    BY <1>1, <2>1 DEF HoldsLevel
  <2>6. \A q \in Proc : InTree(q)' => InTree(q)
    BY <1>1, <2>1 DEF InTree
  <2>7. PathHeld'
    <3>1. ASSUME NEW q \in Proc, InTree(q)', NEW k \in 0 .. L_levels - 1, HoldsLevel(q, k)'
          PROVE  OnPath(q, k) \in held'
      <4>1. CASE q = p /\ k = l
        BY <1>5, <4>1
      <4>2. CASE ~(q = p /\ k = l)
        <5>1. HoldsLevel(q, k) /\ InTree(q)
          BY <2>4, <2>5, <2>6, <3>1, <4>2
        <5> QED BY <1>5, <5>1 DEF TreeInv, PathHeld
      <4> QED BY <4>1, <4>2
    <3>2. ASSUME NEW d \in held'
          PROVE  \E k \in 0 .. L_levels - 1 : HoldsLevel(d[1], k)' /\ d = OnPath(d[1], k)
      <4>1. CASE d = c
        <5>1. d[1] = p
          BY <4>1 DEF OnPath
        <5> QED BY <1>1, <2>4, <4>1, <5>1
      <4>2. CASE d \in held
        <5>1. d[1] \in Proc
          BY <4>2, ClaimOnPath
        <5>2. PICK k \in 0 .. L_levels - 1 : HoldsLevel(d[1], k) /\ d = OnPath(d[1], k)
          BY <4>2 DEF TreeInv, PathHeld
        <5> QED BY <2>4, <2>5, <5>1, <5>2
      <4> QED BY <1>5, <4>1, <4>2
    <3> QED BY <1>2, <3>1, <3>2 DEF PathHeld
  <2>8. WaitsOnPath'
    <3>1. ASSUME NEW d \in waiting' PROVE d[1] \in Proc /\ d[1] # p
      <4>1. d \in waiting /\ d # c /\ d[1] \in Proc
        BY <1>5, <3>1, ClaimOnPath
      <4> QED BY <4>1 DEF TreeInv, WaitsOnPath
    <3> QED BY <1>2, <1>5, <2>1, <3>1 DEF TreeInv, WaitsOnPath
  <2> QED BY <1>3, <2>2, <2>3, <2>7, <2>8 DEF TreeInv
<1> QED BY <1>4, <1>5, ClimbStep

\* A process leaves the critical section; it still holds its path.
LEMMA LeaveInv ==
  ASSUME TreeInv, IndInv', NEW p \in Proc, Leave(p)
  PROVE  TreeInv'
<1>1. /\ at[p] = "critical" /\ UNCHANGED <<vars, N, ids, forked, reaped>> /\ N \in Nat
      /\ at \in [Proc -> At] /\ lvl \in [Proc -> 0 .. MaxProcesses]
  BY DEF Leave, TreeInv, TTypeOK
<1>3. OwnLocks'
  BY <1>1 DEF TreeInv, OwnLocks, vars
<1>4. N \in Nat \ {0} /\ (N = 1 => p = 0)
  BY <1>1, Bounds DEF TreeInv, Stages, Built, TTypeOK
<1>5. CASE N = 1
  <2>1. at'[p] = "wait" /\ UNCHANGED lvl /\ \A q \in Proc : q # p => at'[q] = at[q]
    BY <1>1, <1>5 DEF Leave, Goes
  <2>2. TTypeOK'
    BY <1>1, <1>5 DEF Leave, Goes, TreeInv, TTypeOK, IndInv, At
  <2>3. Stages'
    <3>1. at'[p] = (IF p = 0 THEN "wait" ELSE "exit0")
      BY <1>4, <1>5, <2>1
    <3> QED BY <1>1, <2>1, <3>1, StagesKept
  <2>4. PathHeld' /\ WaitsOnPath'
    BY <1>1, <1>5, <2>1, PathKept DEF HoldsLevel, vars
  <2> QED BY <1>3, <2>2, <2>3, <2>4 DEF TreeInv
<1>6. CASE N # 1
  <2>1. /\ at'[p] = "release" /\ lvl'[p] = 0
        /\ \A q \in Proc : q # p => at'[q] = at[q] /\ lvl'[q] = lvl[q]
    BY <1>1, <1>6 DEF Leave, Goes
  <2>2. InTree(p) /\ L_levels \in Nat /\ L_levels > 0
    BY <1>1, <1>4, <1>6, InTreeFacts DEF InTree
  <2>3. TTypeOK'
    <3>1. at' \in [Proc -> At] /\ lvl' \in [Proc -> 0 .. MaxProcesses]
      BY <1>1, <1>6, Bounds DEF Leave, Goes, At
    <3> QED BY <1>1, <3>1 DEF TreeInv, TTypeOK, IndInv
  <2>4. Stages'
    BY <1>1, <1>4, <1>6, <2>1, <2>2, StagesKept
  <2>5. PathHeld' /\ WaitsOnPath'
    BY <1>1, <1>4, <1>6, <2>1, PathKept DEF HoldsLevel, vars
  <2> QED BY <1>3, <2>3, <2>4, <2>5 DEF TreeInv
<1> QED BY <1>5, <1>6

\* The process holds one level less, and its other locks are different ones.
LEMMA DescendInv ==
  ASSUME TreeInv, IndInv', NEW p \in Proc, Descend(p)
  PROVE  TreeInv'
<1> DEFINE l == lvl[p]
           c == OnPath(p, l)
<1>1. /\ at[p] = "release" /\ InTree(p) /\ l \in 0 .. L_levels - 1 /\ L_levels \in Nat /\ N > 1
      /\ L_levels <= MaxProcesses
      /\ UNCHANGED <<N, ids, forked, reaped>>
      /\ at \in [Proc -> At] /\ lvl \in [Proc -> 0 .. MaxProcesses]
  <2>1. at[p] = "release" /\ InTree(p)
    BY DescendStep DEF InTree
  <2>2. /\ Built /\ N > 1 /\ L_levels \in Nat /\ l \in 0 .. L_levels - 1
    BY <2>1, InTreeFacts
  <2>3. L_levels <= MaxProcesses
    BY <2>2, Levels, Bounds DEF Built
  <2> QED BY <2>1, <2>2, <2>3 DEF Descend, TreeInv, TTypeOK
<1>2. L_levels' = L_levels /\ (Built' <=> Built) /\ \A q, k : OnPath(q, k)' = OnPath(q, k)
  BY <1>1, PathSame
<1>3. OwnLocks'
  <2>1. PICK id, role : sys_peterson_release(p, id, role)
    BY DEF Descend
  <2> QED BY <1>1, <2>1, OwnLocksKept
<1>4. /\ Runs(p) /\ UNCHANGED waiting /\ held' = held \ {c}
      /\ IF l + 1 < L_levels THEN lvl' = [lvl EXCEPT ![p] = l + 1] /\ UNCHANGED at
         ELSE Goes(p, IF p = 0 THEN "wait" ELSE "exit0") /\ UNCHANGED lvl
  BY DescendStep
<1>5. /\ \A q \in Proc : q # p => at'[q] = at[q] /\ lvl'[q] = lvl[q]
      /\ \/ l + 1 < L_levels /\ at'[p] = "release" /\ lvl'[p] = l + 1
         \/ l + 1 = L_levels /\ at'[p] = (IF p = 0 THEN "wait" ELSE "exit0") /\ lvl'[p] = l
  BY <1>1, <1>4 DEF Goes
<1>6. TTypeOK'
  <2>1. at' \in [Proc -> At] /\ lvl' \in [Proc -> 0 .. MaxProcesses]
    <3>1. l + 1 < L_levels => l + 1 \in 0 .. MaxProcesses
      BY <1>1, Bounds
    <3> QED BY <1>1, <1>4, <3>1 DEF Goes, At
  <2> QED BY <1>1, <2>1 DEF TreeInv, TTypeOK, IndInv
<1>7. Stages'
  <2>1. /\ at'[p] \in {"release", IF p = 0 THEN "wait" ELSE "exit0"}
        /\ at'[p] \in {"acquire", "release"} => lvl'[p] <= L_levels - 1
    BY <1>1, <1>5
  <2> QED BY <1>1, <1>5, <2>1, StagesKept
<1>8. \A k \in 0 .. L_levels - 1 : HoldsLevel(p, k)' <=> HoldsLevel(p, k) /\ k # l
  BY <1>1, <1>5 DEF HoldsLevel
<1>9. \A q \in Proc, k \in 0 .. L_levels - 1 : q # p => (HoldsLevel(q, k)' <=> HoldsLevel(q, k))
  BY <1>1, <1>5 DEF HoldsLevel
<1>10. PathHeld'
  <2>1. ASSUME NEW q \in Proc, InTree(q)', NEW k \in 0 .. L_levels - 1, HoldsLevel(q, k)'
        PROVE  OnPath(q, k) \in held'
    <3>1. InTree(q) /\ HoldsLevel(q, k) /\ ~(q = p /\ k = l)
      BY <1>1, <1>5, <1>8, <1>9, <2>1 DEF InTree
    <3>2. OnPath(q, k) \in held
      BY <3>1 DEF TreeInv, PathHeld
    <3>3. OnPath(q, k) # c
      <4>1. ASSUME q = p, LockAt(p, k) = LockAt(p, l) PROVE FALSE
        BY <1>1, <3>1, <4>1, PathsMeet
      <4> QED BY <4>1 DEF OnPath
    <3> QED BY <1>4, <3>2, <3>3
  <2>2. ASSUME NEW d \in held'
        PROVE  \E k \in 0 .. L_levels - 1 : HoldsLevel(d[1], k)' /\ d = OnPath(d[1], k)
    <3>1. d \in held /\ d # c /\ d[1] \in Proc
      BY <1>4, <2>2, ClaimOnPath
    <3>2. PICK k \in 0 .. L_levels - 1 : HoldsLevel(d[1], k) /\ d = OnPath(d[1], k)
      BY <3>1 DEF TreeInv, PathHeld
    <3>3. ~(d[1] = p /\ k = l)
      BY <3>1, <3>2
    <3> QED BY <1>8, <1>9, <3>1, <3>2, <3>3
  <2> QED BY <1>2, <2>1, <2>2 DEF PathHeld
<1>11. WaitsOnPath'
  <2>1. ASSUME NEW d \in waiting PROVE d[1] \in Proc /\ d[1] # p
    BY <1>4, <2>1, ClaimOnPath DEF Runs
  <2> QED BY <1>2, <1>4, <1>5, <2>1 DEF TreeInv, WaitsOnPath
<1> QED BY <1>3, <1>6, <1>7, <1>10, <1>11 DEF TreeInv

\* The parent waits for its children.
LEMMA WaitInv ==
  ASSUME TreeInv, IndInv', Wait
  PROVE  TreeInv'
<1>1. /\ at[0] = "wait" /\ UNCHANGED <<vars, N, ids, forked, lvl>> /\ 0 \in Proc
      /\ at \in [Proc -> At] /\ forked = N - 1
  BY Bounds DEF Wait, TreeInv, TTypeOK, Stages
<1>2. L_levels' = L_levels /\ (Built' <=> Built)
  BY <1>1, PathSame
<1>3. OwnLocks'
  BY <1>1 DEF TreeInv, OwnLocks, vars
<1>4. at'[0] \in {"wait", "exit0"} /\ \A q \in Proc : q # 0 => at'[q] = at[q]
  BY <1>1 DEF Wait, Goes
<1>5. TTypeOK'
  BY <1>1 DEF Wait, Goes, TreeInv, TTypeOK, IndInv, At
<1>6. Stages'
  BY <1>1, <1>2, <1>4 DEF TreeInv, Stages
<1>7. PathHeld' /\ WaitsOnPath'
  BY <1>1, <1>4, PathKept DEF HoldsLevel, vars
<1> QED BY <1>3, <1>5, <1>6, <1>7 DEF TreeInv

\* An exit, a kill or a step of nobody leaves the program's memory alone.
LEMMA QuietInv ==
  ASSUME TreeInv, IndInv', UNCHANGED <<uvars, ptable, waiting, held>>
  PROVE  TreeInv'
<1>1. UNCHANGED <<N, ids, forked, reaped, at, lvl>>
  BY DEF uvars
<1>2. L_levels' = L_levels /\ (Built' <=> Built) /\ \A q, k : OnPath(q, k)' = OnPath(q, k)
  BY <1>1, PathSame
<1>3. TTypeOK'
  BY <1>1 DEF TreeInv, TTypeOK, IndInv
<1>4. Stages' /\ OwnLocks'
  BY <1>1, <1>2 DEF TreeInv, Stages, OwnLocks, IsPowerOf2
<1>5. PathHeld' /\ WaitsOnPath'
  BY <1>1, PathKept DEF HoldsLevel
<1> QED BY <1>3, <1>4, <1>5 DEF TreeInv

\* Every step keeps the invariant.
LEMMA TreeInvNext == TreeInv /\ [TNext \/ TDone]_tvars => TreeInv'
<1> SUFFICES ASSUME TreeInv, TNext \/ UNCHANGED tvars PROVE TreeInv'
  BY DEF TDone
<1>1. IndInv'
  BY LocksKept
<1>2. ASSUME NEW p \in Proc, Exit(p) \/ Killed(p) PROVE TreeInv'
  BY <1>1, <1>2, QuietInv DEF Exit, Killed, exit
<1>3. CASE UNCHANGED tvars
  BY <1>1, <1>3, QuietInv DEF tvars, vars
<1> QED BY <1>1, <1>2, <1>3, StartInv, CreateLockInv, ForkInv, WaitInv, ClimbInv, LeaveInv, DescendInv
        DEF TNext, Step

-----------------------------------------------------------------------------
(* What follows.                                                           *)

\* Two processes inside would hold the lock where their paths meet, with different roles.
LEMMA OneIn == TreeInv => OneInCriticalSection
<1> SUFFICES ASSUME TreeInv, NEW p \in Proc, NEW q \in Proc, at[p] = "critical", at[q] = "critical"
             PROVE  p = q
  BY DEF OneInCriticalSection
<1>1. N \in Nat
  BY DEF TreeInv, TTypeOK
<1>2. CASE N > 1
  <2>1. InTree(p) /\ InTree(q) /\ HoldsLevel(p, 0) /\ HoldsLevel(q, 0)
    BY <1>2 DEF InTree, HoldsLevel
  <2>2. /\ L_levels \in Nat /\ 0 \in 0 .. L_levels - 1
        /\ p \in Nat /\ p < 2 ^ L_levels /\ q \in Nat /\ q < 2 ^ L_levels
    BY <2>1, InTreeFacts
  <2>3. ArrayIdx(L_levels, p, 0) = 0 /\ ArrayIdx(L_levels, q, 0) = 0
    BY <2>2 DEF TreeInv, TreeArithmetic
  <2>4. LockAt(p, 0) = LockAt(q, 0)
    BY <2>3 DEF LockAt
  <2>5. OnPath(p, 0) \in held /\ OnPath(q, 0) \in held
    BY <2>1, <2>2 DEF TreeInv, PathHeld
  <2>6. OnPath(p, 0)[2] = OnPath(q, 0)[2]
    BY <2>4 DEF OnPath
  <2>7. OnPath(p, 0) = OnPath(q, 0)
    BY <2>5, <2>6, IndInvExcludes DEF TreeInv, MutualExclusion
  <2> QED BY <2>7 DEF OnPath
<1>3. CASE ~(N > 1)
  <2>1. ASSUME NEW x \in Proc, at[x] = "critical" PROVE x = 0
    BY <1>1, <1>3, <2>1, Bounds DEF TreeInv, Stages, TTypeOK
  <2> QED BY <2>1
<1> QED BY <1>2, <1>3

\* Who is inside has every lock on the way.
LEMMA PathIsHeld == TreeInv => HoldsItsPath
<1> SUFFICES ASSUME TreeInv, NEW p \in Proc, InTree(p)
             PROVE  LET mine == {c \in held : c[1] = p} IN
                    /\ at[p] = "acquire" => mine = {OnPath(p, k) : k \in lvl[p] + 1 .. L_levels - 1}
                    /\ at[p] = "critical" => mine = {OnPath(p, k) : k \in 0 .. L_levels - 1}
                    /\ at[p] = "release" => mine = {OnPath(p, k) : k \in lvl[p] .. L_levels - 1}
  BY DEF HoldsItsPath, InTree, OnPath
<1> DEFINE levels == {k \in 0 .. L_levels - 1 : HoldsLevel(p, k)}
<1>1. {c \in held : c[1] = p} = {OnPath(p, k) : k \in levels}
  <2>1. ASSUME NEW c \in held, c[1] = p
        PROVE  \E k \in 0 .. L_levels - 1 : HoldsLevel(p, k) /\ c = OnPath(p, k)
    BY <2>1 DEF TreeInv, PathHeld
  <2>2. ASSUME NEW k \in 0 .. L_levels - 1, HoldsLevel(p, k)
        PROVE  OnPath(p, k) \in held /\ OnPath(p, k)[1] = p
    BY <2>2 DEF TreeInv, PathHeld, OnPath
  <2> QED BY <2>1, <2>2
<1>2. L_levels \in Nat /\ N > 1 /\ (at[p] \in {"acquire", "release"} => lvl[p] \in 0 .. L_levels - 1)
  BY InTreeFacts
<1>3. at[p] = "acquire" => levels = lvl[p] + 1 .. L_levels - 1
  BY <1>2 DEF HoldsLevel
<1>4. at[p] = "critical" => levels = 0 .. L_levels - 1
  BY <1>2 DEF HoldsLevel
<1>5. at[p] = "release" => levels = lvl[p] .. L_levels - 1
  BY <1>2 DEF HoldsLevel
<1> HIDE DEF levels
<1> QED BY <1>1, <1>3, <1>4, <1>5

\* The tree is as large as its processes need.
LEMMA Complete == TreeInv => TreeComplete
BY DEF TreeInv, TreeComplete, Stages, OwnLocks, Built

-----------------------------------------------------------------------------
(* The arithmetic of the tree.                                             *)

Lib == INSTANCE FiniteSetTheorems

\* 2 ^ k is the number of subsets of a set of k elements.
LEMMA Pow2Type == ASSUME NEW k \in Nat PROVE 2 ^ k \in Nat \ {0}
<1>1. Lib!IsFiniteSet(1 .. k) /\ Lib!Cardinality(1 .. k) = k
  BY Lib!FS_Interval
<1>2. Lib!IsFiniteSet(SUBSET (1 .. k)) /\ Lib!Cardinality(SUBSET (1 .. k)) = 2 ^ k
  BY <1>1, Lib!FS_SUBSET
<1>3. SUBSET (1 .. k) # {}
  BY Zenon
<1>4. Lib!Cardinality(SUBSET (1 .. k)) \in Nat /\ Lib!Cardinality(SUBSET (1 .. k)) # 0
  BY <1>2, <1>3, Lib!FS_CardinalityType, Lib!FS_EmptySet
<1> QED BY <1>2, <1>4

\* A subset of two disjoint sets is a pair of subsets.
LEMMA SubsetPairs ==
  ASSUME NEW A, NEW B, A \cap B = {}, Lib!IsFiniteSet(A), Lib!IsFiniteSet(B)
  PROVE  Lib!Cardinality(SUBSET (A \cup B)) = Lib!Cardinality(SUBSET A) * Lib!Cardinality(SUBSET B)
<1> DEFINE U == A \cup B
           f == [T \in SUBSET U |-> <<T \cap A, T \cap B>>]
<1>1. Lib!IsFiniteSet(SUBSET U) /\ Lib!IsFiniteSet(SUBSET A) /\ Lib!IsFiniteSet(SUBSET B)
  BY Lib!FS_Union, Lib!FS_SUBSET
<1>2. f \in [SUBSET U -> (SUBSET A) \X (SUBSET B)]
  OBVIOUS
<1>3. ASSUME NEW S \in SUBSET U, NEW T \in SUBSET U, f[S] = f[T] PROVE S = T
  <2>1. S \cap A = T \cap A /\ S \cap B = T \cap B
    BY <1>3
  <2> QED BY <2>1
<1>4. ASSUME NEW t \in (SUBSET A) \X (SUBSET B) PROVE \E S \in SUBSET U : f[S] = t
  <2>1. PICK V \in SUBSET A, W \in SUBSET B : t = <<V, W>>
    OBVIOUS
  <2>2. V \cup W \in SUBSET U /\ (V \cup W) \cap A = V /\ (V \cup W) \cap B = W
    OBVIOUS
  <2> QED BY <2>1, <2>2
<1>5. f \in Lib!Bijection(SUBSET U, (SUBSET A) \X (SUBSET B))
  <2> HIDE DEF f
  <2> QED BY <1>2, <1>3, <1>4 DEF Lib!Bijection, Lib!Injection, Lib!Surjection, Lib!IsInjective
<1>6. Lib!ExistsBijection(SUBSET U, (SUBSET A) \X (SUBSET B))
  BY <1>5, Zenon DEF Lib!ExistsBijection
<1>7. Lib!Cardinality((SUBSET A) \X (SUBSET B)) = Lib!Cardinality(SUBSET U)
  BY <1>1, <1>6, Lib!FS_Bijection
<1> QED BY <1>1, <1>7, Lib!FS_Product

\* Powers of two: the library knows them as numbers of subsets.
LEMMA Pow2Sum == ASSUME NEW a \in Nat, NEW b \in Nat PROVE 2 ^ (a + b) = 2 ^ a * 2 ^ b
<1> DEFINE A == 1 .. a
           B == a + 1 .. a + b
<1>1. A \cap B = {} /\ A \cup B = 1 .. a + b
  OBVIOUS
<1>2. /\ Lib!IsFiniteSet(A) /\ Lib!Cardinality(A) = a
      /\ Lib!IsFiniteSet(B) /\ Lib!Cardinality(B) = b
      /\ Lib!IsFiniteSet(1 .. a + b) /\ Lib!Cardinality(1 .. a + b) = a + b
  <2>1. Lib!IsFiniteSet(A) /\ Lib!Cardinality(A) = IF 1 > a THEN 0 ELSE a - 1 + 1
    BY Lib!FS_Interval
  <2>2. Lib!IsFiniteSet(B) /\ Lib!Cardinality(B) = IF a + 1 > a + b THEN 0 ELSE a + b - (a + 1) + 1
    BY Lib!FS_Interval
  <2>3. Lib!IsFiniteSet(1 .. a + b) /\ Lib!Cardinality(1 .. a + b) = IF 1 > a + b THEN 0 ELSE a + b - 1 + 1
    BY Lib!FS_Interval
  <2> HIDE DEF A, B
  <2> QED BY <2>1, <2>2, <2>3
<1> HIDE DEF A, B
<1>3. /\ Lib!Cardinality(SUBSET A) = 2 ^ a /\ Lib!Cardinality(SUBSET B) = 2 ^ b
      /\ Lib!Cardinality(SUBSET (1 .. a + b)) = 2 ^ (a + b)
  BY <1>2, Lib!FS_SUBSET
<1>4. Lib!Cardinality(SUBSET (A \cup B)) = Lib!Cardinality(SUBSET A) * Lib!Cardinality(SUBSET B)
  BY <1>1, <1>2, SubsetPairs
<1> QED BY <1>1, <1>3, <1>4

\* The next power is twice as large.
LEMMA Pow2Succ == ASSUME NEW k \in Nat PROVE 2 ^ (k + 1) = 2 * 2 ^ k
<1>1. 2 ^ (k + 1) = 2 ^ k * 2 ^ 1 /\ 2 ^ k \in Nat
  BY Pow2Sum, Pow2Type
<1> QED BY <1>1

\* Powers of two grow.
LEMMA Pow2Grows == ASSUME NEW a \in Nat, NEW b \in Nat, a <= b PROVE 2 ^ a <= 2 ^ b
<1>1. PICK c \in Nat : b = a + c
  <2>1. b - a \in Nat /\ b = a + (b - a)
    OBVIOUS
  <2> QED BY <2>1
<1>2. PICK x \in Nat \ {0} : x = 2 ^ a
  BY Pow2Type
<1>3. PICK y \in Nat \ {0} : y = 2 ^ c
  BY Pow2Type
<1>4. 2 ^ b = x * y
  BY <1>1, <1>2, <1>3, Pow2Sum
<1>5. x <= x * y
  OBVIOUS
<1> QED BY <1>2, <1>4, <1>5

\* Dividing by d and then by two is dividing by 2 * d.
LEMMA Halves ==
  ASSUME NEW p \in Nat, NEW d \in Nat \ {0}
  PROVE  (p \div d) \div 2 = p \div (2 * d) /\ p \div d \in Nat
<1>1. PICK x \in Nat : x = p \div d
  OBVIOUS
<1>2. d * x <= p /\ p < d * x + d
  BY <1>1
<1>3. PICK y \in Nat : y = x \div 2
  OBVIOUS
<1>4. 2 * y <= x /\ x <= 2 * y + 1
  BY <1>3
<1>5. d * (2 * y) <= d * x /\ d * x <= d * (2 * y + 1)
  BY <1>4
<1>6. (2 * d) * y <= p /\ p < (2 * d) * y + 2 * d
  BY <1>2, <1>5
<1>7. p \div (2 * d) = y
  BY <1>6
<1> QED BY <1>1, <1>3, <1>7

\* A quotient is smaller than any m with p < d * m.
LEMMA Quotient ==
  ASSUME NEW p \in Nat, NEW d \in Nat \ {0}, NEW m \in Nat, p < d * m
  PROVE  p \div d < m
<1>1. PICK x \in Nat : x = p \div d
  OBVIOUS
<1>2. d * x <= p
  BY <1>1
<1>3. d * x < d * m
  BY <1>2
<1>4. x < m
  BY <1>3
<1> QED BY <1>1, <1>4

\* Shifting right by one more place halves once more.
LEMMA ShrType ==
  ASSUME NEW p \in Nat, NEW k \in Nat
  PROVE  Shr(p, k) \in Nat /\ Shr(p, 0) = p /\ Shr(p, k + 1) = Shr(p, k) \div 2
<1>1. PICK d \in Nat \ {0} : d = 2 ^ k
  BY Pow2Type
<1>2. 2 ^ (k + 1) = 2 * d
  BY <1>1, Pow2Succ
<1>3. (p \div d) \div 2 = p \div (2 * d) /\ p \div d \in Nat
  BY Halves
<1>4. 2 ^ 0 = 1 /\ p \div 1 = p
  OBVIOUS
<1> QED BY <1>1, <1>2, <1>3, <1>4 DEF Shr

\* A process's lock on a level lies in the level's part of the array.
LEMMA IdxRange ==
  ASSUME NEW L \in Nat, NEW p \in Nat, p < 2 ^ L, NEW l \in 0 .. L - 1
  PROVE  /\ ArrayIdx(L, p, l) \in Nat /\ RoleAtLevel(L, p, l) \in {0, 1}
         /\ 2 ^ l - 1 <= ArrayIdx(L, p, l) /\ ArrayIdx(L, p, l) < 2 ^ (l + 1) - 1
         /\ ArrayIdx(L, p, l) < 2 ^ L - 1
         /\ ArrayIdx(L, p, 0) = 0
<1>1. l \in Nat /\ L - l \in Nat /\ L - 1 - l \in Nat /\ l + 1 \in Nat /\ l + 1 <= L
  OBVIOUS
<1>2. PICK d \in Nat \ {0}, m \in Nat \ {0} : d = 2 ^ (L - l) /\ m = 2 ^ l
  BY <1>1, Pow2Type
<1>3. 2 ^ L = d * m
  <2>1. L = (L - l) + l
    BY <1>1
  <2> QED BY <1>1, <1>2, <2>1, Pow2Sum
<1>4. Shr(p, L - l) \in Nat /\ Shr(p, L - l) < m
  <2>1. Shr(p, L - l) \in Nat
    BY <1>1, ShrType
  <2>2. p < d * m
    BY <1>3
  <2>3. p \div d < m
    BY <2>2, Quotient
  <2> QED BY <1>2, <2>1, <2>3 DEF Shr
<1>5. 2 ^ (l + 1) = 2 * m /\ 2 ^ (l + 1) <= 2 ^ L /\ 2 ^ L \in Nat
  BY <1>1, <1>2, Pow2Succ, Pow2Grows, Pow2Type
<1>6. PICK g \in Nat : g = Shr(p, L - l)
  BY <1>4
<1>7. ArrayIdx(L, p, l) = g + m - 1
  BY <1>2, <1>6 DEF ArrayIdx
<1>8. RoleAtLevel(L, p, l) \in {0, 1}
  <2>1. PICK x \in Nat : x = Shr(p, L - 1 - l)
    BY <1>1, ShrType
  <2> QED BY <2>1 DEF RoleAtLevel
<1>9. ArrayIdx(L, p, 0) = 0
  <2>1. Shr(p, L) = 0
    <3>1. PICK e \in Nat \ {0} : e = 2 ^ L
      BY Pow2Type
    <3>2. p \div e = 0
      BY <3>1
    <3> QED BY <3>1, <3>2 DEF Shr
  <2>2. ArrayIdx(L, p, 0) = Shr(p, L) + 2 ^ 0 - 1
    BY DEF ArrayIdx
  <2> QED BY <2>1, <2>2
<1> QED BY <1>2, <1>4, <1>5, <1>6, <1>7, <1>8, <1>9

\* A lock belongs to one level.
LEMMA IdxLevel ==
  ASSUME NEW L \in Nat, NEW p \in Nat, p < 2 ^ L, NEW q \in Nat, q < 2 ^ L,
         NEW l \in 0 .. L - 1, NEW m \in 0 .. L - 1, ArrayIdx(L, p, l) = ArrayIdx(L, q, m)
  PROVE  l = m
<1>1. ASSUME NEW a \in 0 .. L - 1, NEW b \in 0 .. L - 1, a < b PROVE 2 ^ (a + 1) <= 2 ^ b
  BY <1>1, Pow2Grows
<1>2. /\ 2 ^ l - 1 <= ArrayIdx(L, p, l) /\ ArrayIdx(L, p, l) < 2 ^ (l + 1) - 1
      /\ 2 ^ m - 1 <= ArrayIdx(L, q, m) /\ ArrayIdx(L, q, m) < 2 ^ (m + 1) - 1
      /\ ArrayIdx(L, p, l) \in Nat
  BY IdxRange
<1>3. 2 ^ l \in Nat /\ 2 ^ m \in Nat /\ 2 ^ (l + 1) \in Nat /\ 2 ^ (m + 1) \in Nat
  BY Pow2Type
<1>4. ~(l < m)
  BY <1>1, <1>2, <1>3
<1>5. ~(m < l)
  BY <1>1, <1>2, <1>3
<1> QED BY <1>4, <1>5

\* Two processes with the same lock and role are one, or come from the same lock
\* one level below.
LEMMA SameRole ==
  ASSUME NEW L \in Nat, NEW p \in Nat, p < 2 ^ L, NEW q \in Nat, q < 2 ^ L,
         NEW l \in 0 .. L - 1, ArrayIdx(L, p, l) = ArrayIdx(L, q, l),
         RoleAtLevel(L, p, l) = RoleAtLevel(L, q, l)
  PROVE  IF l = L - 1 THEN p = q ELSE ArrayIdx(L, p, l + 1) = ArrayIdx(L, q, l + 1)
<1>1. PICK k \in Nat : k = L - 1 - l
  OBVIOUS
<1>2. L - l = k + 1 /\ L - (l + 1) = k
  BY <1>1
<1>3. PICK x \in Nat, y \in Nat : x = Shr(p, k) /\ y = Shr(q, k)
  BY ShrType
<1>4. Shr(p, L - l) = x \div 2 /\ Shr(q, L - l) = y \div 2
  BY <1>2, <1>3, ShrType
<1>5. x \div 2 = y \div 2
  <2>1. PICK m \in Nat : m = 2 ^ l
    BY Pow2Type
  <2>2. (x \div 2) + m - 1 = (y \div 2) + m - 1
    BY <1>4, <2>1 DEF ArrayIdx
  <2>3. x \div 2 \in Nat /\ y \div 2 \in Nat
    OBVIOUS
  <2> QED BY <2>2, <2>3
<1>6. x % 2 = y % 2
  BY <1>1, <1>3 DEF RoleAtLevel
<1>7. x = y
  BY <1>5, <1>6
<1>8. CASE l = L - 1
  <2>1. k = 0
    BY <1>1, <1>8
  <2> QED BY <1>3, <1>7, <1>8, <2>1, ShrType
<1>9. CASE l # L - 1
  BY <1>2, <1>3, <1>7, <1>9 DEF ArrayIdx
<1> QED BY <1>8, <1>9

\* The shifts and masks of the tree's functions climb the tree as TreeArithmetic says.
LEMMA TreeArithmeticHolds == TreeArithmetic
BY IdxRange, IdxLevel, SameRole DEF TreeArithmetic

-----------------------------------------------------------------------------
(* The results.                                                            *)

\* The program starts with the invariant, whatever earlier runs left in the table.
LEMMA TreeInvInit == TInit => TreeInv
<1> SUFFICES ASSUME TInit PROVE TreeInv
  OBVIOUS
<1>1. 0 \in Proc /\ at[0] = "start" /\ \A p \in Proc : p # 0 => at[p] = "unborn"
  BY Bounds DEF TInit
<1>2. waiting = {} /\ held = {} /\ ids = <<>> /\ forked = 0
  BY DEF TInit
<1>3. \A i \in Id : ptable[i] \in {Fresh, Unused}
  BY DEF TInit
<1>4. TypeOK
  <2>1. ptable \in [Id -> Slot]
    BY CleanSlots DEF TInit
  <2> QED BY <2>1, ResultRange DEF TInit, TypeOK
<1>5. IndInv
  <2>1. InactiveIsReset
    BY <1>3 DEF InactiveIsReset, Fresh
  <2>2. FlagHasClaimant
    BY <1>3, CleanSlots DEF FlagHasClaimant
  <2> QED BY <1>2, <1>4, <2>1, <2>2 DEF IndInv, ClaimFlagged, ClaimUnique, TurnKept
<1>6. TTypeOK
  BY <1>4, Bounds DEF TInit, TTypeOK, At
<1>7. Stages
  BY <1>1, <1>2, Bounds DEF Stages
<1>8. OwnLocks
  BY <1>2 DEF OwnLocks
<1>9. PathHeld /\ WaitsOnPath
  BY <1>1, <1>2 DEF PathHeld, WaitsOnPath, InTree
<1> QED BY <1>5, <1>6, <1>7, <1>8, <1>9, TreeArithmeticHolds DEF TreeInv

\* Whatever the number of processes, whatever earlier runs left in the table, and
\* wherever malloc, peterson_create or fork fails or a process is killed: nobody
\* competes on a part of a tree, who is in the critical section holds its whole path
\* to the root, and there is one such process at most.
THEOREM TreeExcludesHolds == TSpec => []TreeExcludes
<1>1. TreeInv => TreeExcludes
  BY OneIn, PathIsHeld, Complete DEF TreeInv, TreeExcludes
<1> QED BY <1>1, TreeInvInit, TreeInvNext, PTL DEF TSpec

\* tournament_acquire and tournament_release keep to the protocol of the Peterson
\* locks: no two processes use one role of a lock, and only holders release.
THEOREM KeepsDisciplineHolds == TSpec => KeepsDiscipline
BY TreeInvInit, TreeInvNext, StepIsDisciplined, PTL DEF TSpec, KeepsDiscipline
====
