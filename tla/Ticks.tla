------------------------------- MODULE Ticks --------------------------------
(***************************************************************************)
(* The clock and sys_sleep() (kernel/trap.c clockintr, kernel/sysproc.c).  *)
(* ticks is an unsigned int that wraps; sys_sleep() compares the ticks     *)
(* gone by with its int argument, which C converts to unsigned, so that a  *)
(* negative argument is a very long sleep.                                 *)
(***************************************************************************)
EXTENDS Integers

CONSTANTS Sleepers,     \* processes that call sleep()
          TickRange     \* range of a uint, even

ASSUME TickAssumption == TickRange \in Nat \ {0} /\ TickRange % 2 = 0

Ints == -(TickRange \div 2) .. TickRange \div 2 - 1

VARIABLES ticks,
          zz,           \* process -> [pc, n, ticks0, waited]
          hit           \* processes with p->killed set
tickVars == <<ticks, zz, hit>>

Awake == [pc |-> "awake", n |-> 0, ticks0 |-> 0, waited |-> 0]
Unsigned(n) == n % TickRange
Since(t, t0) == (t - t0) % TickRange

TickInit ==
  /\ ticks = 0
  /\ zz = [p \in Sleepers |-> Awake]
  /\ hit = {}

\* bug: no wakeup(&ticks)
ClockIntrSilent ==
  /\ ticks' = (ticks + 1) % TickRange
  /\ zz' = [p \in Sleepers |->
              IF zz[p].pc = "awake" THEN Awake
              ELSE [zz[p] EXCEPT !.waited = IF @ < TickRange THEN @ + 1 ELSE @]]
  /\ UNCHANGED hit
(* clockintr(): one more tick, and every sleeper is woken to look.         *)
(* waited counts the ticks a call has really seen, up to TickRange.        *)
ClockIntr ==
  /\ ticks' = (ticks + 1) % TickRange
  /\ zz' = [p \in Sleepers |->
              IF zz[p].pc = "awake" THEN Awake
              ELSE [zz[p] EXCEPT !.pc = IF @ = "asleep" THEN "loop" ELSE @,
                                 !.waited = IF @ < TickRange THEN @ + 1 ELSE @]]
  /\ UNCHANGED hit

SleepCall(p, n) ==
  /\ zz[p] = Awake
  /\ zz' = [zz EXCEPT ![p] = [pc |-> "loop", n |-> n, ticks0 |-> ticks, waited |-> 0]]
  /\ UNCHANGED <<ticks, hit>>

\* bug: the test is ticks < ticks0 + n
StillBeforeEnd(p) == ticks < Unsigned(zz[p].ticks0 + zz[p].n)
(* The test ticks - ticks0 < n, unsigned. *)
StillSleepy(p) == Since(ticks, zz[p].ticks0) < Unsigned(zz[p].n)

SleepReturn(p) ==
  /\ zz[p].pc = "loop"
  /\ ~StillSleepy(p) \/ p \in hit
  /\ zz' = [zz EXCEPT ![p] = Awake]
  /\ UNCHANGED <<ticks, hit>>

(* killed() is tested before sleep(); tickslock keeps the clock out in     *)
(* between, but not kill().                                                *)
SleepSleep(p) ==
  /\ zz[p].pc = "loop" /\ StillSleepy(p)
  /\ p \notin hit
  /\ \/ UNCHANGED hit
     \/ hit' = hit \cup {p}
  /\ zz' = [zz EXCEPT ![p].pc = "asleep"]
  /\ UNCHANGED ticks

KillSleeper(p) ==
  /\ p \notin hit
  /\ hit' = hit \cup {p}
  /\ zz' = [zz EXCEPT ![p].pc = IF @ = "asleep" THEN "loop" ELSE @]
  /\ UNCHANGED ticks

TickNext ==
  \/ ClockIntr
  \/ \E p \in Sleepers :
       \/ \E n \in Ints : SleepCall(p, n)
       \/ SleepReturn(p) \/ SleepSleep(p) \/ KillSleeper(p)

(* The clock ticks.  A woken process runs before the counter has gone all  *)
(* the way round, 2^31 ticks or more for an argument that is not negative. *)
TickFairness ==
  /\ WF_tickVars(ClockIntr)
  /\ \A p \in Sleepers : SF_tickVars(SleepReturn(p)) /\ WF_tickVars(SleepSleep(p))

TickSpec == TickInit /\ [][TickNext]_tickVars /\ TickFairness
-----------------------------------------------------------------------------
(* sleep(n) lasts at least n ticks, and a negative n at least 2^32 - |n|,  *)
(* wherever the counter wraps, unless the process is killed                *)
(* (sysproc.c:60, unsigned subtraction and comparison).                    *)
SleepsLongEnough ==
  [][zz' # zz => \A p \in Sleepers :
       zz[p].pc # "awake" /\ zz'[p].pc = "awake" /\ p \notin hit =>
         zz[p].waited >= IF zz[p].n < 0 THEN TickRange + zz[p].n ELSE zz[p].n]_tickVars

(* A sleeper is woken by every tick, so the one that ends its sleep finds  *)
(* it awake and it returns (trap.c:168); a killed one returns no later.    *)
SleepEnds == \A p \in Sleepers : zz[p].pc # "awake" ~> zz[p].pc = "awake"
=============================================================================
