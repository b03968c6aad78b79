----------------------------- MODULE AtomicDisk -----------------------------
(***************************************************************************)
(* What the log promises (the opening comment of kernel/log.c): the writes *)
(* of file system calls become durable all together, at a moment when no   *)
(* call is active, and a crash goes back to the last such moment.          *)
(***************************************************************************)
CONSTANTS Proc, Block, Value, Blank

VARIABLES mem,      \* what reads see
          durable,  \* what a crash leaves
          active    \* the processes inside a file system call

vars == <<mem, durable, active>>

Init == mem = [b \in Block |-> Blank] /\ durable = mem /\ active = {}

Begin(p) == p \notin active /\ active' = active \cup {p} /\ UNCHANGED <<mem, durable>>

Write(p, b, v) == p \in active /\ mem' = [mem EXCEPT ![b] = v] /\ UNCHANGED <<durable, active>>

End(p) == p \in active /\ active' = active \ {p} /\ UNCHANGED <<mem, durable>>

Commit == active = {} /\ durable' = mem /\ UNCHANGED <<mem, active>>

Crash == mem' = durable /\ active' = {} /\ UNCHANGED durable

Next ==
  \/ \E p \in Proc : Begin(p) \/ End(p) \/ \E b \in Block, v \in Value : Write(p, b, v)
  \/ Commit \/ Crash

Safety == Init /\ [][Next]_vars
=============================================================================
