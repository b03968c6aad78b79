------------------------------ MODULE FifoLock ------------------------------
(***************************************************************************)
(* What a lock of kernel/peterson.c promises to callers that keep to its   *)
(* protocol: locks are created and destroyed, at most two processes (one   *)
(* per role) compete for one, and they get it in the order in which they   *)
(* asked for it.                                                           *)
(***************************************************************************)
EXTENDS Naturals, Sequences

CONSTANTS Proc, Lock

VARIABLES live,      \* the locks that exist
          queue,     \* the competitors of each lock, in order of arrival
          granted    \* the locks whose first competitor has it

fvars == <<live, queue, granted>>

Init == live = {} /\ queue = [k \in Lock |-> <<>>] /\ granted = {}

Create(k) == k \notin live /\ live' = live \cup {k} /\ UNCHANGED <<queue, granted>>

Destroy(k) == k \in live /\ queue[k] = <<>> /\ live' = live \ {k} /\ UNCHANGED <<queue, granted>>

\* The competitor of an empty queue has the lock at once.
Request(p, k) ==
  /\ k \in live
  /\ Len(queue[k]) < 2
  /\ \A i \in 1 .. Len(queue[k]) : queue[k][i] # p
  /\ queue' = [queue EXCEPT ![k] = Append(@, p)]
  /\ granted' = IF queue[k] = <<>> THEN granted \cup {k} ELSE granted
  /\ UNCHANGED live

Grant(k) ==
  /\ queue[k] # <<>> /\ k \notin granted
  /\ granted' = granted \cup {k}
  /\ UNCHANGED <<live, queue>>

Release(k) ==
  /\ k \in granted
  /\ queue' = [queue EXCEPT ![k] = Tail(@)]
  /\ granted' = granted \ {k}
  /\ UNCHANGED live

Next == \E k \in Lock : \/ Create(k) \/ Destroy(k) \/ Grant(k) \/ Release(k)
                        \/ \E p \in Proc : Request(p, k)

Safety == Init /\ [][Next]_fvars
Progress == \A k \in Lock : WF_fvars(Grant(k))
=============================================================================
