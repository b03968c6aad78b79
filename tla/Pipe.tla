-------------------------------- MODULE Pipe --------------------------------
(***************************************************************************)
(* A pipe (kernel/pipe.c) between processes that share its two ends.  An   *)
(* iteration of a loop of pipewrite() or piperead() is one action, or two  *)
(* where kill() can come between the test of killed() and sleep(); the     *)
(* pipe's spinlock is held from one to the next.  Bytes are named by the   *)
(* order in which pipewrite() stored them.                                 *)
(***************************************************************************)
EXTENDS Integers, Sequences

CONSTANTS Writers, Readers,     \* processes with the write end, the read end
          PIPESIZE,
          Wrap,                 \* range of the uint counters; PIPESIZE divides it
          MaxBytes,             \* bound on the bytes written
          WriteLens, ReadLens,  \* lengths passed to write() and read()
          Free                  \* pi->lock is not held

ASSUME PipeAssumption ==
  /\ PIPESIZE \in Nat \ {0} /\ Wrap \in Nat /\ Wrap > PIPESIZE
  /\ Wrap % PIPESIZE = 0
  /\ Writers \cap Readers = {} /\ Free \notin Writers \cup Readers

VARIABLES nread, nwrite, pdata, readopen, writeopen,    \* struct pipe
          plock,        \* holder of pi->lock
          freed,        \* the page went back with kfree()
          op,           \* process -> [pc, left]: its read or write
          killed,       \* processes with p->killed set
          stored,       \* bytes ever stored
          got           \* bytes taken out, in order
pipeVars == <<nread, nwrite, pdata, readopen, writeopen, plock, freed, op,
              killed, stored, got>>

Ends == Writers \cup Readers
Out == [pc |-> "out", left |-> 0]       \* not in a call
Gone == [pc |-> "gone", left |-> 0]     \* has closed its descriptor

(* pipealloc() *)
PipeInit ==
  /\ nread = 0 /\ nwrite = 0 /\ pdata = [i \in 0 .. PIPESIZE - 1 |-> 0]
  /\ readopen = TRUE /\ writeopen = TRUE
  /\ plock = Free /\ freed = FALSE
  /\ op = [p \in Ends |-> Out]
  /\ killed = {}
  /\ stored = 0 /\ got = <<>>

-----------------------------------------------------------------------------
Empty == nread = nwrite
\* bug: the test comes one byte late
FullLate == nwrite = (nread + PIPESIZE + 1) % Wrap
Full == nwrite = (nread + PIPESIZE) % Wrap

(* wakeup(&pi->nread) concerns readers, wakeup(&pi->nwrite) writers. *)
Woken(o, S) == [p \in Ends |-> IF p \in S /\ o[p].pc = "asleep"
                               THEN [o[p] EXCEPT !.pc = "call"] ELSE o[p]]
Holds(p, pc) == op[p].pc = pc /\ plock = p

Call(p, n) ==
  /\ op[p] = Out
  /\ op' = [op EXCEPT ![p] = [pc |-> "call", left |-> n]]
  /\ UNCHANGED <<nread, nwrite, pdata, readopen, writeopen, plock, freed,
                 killed, stored, got>>

(* acquire(&pi->lock), also on the way out of sleep() *)
Acquire(p) ==
  /\ op[p].pc = "call" /\ plock = Free
  /\ plock' = p
  /\ op' = [op EXCEPT ![p].pc = "loop"]
  /\ UNCHANGED <<nread, nwrite, pdata, readopen, writeopen, freed, killed,
                 stored, got>>

Back(p, o) ==           \* release(&pi->lock) and return
  /\ plock' = Free
  /\ op' = [o EXCEPT ![p] = Out]

(* sleep() gives the lock up. *)
Sleep(p, o) ==
  /\ plock' = Free
  /\ op' = [o EXCEPT ![p].pc = "asleep"]

(* pipewrite() *)
WriteGiveUp(p) ==
  /\ Holds(p, "loop") /\ op[p].left > 0
  /\ ~readopen \/ p \in killed
  /\ Back(p, op)
  /\ UNCHANGED <<nread, nwrite, pdata, readopen, writeopen, freed, killed,
                 stored, got>>

WriteGoOn(p) ==
  /\ Holds(p, "loop") /\ op[p].left > 0
  /\ readopen /\ p \notin killed
  /\ op' = [op EXCEPT ![p].pc = "checked"]
  /\ UNCHANGED <<nread, nwrite, pdata, readopen, writeopen, plock, freed,
                 killed, stored, got>>

WriteFull(p) ==
  /\ Holds(p, "checked") /\ Full
  /\ Sleep(p, Woken(op, Readers))
  /\ UNCHANGED <<nread, nwrite, pdata, readopen, writeopen, freed, killed,
                 stored, got>>

WriteByte(p) ==
  /\ Holds(p, "checked") /\ ~Full
  /\ stored < MaxBytes
  /\ stored' = stored + 1
  /\ pdata' = [pdata EXCEPT ![nwrite % PIPESIZE] = stored']
  /\ nwrite' = (nwrite + 1) % Wrap
  /\ op' = [op EXCEPT ![p] = [pc |-> "loop", left |-> op[p].left - 1]]
  /\ UNCHANGED <<nread, readopen, writeopen, plock, freed, killed, got>>

(* All written, or copyin() failed. *)
WriteEnd(p) ==
  /\ \/ Holds(p, "loop") /\ op[p].left = 0
     \/ Holds(p, "checked") /\ ~Full
  /\ Back(p, Woken(op, Readers))
  /\ UNCHANGED <<nread, nwrite, pdata, readopen, writeopen, freed, killed,
                 stored, got>>

(* piperead() *)
ReadGiveUp(p) ==
  /\ Holds(p, "loop") /\ Empty /\ writeopen
  /\ p \in killed
  /\ Back(p, op)
  /\ UNCHANGED <<nread, nwrite, pdata, readopen, writeopen, freed, killed,
                 stored, got>>

\* bug: the loop goes on until there is a byte, also when no writer is left
ReadGoOnUntilByte(p) ==
  /\ Holds(p, "loop")
  /\ ~Empty \/ ~writeopen \/ p \notin killed
  /\ op' = [op EXCEPT ![p].pc = IF ~Empty THEN "copy" ELSE IF writeopen THEN "checked" ELSE @]
  /\ UNCHANGED <<nread, nwrite, pdata, readopen, writeopen, plock, freed,
                 killed, stored, got>>
ReadGoOn(p) ==
  /\ Holds(p, "loop")
  /\ ~Empty \/ ~writeopen \/ p \notin killed
  /\ op' = [op EXCEPT ![p].pc = IF Empty /\ writeopen THEN "checked" ELSE "copy"]
  /\ UNCHANGED <<nread, nwrite, pdata, readopen, writeopen, plock, freed,
                 killed, stored, got>>

ReadWait(p) ==
  /\ Holds(p, "checked")
  /\ Sleep(p, op)
  /\ UNCHANGED <<nread, nwrite, pdata, readopen, writeopen, freed, killed,
                 stored, got>>

(* A byte is taken before copyout(), which ends the loop if it fails. *)
ReadByte(p, copied) ==
  /\ Holds(p, "copy") /\ op[p].left > 0 /\ ~Empty
  /\ got' = Append(got, pdata[nread % PIPESIZE])
  /\ nread' = (nread + 1) % Wrap
  /\ op' = [op EXCEPT ![p].left = IF copied THEN @ - 1 ELSE 0]
  /\ UNCHANGED <<nwrite, pdata, readopen, writeopen, plock, freed, killed, stored>>

\* bug: no wakeup(&pi->nwrite)
ReadEndSilent(p) ==
  /\ Holds(p, "copy") /\ (op[p].left = 0 \/ Empty)
  /\ Back(p, op)
  /\ UNCHANGED <<nread, nwrite, pdata, readopen, writeopen, freed, killed,
                 stored, got>>
ReadEnd(p) ==
  /\ Holds(p, "copy") /\ (op[p].left = 0 \/ Empty)
  /\ Back(p, Woken(op, Writers))
  /\ UNCHANGED <<nread, nwrite, pdata, readopen, writeopen, freed, killed,
                 stored, got>>

(* Who is woken when the last descriptor on the side of peers is closed.   *)
WokenByClose(peers) == Woken(op, Ends \ peers)

\* bug: the first pipeclose() frees the pipe
EitherClosed(r, w) == ~r \/ ~w
(* fileclose(): the last descriptor of an end calls pipeclose(), which     *)
(* frees the pipe when the other end is closed already.                    *)
BothClosed(r, w) == ~r /\ ~w
Close(p) ==
  /\ op[p] = Out
  /\ LET peers == IF p \in Writers THEN Writers ELSE Readers
         last  == \A q \in peers \ {p} : op[q] = Gone
         r     == readopen /\ ~(last /\ p \in Readers)
         w     == writeopen /\ ~(last /\ p \in Writers)
     IN  /\ last => plock = Free
         /\ readopen' = r /\ writeopen' = w
         /\ freed' = (freed \/ (last /\ BothClosed(r, w)))
         /\ op' = [(IF last THEN WokenByClose(peers) ELSE op) EXCEPT ![p] = Gone]
  /\ UNCHANGED <<nread, nwrite, pdata, plock, killed, stored, got>>

(* kill(): the flag, and a sleeper made runnable. *)
KillEnd(p) ==
  /\ p \notin killed /\ op[p] # Gone
  /\ killed' = killed \cup {p}
  /\ op' = Woken(op, {p})
  /\ UNCHANGED <<nread, nwrite, pdata, readopen, writeopen, plock, freed,
                 stored, got>>

(* Every end is closed. *)
PipeQuiet == (\A p \in Ends : op[p] = Gone) /\ UNCHANGED pipeVars

WriterStep(p) ==
  WriteGiveUp(p) \/ WriteGoOn(p) \/ WriteFull(p) \/ WriteByte(p) \/ WriteEnd(p)
ReaderStep(p) ==
  \/ ReadGiveUp(p) \/ ReadGoOn(p) \/ ReadWait(p) \/ ReadEnd(p)
  \/ \E copied \in BOOLEAN : ReadByte(p, copied)
InCall(p) ==
  \/ Acquire(p)
  \/ p \in Writers /\ WriterStep(p)
  \/ p \in Readers /\ ReaderStep(p)

PipeNext ==
  \/ \E p \in Writers, n \in WriteLens : Call(p, n)
  \/ \E p \in Readers, n \in ReadLens : Call(p, n)
  \/ \E p \in Ends : InCall(p) \/ Close(p) \/ KillEnd(p)
  \/ PipeQuiet

(* A runnable process in the kernel runs, and a spinlock is eventually     *)
(* had: its holders never sleep with it.                                   *)
PipeFairness ==
  \A p \in Ends : WF_pipeVars(InCall(p)) /\ SF_pipeVars(Acquire(p))

PipeSpec == PipeInit /\ [][PipeNext]_pipeVars /\ PipeFairness
-----------------------------------------------------------------------------
(* Bytes come out in the order they went in, none lost, none twice, with   *)
(* the counters wrapping and any number of readers and writers; what was   *)
(* stored and not taken is exactly what is in the ring (pipe.c:88-123).    *)
BytesInOrder ==
  /\ \A i \in DOMAIN got : got[i] = i
  /\ (nwrite - nread) % Wrap = stored - Len(got)
  /\ stored - Len(got) \in 0 .. PIPESIZE
  /\ \A i \in 1 .. stored - Len(got) :
       pdata[(nread + i - 1) % PIPESIZE] = Len(got) + i

(* With the lock free, a process sleeps in the pipe only while what it     *)
(* waits for has not happened: a writer while the pipe is full and a       *)
(* reader may come, a reader while there is nothing to read and a writer   *)
(* may come (pipe.c:88-90, 113-118).  The exception is pipewrite()'s early *)
(* return at line 86: a writer killed between two bytes leaves without the *)
(* wakeup of line 99, and a reader sleeps on beside what it stored.        *)
NoLostPipeWakeup ==
  plock = Free =>
    \A p \in Ends : op[p].pc = "asleep" =>
      IF p \in Writers THEN Full /\ readopen
      ELSE writeopen /\ (Empty \/ killed \cap Writers # {})

(* The pipe's page is freed once both ends are closed, when no process can *)
(* use it any more: nobody is in a call, and an open end keeps the page.   *)
FreedWhenUnused == freed <=> \A p \in Ends : op[p] = Gone

(* Closing the last write end gets every reader out of piperead(), closing *)
(* the last read end every writer out of pipewrite().                      *)
CloseEndsWaits ==
  /\ \A p \in Readers : ~writeopen ~> op[p].pc \in {"out", "gone"}
  /\ \A p \in Writers : ~readopen ~> op[p].pc \in {"out", "gone"}
=============================================================================
