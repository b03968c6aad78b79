------------------------------ MODULE Console -------------------------------
(***************************************************************************)
(* Console input (kernel/console.c): the interrupt handler edits a line in *)
(* a ring that consoleread() empties.  The handler is one action (it holds *)
(* cons.lock throughout), an iteration of consoleread() one or two, with   *)
(* cons.lock held from one to the next.  The indices are unsigned and wrap.*)
(***************************************************************************)
EXTENDS Integers, Sequences

CONSTANTS ConsReaders,          \* processes that read the console
          INPUT_BUF_SIZE,
          ConsWrap,             \* range of r, w, e; INPUT_BUF_SIZE divides it
          ReadSizes,            \* lengths passed to read()
          Unheld                \* cons.lock is not held

ASSUME ConsAssumption ==
  /\ INPUT_BUF_SIZE \in Nat \ {0} /\ ConsWrap > INPUT_BUF_SIZE
  /\ ConsWrap % INPUT_BUF_SIZE = 0 /\ Unheld \notin ConsReaders

VARIABLES cbuf, r, w, e,        \* struct cons
          conslock, rd,         \* reader -> [pc, n, target]
          readersKilled         \* readers with p->killed set
consVars == <<cbuf, r, w, e, conslock, rd, readersKilled>>

Off == [pc |-> "off", n |-> 0, target |-> 0]
Dist(a, b) == (b - a) % ConsWrap
At(i) == cbuf[i % INPUT_BUF_SIZE]

ConsInit ==
  /\ cbuf = [i \in 0 .. INPUT_BUF_SIZE - 1 |-> "a"]
  /\ r = 0 /\ w = 0 /\ e = 0
  /\ conslock = Unheld
  /\ rd = [p \in ConsReaders |-> Off]
  /\ readersKilled = {}

-----------------------------------------------------------------------------
(* consoleintr(c) *)
Handle ==
  /\ conslock = Unheld
  /\ UNCHANGED <<r, conslock, readersKilled>>

\* bug: nobody is woken
WokenNone == rd
\* bug: only one of the sleepers is woken
WokenFirst == [p \in ConsReaders |->
  IF rd[p].pc = "asleep" /\ \A q \in ConsReaders : rd[q].pc = "asleep" => p <= q
  THEN [rd[p] EXCEPT !.pc = "call"] ELSE rd[p]]
WokenReaders == [p \in ConsReaders |->
  IF rd[p].pc = "asleep" THEN [rd[p] EXCEPT !.pc = "call"] ELSE rd[p]]

(* ^U: back to the last newline or to w, whichever comes first. *)
KeptByKill == CHOOSE k \in 0 .. Dist(w, e) :
  /\ k = 0 \/ At(w + k - 1) = "nl"
  /\ \A j \in k + 1 .. Dist(w, e) : At(w + j - 1) # "nl"
CtrlU ==
  /\ Handle
  /\ e' = (w + KeptByKill) % ConsWrap
  /\ UNCHANGED <<cbuf, w, rd>>

\* bug: a backspace goes back beyond w
BackspaceAny ==
  /\ Handle
  /\ e' = (e - 1) % ConsWrap
  /\ UNCHANGED <<cbuf, w, rd>>
Backspace ==
  /\ Handle
  /\ e' = IF e # w THEN (e - 1) % ConsWrap ELSE e
  /\ UNCHANGED <<cbuf, w, rd>>

(* A character to keep; carriage return is stored as newline. *)
Key(k) ==
  /\ Handle
  /\ LET c == IF k = "cr" THEN "nl" ELSE k
     IN  IF k # "nul" /\ Dist(r, e) < INPUT_BUF_SIZE
         THEN /\ cbuf' = [cbuf EXCEPT ![e % INPUT_BUF_SIZE] = c]
              /\ e' = (e + 1) % ConsWrap
              /\ IF c \in {"nl", "eof"} \/ Dist(r, e') = INPUT_BUF_SIZE
                 THEN w' = e' /\ rd' = WokenReaders
                 ELSE UNCHANGED <<w, rd>>
         ELSE UNCHANGED <<cbuf, e, w, rd>>

(* consoleread(n) *)
ReadCall(p, n) ==
  /\ rd[p] = Off
  /\ rd' = [rd EXCEPT ![p] = [pc |-> "call", n |-> n, target |-> n]]
  /\ UNCHANGED <<cbuf, r, w, e, conslock, readersKilled>>

ReadLock(p) ==
  /\ rd[p].pc = "call" /\ conslock = Unheld
  /\ conslock' = p
  /\ rd' = [rd EXCEPT ![p].pc = "loop"]
  /\ UNCHANGED <<cbuf, r, w, e, readersKilled>>

ReadReturn(p) == conslock' = Unheld /\ rd' = [rd EXCEPT ![p] = Off]

(* Nothing entered: give up if killed, else go to sleep; kill() can come   *)
(* between the two.                                                        *)
ReadKilled(p) ==
  /\ rd[p].pc = "loop" /\ rd[p].n > 0
  /\ r = w /\ p \in readersKilled
  /\ ReadReturn(p)
  /\ UNCHANGED <<cbuf, r, w, e, readersKilled>>

ReadEmpty(p) ==
  /\ rd[p].pc = "loop" /\ rd[p].n > 0
  /\ r = w /\ p \notin readersKilled
  /\ rd' = [rd EXCEPT ![p].pc = "checked"]
  /\ UNCHANGED <<cbuf, r, w, e, conslock, readersKilled>>

ReadSleep(p) ==
  /\ rd[p].pc = "checked"
  /\ conslock' = Unheld
  /\ rd' = [rd EXCEPT ![p].pc = "asleep"]
  /\ UNCHANGED <<cbuf, r, w, e, readersKilled>>

Saves(p) == At(r) = "eof" /\ rd[p].n < rd[p].target

(* One character.  ^D ends the read; it is left for the next one if this   *)
(* one has something to return.  A failing copyout ends the read too.      *)
ReadChar(p, copied) ==
  /\ rd[p].pc = "loop" /\ rd[p].n > 0
  /\ r # w
  /\ LET c    == At(r)
         left == rd[p].n - 1
     IN  /\ r' = IF Saves(p) THEN r ELSE (r + 1) % ConsWrap
         /\ IF c \in {"eof", "nl"} \/ ~copied \/ left = 0
            THEN ReadReturn(p)
            ELSE rd' = [rd EXCEPT ![p].n = left] /\ UNCHANGED conslock
  /\ UNCHANGED <<cbuf, w, e, readersKilled>>

KillReader(p) ==
  /\ p \notin readersKilled
  /\ readersKilled' = readersKilled \cup {p}
  /\ rd' = IF rd[p].pc = "asleep" THEN [rd EXCEPT ![p].pc = "call"] ELSE rd
  /\ UNCHANGED <<cbuf, r, w, e, conslock>>

ReadStep(p) ==
  \/ ReadLock(p) \/ ReadKilled(p) \/ ReadEmpty(p) \/ ReadSleep(p)
  \/ \E copied \in BOOLEAN : ReadChar(p, copied)

ConsNext ==
  \/ CtrlU \/ Backspace
  \/ \E k \in {"a", "cr", "nl", "eof", "nul"} : Key(k)
  \/ \E p \in ConsReaders :
       \/ \E n \in ReadSizes : ReadCall(p, n)
       \/ ReadStep(p) \/ KillReader(p)

(* A process that can run in the kernel runs, and gets cons.lock. *)
ConsFairness ==
  \A p \in ConsReaders : WF_consVars(ReadStep(p)) /\ SF_consVars(ReadLock(p))

ConsSpec == ConsInit /\ [][ConsNext]_consVars /\ ConsFairness
-----------------------------------------------------------------------------
(* The ring with its three wrapping indices implements the line editor:    *)
(* entered characters are never edited or overwritten, are read once and   *)
(* in order, and ^U takes the whole unfinished line (console.c:144-173).   *)
Between(a, b) == [i \in 1 .. Dist(a, b) |-> At(a + i - 1)]
Lines == INSTANCE LineInput WITH
  Room <- INPUT_BUF_SIZE, line <- Between(w, e), entered <- Between(r, w)
ImplementsLineInput == Lines!LineSpec

(* A read sleeps only while nothing has been entered: the handler wakes it *)
(* whenever it moves w, also when a long line fills the ring (line 168).   *)
NoReaderLeftAsleep ==
  conslock = Unheld => \A p \in ConsReaders : rd[p].pc = "asleep" => r = w

(* An end-of-file is used up only by a read that returns no bytes, so no   *)
(* reader misses one behind the text before it (console.c:101-108).        *)
EofEndsEmptyRead ==
  [][r' # r /\ At(r) = "eof" =>
       \A p \in ConsReaders : conslock = p => rd[p].n = rd[p].target]_consVars

(* Entered characters do not wait for ever beside a reader that is asleep  *)
(* or on its way: it returns or the ring runs empty under it.              *)
EnteredIsRead ==
  \A p \in ConsReaders :
    r # w /\ rd[p].pc # "off" ~> r = w \/ rd[p].pc = "off"
=============================================================================
