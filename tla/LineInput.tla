----------------------------- MODULE LineInput ------------------------------
(***************************************************************************)
(* What the console promises someone typing at it (kernel/console.c:1-9):  *)
(* characters collect in a line that can be edited until it is entered,    *)
(* and entered characters wait, out of the editor's reach, to be read.     *)
(***************************************************************************)
EXTENDS Integers, Sequences

CONSTANTS Room                  \* characters the console can keep

VARIABLES line,                 \* being edited
          entered               \* to be read
lineVars == <<line, entered>>

LineInit == line = <<>> /\ entered = <<>>

TypeChar(c) ==
  /\ Len(line) + Len(entered) < Room
  /\ LET l == Append(line, c)
     IN  IF c \in {"nl", "eof"} \/ Len(l) + Len(entered) = Room
         THEN line' = <<>> /\ entered' = entered \o l
         ELSE line' = l /\ UNCHANGED entered

EraseChar ==
  /\ line # <<>>
  /\ line' = SubSeq(line, 1, Len(line) - 1)
  /\ UNCHANGED entered

EraseLine == line' = <<>> /\ UNCHANGED entered

TakeChar == entered # <<>> /\ entered' = Tail(entered) /\ UNCHANGED line

LineNext == (\E c \in {"a", "nl", "eof"} : TypeChar(c))
            \/ EraseChar \/ EraseLine \/ TakeChar

LineSpec == LineInit /\ [][LineNext]_lineVars
=============================================================================
