---------------------------- MODULE FileContents ----------------------------
(***************************************************************************)
(* What files are to their users: a sequence of bytes for each inode, and  *)
(* open files with an offset of their own.  A write may stop early, when   *)
(* the disk is full or the user's buffer ends; what it has stored and its  *)
(* offset still agree, but a buffer that ends may have replaced some more  *)
(* of the bytes that the file already had.  A read gets what there is, up  *)
(* to the length asked for; nothing if that would end past all offsets.    *)
(***************************************************************************)
EXTENDS Integers, Sequences

CONSTANTS OpenFiles, Inode,     \* open files and inodes
          MaxLen,               \* longest file
          Value, Lengths,       \* what is written, and how much is read at once
          Range32               \* offsets are below it

VARIABLES contents,     \* inode -> sequence of values
          inodeOf,      \* open file -> inode
          offset,       \* open file -> offset
          got           \* what the last read asked for and returned
contentVars == <<contents, inodeOf, offset, got>>

ContentInit ==
  /\ contents = [i \in Inode |-> <<>>]
  /\ inodeOf \in [OpenFiles -> Inode]
  /\ offset = [f \in OpenFiles |-> 0]
  /\ got = [asked |-> 0, bytes |-> <<>>]

(* c with n values v from offset o on. *)
Over(c, o, n, v) == [k \in 1 .. (IF o + n > Len(c) THEN o + n ELSE Len(c)) |->
                       IF k > o /\ k <= o + n THEN v ELSE c[k]]

Replaced(c, o, n, v) == [k \in DOMAIN c |-> IF k > o /\ k <= o + n THEN v ELSE c[k]]

WriteBytes(f, v) ==
  LET i == inodeOf[f] IN
  /\ UNCHANGED <<inodeOf, got>>
  /\ offset[f] <= Len(contents[i])
  /\ \E w \in 0 .. MaxLen - offset[f] :
       /\ offset' = [offset EXCEPT ![f] = @ + w]
       /\ \E x \in w .. MaxLen - offset[f] :
            contents' = [contents EXCEPT ![i] = Replaced(Over(@, offset[f], w, v), offset[f], x, v)]

Least(a, b) == IF a < b THEN a ELSE b
ReadBytes(f, n) ==
  LET c == contents[inodeOf[f]] IN
  /\ UNCHANGED <<contents, inodeOf>>
  /\ got' = [asked |-> n,
             bytes |-> IF offset[f] + n >= Range32 THEN <<>>
                       ELSE SubSeq(c, offset[f] + 1, Least(offset[f] + n, Len(c)))]
  /\ offset' = [offset EXCEPT ![f] = @ + Len(got'.bytes)]

Truncate(i) ==
  /\ contents' = [contents EXCEPT ![i] = <<>>]
  /\ UNCHANGED <<inodeOf, offset, got>>

ContentNext ==
  \/ \E f \in OpenFiles, v \in Value : WriteBytes(f, v)
  \/ \E f \in OpenFiles, n \in Lengths : ReadBytes(f, n)
  \/ \E i \in Inode : Truncate(i)

ContentSpec == ContentInit /\ [][ContentNext]_contentVars
=============================================================================
