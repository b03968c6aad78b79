----------------------------- MODULE FileTable ------------------------------
(***************************************************************************)
(* Open files: the system-wide table and its reference counts              *)
(* (kernel/file.c), the descriptors of processes and the calls that move   *)
(* them (kernel/sysfile.c: open, dup, close, pipe; kernel/proc.c: fork and *)
(* exit), and what a file refers to, pipes and inodes, whose last close    *)
(* happens after ftable.lock has been released.                            *)
(***************************************************************************)
EXTENDS Integers, FiniteSets, Sequences

CONSTANTS Procs, Init1,         \* processes and the one that runs first
          NFILE, NOFILE,        \* sizes of the file table, of a process's table
          Pipes, Inodes,        \* pages for pipes; inodes of files
          Root                  \* inode that is every process's cwd

ASSUME FileAssumption ==
  /\ Init1 \in Procs /\ NFILE \in Nat /\ NOFILE \in Nat /\ Root \notin Inodes

VARIABLES ref, type, obj,       \* struct file
          ofile,                \* process -> fd -> file or 0
          life,                 \* process -> "none", "runs" or "exits"
          todo,                 \* process -> ends of files it must still close
          iref,                 \* references to an inode
          readend, writeend     \* pipes whose ends are open
fileVars == <<ref, type, obj, ofile, life, todo, iref, readend, writeend>>

Files == 1 .. NFILE
Fds == 0 .. NOFILE - 1
NoFiles == [fd \in Fds |-> 0]

FileInit ==
  /\ ref = [f \in Files |-> 0]
  /\ type = [f \in Files |-> "none"]
  /\ obj = [f \in Files |-> Root]
  /\ ofile = [p \in Procs |-> NoFiles]
  /\ life = [p \in Procs |-> IF p = Init1 THEN "runs" ELSE "none"]
  /\ todo = [p \in Procs |-> <<>>]
  /\ iref = [i \in Inodes \cup {Root} |-> IF i = Root THEN 1 ELSE 0]
  /\ readend = {} /\ writeend = {}

-----------------------------------------------------------------------------
Runs(p) == life[p] = "runs" /\ todo[p] = <<>>
First(S) == CHOOSE i \in S : \A j \in S : i <= j
FreeFiles == {f \in Files : ref[f] = 0}         \* filealloc() takes the first
FreeFds(p) == {fd \in Fds : ofile[p][fd] = 0}   \* fdalloc() too
FreePipes == Pipes \ (readend \cup writeend)

(* sys_open() once it has the inode.  Without a file or a descriptor it    *)
(* gives up the reference to the inode, and the file if it had one.        *)
Open(p, i) ==
  /\ Runs(p) /\ FreeFiles # {} /\ FreeFds(p) # {}
  /\ LET f == First(FreeFiles)
     IN  /\ ref' = [ref EXCEPT ![f] = 1]
         /\ type' = [type EXCEPT ![f] = "inode"]
         /\ obj' = [obj EXCEPT ![f] = i]
         /\ ofile' = [ofile EXCEPT ![p][First(FreeFds(p))] = f]
         /\ iref' = [iref EXCEPT ![i] = @ + 1]
  /\ UNCHANGED <<life, todo, readend, writeend>>

OpenFails(p, i) ==
  /\ Runs(p) /\ (FreeFiles = {} \/ FreeFds(p) = {})
  /\ UNCHANGED fileVars

(* pipealloc() and then two descriptors. *)
PipeFiles(f0, f1, pi) ==
  /\ type' = [type EXCEPT ![f0] = "rpipe", ![f1] = "wpipe"]
  /\ obj' = [obj EXCEPT ![f0] = pi, ![f1] = pi]
  /\ readend' = readend \cup {pi} /\ writeend' = writeend \cup {pi}

MakePipe(p, pi) ==
  /\ Runs(p) /\ Cardinality(FreeFiles) >= 2 /\ Cardinality(FreeFds(p)) >= 2
  /\ pi \in FreePipes
  /\ LET f0 == First(FreeFiles)
         f1 == First(FreeFiles \ {f0})
         d0 == First(FreeFds(p))
         d1 == First(FreeFds(p) \ {d0})
     IN  /\ PipeFiles(f0, f1, pi)
         /\ ref' = [ref EXCEPT ![f0] = 1, ![f1] = 1]
         /\ ofile' = [ofile EXCEPT ![p][d0] = f0, ![p][d1] = f1]
  /\ UNCHANGED <<life, todo, iref>>

(* Too few files, no page, too few descriptors, or copyout() fails: the    *)
(* files go again, and with them the pipe if it was made.                  *)
PipeNoFile(p) ==
  /\ Runs(p) /\ (Cardinality(FreeFiles) < 2 \/ FreePipes = {})
  /\ UNCHANGED fileVars

\* bug: only the reading end is closed again
PipeHalfUndone(p, pi) ==
  /\ Runs(p) /\ Cardinality(FreeFiles) >= 2 /\ pi \in FreePipes
  /\ readend' = readend \cup {pi} /\ writeend' = writeend \cup {pi}
  /\ todo' = [todo EXCEPT ![p] = << <<"rpipe", pi>> >>]
  /\ UNCHANGED <<ref, type, obj, ofile, life, iref>>
PipeUndone(p, pi) ==
  /\ Runs(p) /\ Cardinality(FreeFiles) >= 2 /\ pi \in FreePipes
  /\ readend' = readend \cup {pi} /\ writeend' = writeend \cup {pi}
  /\ todo' = [todo EXCEPT ![p] = << <<"rpipe", pi>>, <<"wpipe", pi>> >>]
  /\ UNCHANGED <<ref, type, obj, ofile, life, iref>>

Dup(p, fd) ==
  /\ Runs(p) /\ ofile[p][fd] # 0 /\ FreeFds(p) # {}
  /\ ref' = [ref EXCEPT ![ofile[p][fd]] = @ + 1]
  /\ ofile' = [ofile EXCEPT ![p][First(FreeFds(p))] = ofile[p][fd]]
  /\ UNCHANGED <<type, obj, life, todo, iref, readend, writeend>>

(* fileclose(): under ftable.lock the count, and at zero the entry is free *)
(* for others; then, from a copy, the pipe's end or the inode.             *)
FileClose(p, f) ==
  /\ ref' = [ref EXCEPT ![f] = @ - 1]
  /\ type' = [type EXCEPT ![f] = IF ref[f] = 1 THEN "none" ELSE @]
  /\ todo' = IF ref[f] = 1 THEN [todo EXCEPT ![p] = << <<type[f], obj[f]>> >>] ELSE todo

CloseFd(p, fd) ==
  /\ todo[p] = <<>> /\ life[p] # "none"
  /\ ofile[p][fd] # 0
  /\ life[p] = "exits" => \A e \in Fds : e < fd => ofile[p][e] = 0
  /\ FileClose(p, ofile[p][fd])
  /\ ofile' = [ofile EXCEPT ![p][fd] = 0]
  /\ UNCHANGED <<obj, life, iref, readend, writeend>>

(* pipeclose() or iput(), one pending end at a time *)
LastClose(p) ==
  /\ todo[p] # <<>>
  /\ LET t == Head(todo[p])[1]
         o == Head(todo[p])[2]
     IN  /\ readend' = IF t = "rpipe" THEN readend \ {o} ELSE readend
         /\ writeend' = IF t = "wpipe" THEN writeend \ {o} ELSE writeend
         /\ iref' = IF t = "inode" THEN [iref EXCEPT ![o] = @ - 1] ELSE iref
  /\ todo' = [todo EXCEPT ![p] = Tail(@)]
  /\ UNCHANGED <<ref, type, obj, ofile, life>>

\* bug: a file open twice gets one reference
ForkOncePerFile(p, q) ==
  /\ Runs(p) /\ life[q] = "none"
  /\ ref' = [f \in Files |-> ref[f] + (IF \E fd \in Fds : ofile[p][fd] = f THEN 1 ELSE 0)]
  /\ ofile' = [ofile EXCEPT ![q] = ofile[p]]
  /\ life' = [life EXCEPT ![q] = "runs"]
  /\ iref' = [iref EXCEPT ![Root] = @ + 1]
  /\ UNCHANGED <<type, obj, todo, readend, writeend>>
(* fork(): the child gets a reference for every descriptor and the cwd. *)
Fork(p, q) ==
  /\ Runs(p) /\ life[q] = "none"
  /\ ref' = [f \in Files |-> ref[f] + Cardinality({fd \in Fds : ofile[p][fd] = f})]
  /\ ofile' = [ofile EXCEPT ![q] = ofile[p]]
  /\ life' = [life EXCEPT ![q] = "runs"]
  /\ iref' = [iref EXCEPT ![Root] = @ + 1]
  /\ UNCHANGED <<type, obj, todo, readend, writeend>>

(* exit(): its descriptors in turn (CloseFd), then the cwd. *)
Exit(p) ==
  /\ Runs(p) /\ p # Init1
  /\ life' = [life EXCEPT ![p] = "exits"]
  /\ UNCHANGED <<ref, type, obj, ofile, todo, iref, readend, writeend>>

ExitDone(p) ==
  /\ life[p] = "exits" /\ todo[p] = <<>> /\ ofile[p] = NoFiles
  /\ life' = [life EXCEPT ![p] = "none"]
  /\ iref' = [iref EXCEPT ![Root] = @ - 1]
  /\ UNCHANGED <<ref, type, obj, ofile, todo, readend, writeend>>

FileNext ==
  \E p \in Procs :
    \/ \E i \in Inodes : Open(p, i) \/ OpenFails(p, i)
    \/ \E pi \in Pipes : MakePipe(p, pi) \/ PipeUndone(p, pi)
    \/ PipeNoFile(p)
    \/ \E fd \in Fds : Dup(p, fd) \/ CloseFd(p, fd)
    \/ \E q \in Procs : Fork(p, q)
    \/ LastClose(p) \/ Exit(p) \/ ExitDone(p)

FileSpec == FileInit /\ [][FileNext]_fileVars
-----------------------------------------------------------------------------
(* A file's count is the number of descriptors that refer to it, in all    *)
(* processes: none is freed in use and none leaks, also by open() and      *)
(* pipe() that fail half-way and by fork() and exit() of sharers.          *)
RefsMatchDescriptors ==
  \A f \in Files :
    ref[f] = Cardinality({pd \in Procs \X Fds : ofile[pd[1]][pd[2]] = f})

(* A pipe's end is open, and an inode referenced, exactly as often as open *)
(* files and closes under way say: fileclose() releases ftable.lock before *)
(* it closes, and the table entry may be reused meanwhile (file.c:71-82).  *)
Pending(t, o) == {p \in Procs : \E k \in DOMAIN todo[p] : todo[p][k] = <<t, o>>}
OpenAs(t, o) == {f \in Files : ref[f] > 0 /\ type[f] = t /\ obj[f] = o}
ObjectsMatchFiles ==
  /\ \A pi \in Pipes :
       /\ Cardinality(OpenAs("rpipe", pi)) + Cardinality(Pending("rpipe", pi)) =
            IF pi \in readend THEN 1 ELSE 0
       /\ Cardinality(OpenAs("wpipe", pi)) + Cardinality(Pending("wpipe", pi)) =
            IF pi \in writeend THEN 1 ELSE 0
  /\ \A i \in Inodes :
       iref[i] = Cardinality(OpenAs("inode", i)) + Cardinality(Pending("inode", i))
  /\ iref[Root] = Cardinality({p \in Procs : life[p] # "none"})
=============================================================================
