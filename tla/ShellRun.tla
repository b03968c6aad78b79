------------------------------ MODULE ShellRun ------------------------------
(***************************************************************************)
(* How the shell runs a command (user/sh.c): runcmd() in each process, the *)
(* descriptors it opens, moves and closes around pipe() and fork(), and    *)
(* the waits.  A step is one system call that other processes can see, the *)
(* calls on a process's own descriptors before or after it included.  A    *)
(* program whose input is a pipe reads it to its end, the worst case for   *)
(* whoever waits.  Commands are trees of module ShellParse; the kernel's   *)
(* part (fork, wait, pipe ends) is as in modules Proc, FileTable and Pipe. *)
(***************************************************************************)
EXTENDS ShellParse

CONSTANTS NPROCS,       \* processes; 1 is the shell
          NFDS,         \* descriptors of a process
          RunLines      \* lines that may be typed

VARIABLES ps,           \* process -> [pc, cmd, fds, parent]
          typed         \* the command that runs; <<>> before
runVars == <<ps, typed>>

Pids == 1 .. NPROCS
Fds == 0 .. NFDS - 1
Pipes == 1 .. NPROCS
Obj(kind, k) == [kind |-> kind, k |-> k]
Closed == Obj("closed", 0)
Console3 == [fd \in Fds |-> IF fd < 3 THEN Obj("tty", 0) ELSE Closed]
AllClosed == [fd \in Fds |-> Closed]
NoProcess == [pc |-> "free", cmd |-> <<>>, fds |-> AllClosed, parent |-> 0]

(* main() has made sure that descriptors 0, 1 and 2 are open.              *)
RunInit ==
  /\ ps = [p \in Pids |-> IF p = 1 THEN [pc |-> "prompt", cmd |-> <<>>, fds |-> Console3, parent |-> 0]
                          ELSE NoProcess]
  /\ typed = <<>>

-----------------------------------------------------------------------------
Lowest(fds) == Min({fd \in Fds : fds[fd] = Closed})
OpenAs(fds, o) == [fds EXCEPT ![Lowest(fds)] = o]
Close(fds, S) == [fd \in Fds |-> IF fd \in S THEN Closed ELSE fds[fd]]
Holds(p, o) == \E fd \in Fds : ps[p].fds[fd] = o
FreePids == {p \in Pids : ps[p].pc = "free"}
FreePipe == Min({k \in Pipes : ~\E p \in Pids : Holds(p, Obj("r", k)) \/ Holds(p, Obj("w", k))})
FdOf(p, kind) == Max({fd \in Fds : ps[p].fds[fd].kind = kind})

(* exit(): descriptors are closed, children go to init, which waits for    *)
(* its zombies; the parent finds the others.                               *)
Orphaned(t, p) == [q \in Pids |->
  IF t[q].parent # p \/ t[q].pc = "free" THEN t[q]
  ELSE IF t[q].pc = "zombie" THEN NoProcess ELSE [t[q] EXCEPT !.parent = 0]]
Exited(p) ==
  IF ps[p].parent = 0 /\ p # 1 THEN Orphaned([ps EXCEPT ![p] = NoProcess], p)
  ELSE Orphaned([ps EXCEPT ![p] = [@ EXCEPT !.pc = "zombie", !.cmd = <<>>, !.fds = AllClosed]], p)

(* fork1(): the child starts at pc with a copy of the descriptors.         *)
Forked(p, pcParent, pcChild, cmd) ==
  LET c == Min(FreePids)
  IN  [ps EXCEPT ![p].pc = pcParent,
                 ![c] = [pc |-> pcChild, cmd |-> cmd, fds |-> ps[p].fds, parent |-> p]]
IsAt(p, pc) == ps[p].pc = pc
Interprets(p, kind) == IsAt(p, "run") /\ ps[p].cmd[1] = kind

(* main(): a line is read, a child parses and runs it, the shell waits.    *)
Prompt(l) ==
  /\ IsAt(1, "prompt") /\ typed = <<>>
  /\ typed' = ParseCmd(l)
  /\ ps' = Forked(1, "wait", "run", ParseCmd(l))
(* Without input, or without a child, the shell exits.                     *)
ShellExits ==
  /\ IsAt(1, "prompt") /\ typed = <<>>
  /\ typed' = Wrong
  /\ ps' = [ps EXCEPT ![1] = NoProcess]
RunWait(p) ==
  /\ ps[p].pc \in {"wait", "listwait", "wait1", "wait2"}
  /\ \E c \in Pids : ps[c].parent = p /\ IsAt(c, "zombie")
  /\ LET c == Min({q \in Pids : ps[q].parent = p /\ IsAt(q, "zombie")})
         next == CASE IsAt(p, "wait") -> "prompt" [] IsAt(p, "listwait") -> "run"
                   [] IsAt(p, "wait2") -> "wait1" [] IsAt(p, "wait1") -> "exit"
     IN  ps' = [ps EXCEPT ![c] = NoProcess, ![p].pc = next,
                          ![p].cmd = IF IsAt(p, "listwait") THEN @[3] ELSE @]
  /\ UNCHANGED typed

(* runcmd() *)
SyntaxError(p) == Interprets(p, "error") /\ ps' = Exited(p) /\ UNCHANGED typed
RunExec(p) ==
  /\ Interprets(p, "exec")
  /\ ps' = IF ps[p].cmd[2] = <<>> THEN Exited(p) ELSE [ps EXCEPT ![p].pc = "prog"]
  /\ UNCHANGED typed
\* bug: runcmd(cmd) instead of runcmd(rcmd->cmd)
RunRedirAgain(p) ==
  /\ Interprets(p, "redir")
  /\ LET fd == IF ps[p].cmd[2] = "<" THEN 0 ELSE 1
     IN  ps' = [ps EXCEPT ![p].fds = OpenAs(Close(@, {fd}), Obj("file", 0))]
  /\ UNCHANGED typed
RunRedir(p) ==
  /\ Interprets(p, "redir")
  /\ LET fd == IF ps[p].cmd[2] = "<" THEN 0 ELSE 1
     IN  ps' = [ps EXCEPT ![p].fds = OpenAs(Close(@, {fd}), Obj("file", 0)), ![p].cmd = @[4]]
  /\ UNCHANGED typed
\* bug: no wait()
RunListNoWait(p) ==
  /\ Interprets(p, "list")
  /\ ps' = [Forked(p, "run", "run", ps[p].cmd[2]) EXCEPT ![p].cmd = ps[p].cmd[3]]
  /\ UNCHANGED typed
RunList(p) ==
  /\ Interprets(p, "list") /\ ps' = Forked(p, "listwait", "run", ps[p].cmd[2]) /\ UNCHANGED typed
RunBack(p) ==
  /\ Interprets(p, "back") /\ ps' = Forked(p, "exit", "run", ps[p].cmd[2]) /\ UNCHANGED typed
RunPipe(p) ==
  /\ Interprets(p, "pipe")
  /\ ps' = [ps EXCEPT ![p].pc = "left",
                      ![p].fds = OpenAs(OpenAs(@, Obj("r", FreePipe)), Obj("w", FreePipe))]
  /\ UNCHANGED typed
ForkLeft(p) ==
  /\ IsAt(p, "left") /\ ps' = Forked(p, "right", "isleft", ps[p].cmd[2]) /\ UNCHANGED typed
ForkRight(p) ==
  /\ IsAt(p, "right") /\ ps' = Forked(p, "close", "isright", ps[p].cmd[3]) /\ UNCHANGED typed

(* The children put their end of the pipe where it belongs, by dup(), and  *)
(* close what they do not need; the parent closes both ends.               *)
Ends(p) == {FdOf(p, "r"), FdOf(p, "w")}
\* bug: the other end of the pipe stays open
RedirectedOneEnd(p, fd, end) ==
  Close([Close(ps[p].fds, {fd}) EXCEPT ![Lowest(Close(ps[p].fds, {fd}))] = ps[p].fds[FdOf(p, end)]],
        {FdOf(p, end)})
Redirected(p, fd, end) ==
  Close([Close(ps[p].fds, {fd}) EXCEPT ![Lowest(Close(ps[p].fds, {fd}))] = ps[p].fds[FdOf(p, end)]], Ends(p))
\* bug: the pipe becomes its input
BeLeftSwapped(p) ==
  /\ IsAt(p, "isleft")
  /\ ps' = [ps EXCEPT ![p].pc = "run", ![p].fds = Redirected(p, 0, "w")]
  /\ UNCHANGED typed
BeLeft(p) ==
  /\ IsAt(p, "isleft")
  /\ ps' = [ps EXCEPT ![p].pc = "run", ![p].fds = Redirected(p, 1, "w")]
  /\ UNCHANGED typed
BeRight(p) ==
  /\ IsAt(p, "isright")
  /\ ps' = [ps EXCEPT ![p].pc = "run", ![p].fds = Redirected(p, 0, "r")]
  /\ UNCHANGED typed
ClosePipe(p) ==
  /\ IsAt(p, "close")
  /\ ps' = [ps EXCEPT ![p].pc = "wait2", ![p].fds = Close(@, Ends(p))]
  /\ UNCHANGED typed
RunExit(p) == IsAt(p, "exit") /\ ps' = Exited(p) /\ UNCHANGED typed

(* fork(), open(), pipe() or exec() fails: the process gives up, and is no *)
(* longer there to wait for the children it has.                           *)
GiveUp(p) ==
  /\ p # 1
  /\ ps[p].pc \in {"left", "right"} \/ (IsAt(p, "run") /\ ps[p].cmd[1] # "error")
  /\ ps' = Exited(p) /\ UNCHANGED typed

(* A program reads its input to the end if that is a pipe, and exits.      *)
ProgramEnds(p) ==
  /\ IsAt(p, "prog")
  /\ LET in == ps[p].fds[0]
     IN  in.kind = "r" => ~\E q \in Pids : Holds(q, Obj("w", in.k))
  /\ ps' = Exited(p) /\ UNCHANGED typed

RunStep(p) ==
  \/ RunWait(p) \/ SyntaxError(p) \/ RunExec(p) \/ RunRedir(p) \/ RunList(p) \/ RunBack(p)
  \/ RunPipe(p) \/ ForkLeft(p) \/ ForkRight(p) \/ BeLeft(p) \/ BeRight(p)
  \/ ClosePipe(p) \/ RunExit(p) \/ ProgramEnds(p)
RunQuiet == typed # <<>> /\ (\A p \in Pids : ps[p].pc \in {"prompt", "free"}) /\ UNCHANGED runVars

RunNext ==
  \/ \E l \in RunLines : Prompt(l)
  \/ ShellExits
  \/ \E p \in Pids : RunStep(p) \/ GiveUp(p)
  \/ RunQuiet

(* Every process gets to run; fork() and open() need not fail.             *)
RunFairness == \A p \in Pids : WF_runVars(RunStep(p))
RunSpec == RunInit /\ [][RunNext]_runVars /\ RunFairness
-----------------------------------------------------------------------------
(* A program starts with descriptors 0, 1 and 2 and no others: an end of a *)
(* pipe left open in it would keep another program from seeing the end.    *)
OnlyThreeDescriptors ==
  \A p \in Pids : IsAt(p, "prog") => {fd \in Fds : ps[p].fds[fd] # Closed} = 0 .. 2

(* Who feeds whom: the programs that a tree leaves with its own output, or *)
(* input, and the pairs that its pipes connect.                            *)
RECURSIVE Outs(_), Ins(_), Feeds(_)
Outs(t) == CASE t[1] = "exec" -> {t}
             [] t[1] = "redir" -> IF t[2] = "<" THEN Outs(t[4]) ELSE {}
             [] t[1] = "back" -> Outs(t[2])
             [] t[1] = "pipe" -> Outs(t[3])
             [] t[1] = "list" -> Outs(t[2]) \cup Outs(t[3])
Ins(t) == CASE t[1] = "exec" -> {t}
            [] t[1] = "redir" -> IF t[2] = "<" THEN {} ELSE Ins(t[4])
            [] t[1] = "back" -> Ins(t[2])
            [] t[1] = "pipe" -> Ins(t[2])
            [] t[1] = "list" -> Ins(t[2]) \cup Ins(t[3])
Feeds(t) == CASE t[1] = "exec" -> {}
              [] t[1] = "redir" -> Feeds(t[4])
              [] t[1] = "back" -> Feeds(t[2])
              [] t[1] = "pipe" -> Feeds(t[2]) \cup Feeds(t[3]) \cup (Outs(t[2]) \X Ins(t[3]))
              [] t[1] = "list" -> Feeds(t[2]) \cup Feeds(t[3])

(* Two programs share a pipe, the first writing and the second reading,    *)
(* exactly when the command connects them.                                 *)
Connected(p, q) == ps[p].fds[1].kind = "w" /\ ps[q].fds[0] = Obj("r", ps[p].fds[1].k)
PlumbingMatchesCommand ==
  \A p, q \in Pids : IsAt(p, "prog") /\ IsAt(q, "prog") =>
    (Connected(p, q) <=> <<ps[p].cmd, ps[q].cmd>> \in Feeds(typed))

(* In "x ; y" nothing of y runs before all of x that is not put in the     *)
(* background has ended.                                                   *)
RECURSIVE Foreground(_), AllOf(_), Sequences2(_)
Foreground(t) == CASE t[1] = "exec" -> {t}
                   [] t[1] = "redir" -> Foreground(t[4])
                   [] t[1] = "back" -> {}
                   [] OTHER -> Foreground(t[2]) \cup Foreground(t[3])
AllOf(t) == CASE t[1] = "exec" -> {t}
              [] t[1] = "redir" -> AllOf(t[4])
              [] t[1] = "back" -> AllOf(t[2])
              [] OTHER -> AllOf(t[2]) \cup AllOf(t[3])
Sequences2(t) == CASE t[1] = "exec" -> {}
                   [] t[1] = "redir" -> Sequences2(t[4])
                   [] t[1] = "back" -> Sequences2(t[2])
                   [] t[1] = "pipe" -> Sequences2(t[2]) \cup Sequences2(t[3])
                   [] t[1] = "list" -> Sequences2(t[2]) \cup Sequences2(t[3]) \cup (Foreground(t[2]) \X AllOf(t[3]))
ListInOrder ==
  \A p, q \in Pids : IsAt(p, "prog") /\ IsAt(q, "prog") => <<ps[p].cmd, ps[q].cmd>> \notin Sequences2(typed)

(* A command runs as it is written: each program has its three descriptors *)
(* and no end of a pipe beside them, pipes connect what "|" connects, and  *)
(* what follows ";" waits for what is before it (runcmd(), sh.c:75-135).   *)
RunsAsWritten == OnlyThreeDescriptors /\ PlumbingMatchesCommand /\ ListInOrder

(* The shell's wait() ends: with every end of a pipe closed in time, no    *)
(* program of a pipeline waits for input for ever.                         *)
PromptReturns == IsAt(1, "wait") ~> IsAt(1, "prompt")
=============================================================================
