----------------------------- MODULE MCFileSys ------------------------------
(* Calls on a small tree for the names of the file system.                 *)
EXTENDS FileSys

Abs(names) == [abs |-> TRUE, names |-> names]
Rel(names) == [abs |-> FALSE, names |-> names]
FsOp(name, path) == [op |-> name, path |-> path]
MCCalls == { FsOp("open", Rel(<<"..">>)), FsOp("openw", Abs(<<"a", "b">>)),
             FsOp("create", Rel(<<"b">>)), FsOp("mkdir", Abs(<<"b">>)),
             FsOp("unlink", Abs(<<"a">>)), FsOp("unlink", Abs(<<"a", "b">>)),
             FsOp("chdir", Abs(<<"a">>)),
             [op |-> "link", path |-> Abs(<<"a", "b">>), new |-> Abs(<<"b">>)] }
=============================================================================
