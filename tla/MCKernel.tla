------------------------------ MODULE MCKernel ------------------------------
(* All parts of the kernel that have a module of their own, side by side:  *)
(* those of MCKernelIO and the ones that keep files and memory.            *)
EXTENDS MCKernelIO, FileTable, MCFileSys, FileData, Memory, TLC

CONSTANTS i1, i2   \* the inodes of FileData
MCInodes == {i1, i2}

Sg(v, m, f, sh) == [vaddr |-> v, memsz |-> m, filesz |-> f, short |-> sh]
MCPrograms == { [segs |-> <<Sg(0, 2, 1, FALSE)>>, args |-> 1],
                [segs |-> <<Sg(0, 1, 1, FALSE), Sg(2, 3, 1, FALSE)>>, args |-> 2],
                [segs |-> <<Sg(0, 2, 1, FALSE), Sg(2, 1, 1, TRUE)>>, args |-> 1],
                [segs |-> <<Sg(0, 3, 1, FALSE)>>, args |-> 3],
                [segs |-> <<Sg(0, 2, 1, FALSE), Sg(3, 1, 1, FALSE)>>, args |-> 1],
                [segs |-> <<Sg(0, 2, 1, FALSE), Sg(30, 3, 1, FALSE)>>, args |-> 1],
                [segs |-> <<Sg(0, 0, 0, FALSE), Sg(0, 2, 1, FALSE)>>, args |-> 1] }
MCSbrk == {-20, -3, 1, 4}

keepVars == <<fileVars, fsVars, dataVars, memVars>>
kernelVars == <<ioVars, keepVars>>

(* A part that rests is in one of its initial states. Of the processes that *)
(* use names one starts in the root, and the other in /a/b if that is a    *)
(* directory; of the files with data one has the inode i1.                 *)
KernelInit ==
  /\ part \in IOParts \cup {"files", "names", "data", "memory"}
  /\ IOInit /\ FileInit /\ FsInit /\ DataInit /\ MemoryInit
  /\ part # "names" => dinode[3].type = "file" /\ \A p \in FsProc : pr[p].cwd = 1
  /\ \E p \in FsProc : pr[p].cwd = 1
  /\ dinode[3].type = "dir" => \E p \in FsProc : pr[p].cwd = 3
  /\ part # "data" => \A f \in DFile : fileIp[f] = i1
  /\ \E f \in DFile : fileIp[f] = i1

KernelNext ==
  \/ IONext /\ UNCHANGED keepVars
  \/ /\ UNCHANGED ioVars
     /\ \/ /\ part = "files" /\ FileNext
           /\ UNCHANGED <<fsVars, dataVars, memVars>>
        \/ /\ part = "names" /\ FsNext
           /\ UNCHANGED <<fileVars, dataVars, memVars>>
        \/ /\ part = "data" /\ DataNext
           /\ UNCHANGED <<fileVars, fsVars, memVars>>
        \/ /\ part = "memory" /\ MemoryNext
           /\ UNCHANGED <<fileVars, fsVars, dataVars>>

KernelSpec == KernelInit /\ [][KernelNext]_kernelVars

(* The processes p1 and p2 of several parts can be exchanged. *)
Symmetry == Permutations(FsProc)

-----------------------------------------------------------------------------
(* What the run of this module checks: the properties of the parts, each   *)
(* in the behaviours of its part; the comment of each conjunct in its      *)
(* module says what code is behind it.                                     *)

(* No wakeup is lost: nobody sleeps for disk descriptors (Virtio), in a    *)
(* pipe (Pipe), for a line (Console) or for space in the UART's ring       *)
(* (Uart) beside what it waits for.                                        *)
NobodyLeftAsleep ==
  /\ part = "disk" => NoLostDescriptorWakeup
  /\ part = "pipe" => NoLostPipeWakeup
  /\ part = "console" => NoReaderLeftAsleep
  /\ part = "uart" => NoWriterLeftAsleep

(* Bytes leave a pipe, and characters the UART, in the order they were put *)
(* in, none lost and none twice, although the counters wrap, several write *)
(* and uartputc_sync() takes no lock.                                      *)
StreamsInOrder ==
  /\ part = "pipe" => BytesInOrder
  /\ part = "uart" => OutputInOrder

(* What is taken is what is in use, after any failure half-way and any     *)
(* interleaving of release and reuse: descriptors and used entries of the  *)
(* disk, a pipe's page, files, pipe ends and inodes behind descriptors,    *)
(* pointers to inodes, blocks of files, pages of processes.                *)
ResourcesAccounted ==
  /\ part = "disk" => ChainsOwned /\ UsedEntriesAreLive
  /\ part = "pipe" => FreedWhenUnused
  /\ part = "files" => RefsMatchDescriptors /\ ObjectsMatchFiles
  /\ part = "names" => RefsCounted
  /\ part = "data" => BlocksAccounted
  /\ part = "memory" => MemoryAccounted

(* An inode has one entry in the table, which agrees with the disk while   *)
(* nobody has it locked, and the last iput() of a nameless inode finds its *)
(* sleep-lock free: it must not sleep with a spinlock held (FileSys).      *)
Fs_InodesSound == part = "names" => OneSlotPerInode /\ EntriesMatchDisk /\ IputNeverBlocks

(* No inode has fewer links than names, and names lead to inodes in use,   *)
(* but for the ".." of removed directories (FileSys).                      *)
Fs_NamesSound == part = "names" => LinksCoverNames /\ NoDanglingName

(* Every block below a file's size is there, whatever fell short, and a    *)
(* transaction of filewrite() changes no more blocks than it reserved      *)
(* (FileData).                                                             *)
Data_WritesSound == part = "data" => NoHoles /\ WithinReservation

(* No caller of vm.c breaks what its panics require, also out of memory,   *)
(* and copyin() and copyinstr() return the user's bytes or fail (Memory).  *)
Mem_CallsSound == part = "memory" => NoMemoryPanic /\ CopiesAreExact

(* Virtio: Driver and device make one transfer per call, before it returns. *)
Disk_ImplementsDiskIO ==
  DIO!DiskInit /\ [][part # "disk" \/ UNCHANGED DIO!diskVars \/ DIO!DiskNext]_DIO!diskVars

(* Console: The ring with its wrapping indices is a line editor, and an    *)
(* end-of-file is used up only by a read that returns nothing.             *)
Cons_ImplementsLineInput ==
  /\ Lines!LineInit /\ [][part = "console" => Lines!LineNext]_Lines!lineVars
  /\ EofEndsEmptyRead

(* FileData: Through bmap() files are sequences of bytes.                  *)
Data_ImplementsFiles == Content!ContentInit /\ [][part = "data" => Content!ContentNext]_Content!contentVars

(* Memory: Processes see private memory; fork() and exec() are all or      *)
(* nothing.                                                                *)
Mem_ImplementsSpaces == View!SpacesInit /\ [][part = "memory" => View!SpacesNext]_View!spaceVars
=============================================================================
