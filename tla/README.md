# A verification of this xv6 with Peterson locks

The repository is an xv6 for RISC-V with four added system calls, a table of
Peterson locks, and a user library that builds a tournament tree from them. This
directory models the parts of it whose correctness depends on order,
concurrency, failure and crashes, checks them with TLC on small instances, and
proves the central ones with TLAPS for every size.

## The system and its models

| Part | Source | Modules |
|---|---|---|
| Peterson locks | `kernel/peterson.c` | `Peterson`, `PetersonSpin`; promise: `FifoLock` |
| Tournament tree | `user/libtournament.c`, `user/tournament.c` | `Tournament`, `TournamentTree`, `TreeWalk` |
| Processes, traps, init | `kernel/proc.c`, `trap.c`, `user/init.c` | `Proc` |
| Clock and sleep | `kernel/trap.c`, `sysproc.c` | `Ticks` |
| Spinlocks, interrupts | `kernel/spinlock.c` | `SpinLock` |
| Log | `kernel/log.c` | `Log`; promise: `AtomicDisk` |
| Buffer cache, sleep-locks | `kernel/bio.c`, `sleeplock.c` | `BCache`; promise: `BlockStore` |
| Disk driver and device | `kernel/virtio_disk.c` | `Virtio`; promise: `DiskIO` |
| Inodes, directories, path names | `kernel/fs.c`, `sysfile.c` | `FileSys` |
| File contents | `kernel/fs.c`, `file.c` | `FileData`; promise: `FileContents` |
| Open files and descriptors | `kernel/file.c`, `sysfile.c` | `FileTable` |
| Pipes | `kernel/pipe.c` | `Pipe` |
| Console, UART | `kernel/console.c`, `uart.c` | `Console`, `Uart`; promise: `LineInput` |
| Pages, page tables, exec | `kernel/kalloc.c`, `vm.c`, `exec.c` | `Memory`; promise: `Spaces` |
| malloc | `user/umalloc.c` | `UserHeap` |
| Shell | `user/sh.c` | `ShellParse`, `ShellRun` |

The parts meet as follows. The Peterson calls run in a process and wait with
`yield`; the tournament library calls them from processes made by `fork`. File
system calls run between `begin_op` and `end_op`; the log writes through the
buffer cache, and that through the disk driver. `DiskIO` is the seam between the
last two: `BCache` is built on its three steps and `Virtio` is shown to implement
them. `Tournament` extends `Peterson`, `ShellRun` extends `ShellParse`.
Everything that waits in the kernel, except the Peterson loop, does it with
`sleep` and `wakeup`, and each module has the sleeping and waking of its own
part.

`PROJECT.json` maps every definition to the lines it models, and lists the parts
that are not modelled and the hazards: what can go wrong in this code that a test
would hardly reach.

A definition after a comment `bug:` is a wrong variant of the one that
follows it, kept to show that the properties would notice; nothing uses it.

## Modules

### Peterson, FifoLock, PetersonSpin

`Peterson` has one action per system call and one, `Recheck`, for a turn of the
loop in `sys_peterson_acquire`: a stretch of code under a slot's spinlock is one
step. `ptable` is the table. `waiting` holds the calls inside the loop, `held`
the roles acquired and not released, `dead` the processes that have exited,
`doomed` the waiters whose lock has been destroyed, `ret` the last results. The
last five are not kernel variables: they are what the callers know.

There are three specifications. `Spec`: any process makes any call with any
argument, out-of-range ones included. `DisciplinedSpec`: a role of a lock is used
by one process at a time, only holders release, and a lock is destroyed only when
nobody uses it. The code does not enforce this, its users have to; `Tournament`
shows that the library does. `LateDestroySpec` is `DisciplinedSpec` except that a
lock may be destroyed at any time. A process may exit anywhere outside a call,
also while it holds a lock. It cannot be killed inside the loop, which does not
look at `killed`.

`FifoLock` is the promise: a queue of requests per lock, the head holds it, at
most one waits. `Peterson` refines it, with the queue read off `flag` and `turn`.

`PetersonSpin` has one action per statement: every `acquire` and `release` of
`ptable_lock` and of a slot's lock, and every write to a slot. It implements
`Peterson`, which justifies that module's coarser steps: a slot there is what the
slot here was when its lock was last released. Arguments are in range, and a
process releases only what it holds and acquires only when it holds nothing.

### TournamentTree, Tournament, TreeWalk

`TournamentTree` is the arithmetic of roles and array indices. `Tournament` is
the program and library of each process, with a step per system call and the code
up to the next call in the same step. It starts on a table from which earlier
runs may have taken slots, because trees are never destroyed. malloc, fork and
peterson_create may fail, and a process may be killed anywhere but inside the
waiting loop. `TreeWalk` runs one process's loops alone, over every argument,
with the shifts of the code.

### Proc, Ticks, SpinLock

`Proc` has the fields of `struct proc` that matter, the locks, and for each
process the place of its kernel thread. Steps are stretches under one spinlock. A
process's `p->lock` is explicit only where it is held across `swtch`: from `sched`
until the scheduler on that processor has released it. Blocking there is what
keeps a half-switched process from being run or freed elsewhere. `wait_lock` is
explicit, since sections under it contain others. `init` follows `user/init.c`;
if its fork fails or it is killed it exits and the kernel panics. The other
processes do anything. `kill` may name any process and also 0, the pid of a free
slot.

`Ticks` is `clockintr` and `sys_sleep` with its unsigned subtraction and
comparison; `TickRange` stands for 2^32. `SpinLock` has `locked` and `cpu` of a
lock as separate words written at separate steps, `push_off` and `pop_off`, and
on each CPU kernel code that an interrupt handler, which takes locks too, may
interrupt wherever interrupts are on. Locks are taken in increasing order.

### Log, AtomicDisk

`Log` has the disk (`home` blocks, `logd` log blocks, `head` the header), the
cache, and `struct log`. A disk write of one block is atomic, a step of commit or
recovery writes one block. `Crash` may happen at any step, again during recovery,
and loses all but the disk. A buffer that is not pinned may be recycled at any
time. A call writes at most `MAXOPBLOCKS` different blocks, as `param.h` says.

`AtomicDisk` is the promise of the comment at the head of `log.c`: what reads
see, what is durable, and the active calls; commit makes everything durable while
no call is active, a crash goes back to that.

### BCache, BlockStore, DiskIO, Virtio

`BCache`: a section under `bcache.lock` or under a sleep-lock's spinlock is one
step, so that `brelse` is two and a process may find, lock or recycle buffers
between them. A user of the cache is a pointer to a `struct buf` in a process: a
process that only reads has one, a process that writes (`Nested`) may hold a second
buffer with the first, as `write_log`, `install_trans`, `bmap` and `itrunc` do. Which
block is read under which is the constant `Under`. Users keep to the comment at the
head of `bio.c`, and pin dirty blocks as `log_write` does, up to `pinLimit` of them,
which the initial state chooses: with too high a limit `bget` panics, and the run
reaches that panic. `NeverOutOfBuffers` says how many buffers suffice: one for each
process that reads, two for each that writes, one for each pin. It does not say
that the 30 of `param.h` do, which are fewer: 64 processes, and a log of 30.
`BlockStore` is what users see: blocks with contents, one user at a time.

`Virtio` has the descriptor table, the two rings with indices modulo `IdxRange`
(2^16 in the device), the driver's bookkeeping and the device, which takes
requests in order and finishes them in any order, also while the interrupt
handler runs. A block is `SPB` sectors: the driver computes the first, and the device
transfers as many as the buffer holds. `FirstIdx` starts the indices shortly before
they wrap. No two calls name the same block, which the cache guarantees.

### FileSys, FileData, FileContents, FileTable

`FileSys` is the inode table with its reference counts, `namex`, and `open`,
`create`, `mkdir`, `link`, `unlink`, `chdir` on a small tree. A step is a section
under an inode's sleep-lock or `itable.lock`. The important case is `iput`, which
frees an inode with the table's lock released. `iunlockput` is two steps, `Iunlock`
and `Iput`: another process may lock the inode between them. Directory contents are
functions from names to inodes; that a write finds no disk block is a choice.

`FileData` is a level below: bitmap, direct and indirect blocks, `itrunc`,
`readi`, `writei`, and the chunks of `filewrite`, each a transaction. The inode's
lock is held throughout a chunk, so a chunk is one step; how many blocks are left
to it, and how much of the user's buffer is readable, are choices.
Offset and length are added modulo `UINT`, which stands for 2^32.
`FileContents` is what users see: files are sequences of bytes.

`FileTable` is `file.c`'s table, descriptors, and how `open`, `dup`, `close`,
`pipe`, `fork` and `exit` move references, with failures half-way. The last close
of a file happens after `ftable.lock` is released and is a step of its own.

### Pipe, Console, LineInput, Uart

`Pipe`: an iteration of a loop is one step, or two where a kill can fall between
the test of `killed` and `sleep`. `Wrap` stands for 2^32. `Console` is the input
ring with its three indices; `LineInput` is the editor it implements. `Uart` is
the transmit ring with the lock, the device's FIFO, and `uartputc_sync`, which
writes to the device without the lock. A CPU elsewhere may panic at any time; from
then on a CPU that comes to put a character stops there, perhaps with the lock.

### Memory, Spaces

Pages with contents, a free list, and page tables as their nodes and leaves. Each
call (`fork`, `exec`, `sbrk`, exit and wait, copies) is one step over a working
record; `avail` says how many pages it may have, so that each of its allocations
fails in some behaviour and the code's way out is taken. `Try` and `Undo` are the
two forms that `goto bad` and early returns have in this code. The end of a segment is
computed modulo `ADDR`, which stands for 2^64. `Spaces` is what
processes see: private memory that `fork` copies and `exec` replaces or leaves.

### UserHeap, ShellParse, ShellRun

`UserHeap` is `malloc` and `free` on the circular list, over a heap that may have
holes and an `sbrk` that may fail. `sbrk` takes an `int`: when that does not hold the
bytes wanted, `malloc` hands out a block beyond the program's memory, and the model
follows the program no further (`cut`). `ShellParse` has the recursive descent of
`sh.c` next to a grammar that splits at top-level `;`, `|` and `&`; the properties
compare the two and look at where `nulterminate` puts its zeros. `ShellRun` runs
the trees: forks, pipes, redirections, waits, with failing calls. A program that
reads a pipe reads it to the end, the worst case for whoever waits.

### MC modules

Parts that do not share state are checked in one run where they ask the same kind
of question: a variable `part`, chosen at the start, says which one moves, the
others rest in an initial state. The state graph is the disjoint union of theirs.
Properties of a part are guarded by `part`, or are true while the part rests.

## Runs

| Run | Checks | Instance |
|---|---|---|
| `peterson` | `MutualExclusion`; `FifoOrder`, the refinement of `FifoLock`; `FifoProgress`, no release is missed | 3 processes, 2 locks, exits at any point outside a call |
| `peterson_destroyed` | finding 1 | 3 processes, 1 lock |
| `programs` | tournament: `TreeExcludes` (one inside, which holds its path, in a complete tree), `KeepsDiscipline`, `TournamentCompletes`; shell: `RunsAsWritten` (descriptors, plumbing, order of lists), `PromptReturns` | 0 to 4 processes on 3 slots; 8 command lines, 6 processes |
| `processes` | `StackOwned`, `ParentCanWait`, `NoLostWakeup`; `ImplementsPeterson`; `WalkIsRight`; `HeapSound`; `ParsedRight` | 3 processes, 2 processors; 2 callers, 2 slots; arguments to 33; heap of 11 units; all lines of up to 5 characters |
| `proc_live` | `InitReaps`, `KilledExits` | 3 processes, 1 processor |
| `proc_kill_zero` | finding 2 | 3 processes, 1 processor |
| `log` | `CrashAtomic`, the refinement of `AtomicDisk`; `ReservationHolds`; `SleeperWoken` | 2 processes, 3 blocks, log of 6 |
| `log_full` | finding 3 | 2 processes, log of 3 |
| `buffer_cache` | `CacheSound`, `ImplementsBlockStore` | 2 processes, one with two pointers, 3 buffers, 4 blocks, no pin or 1 |
| `kernel` | per part: no lost wakeup (`NobodyLeftAsleep`), order of bytes (`StreamsInOrder`), everything taken is in use (`ResourcesAccounted`), `SpinSound`, `Fs_InodesSound`, `Fs_NamesSound`, `Data_WritesSound`, `Mem_CallsSound`, `SleepsLongEnough`; the refinements of `DiskIO`, `LineInput`, `FileContents`, `Spaces` | see `Kernel.cfg` |
| `kernel_live` | `RequestReturns`, `CloseEndsWaits`, `EnteredIsRead`, `OutputIsSent`, `SleepEnds` | see `KernelLive.cfg` |
| `inode_leak` | finding 4 | 2 processes, 4 inodes, 2 calls |

### Bounds

- Peterson: a lock has two roles, so two users and one more who arrives, or who
  destroys, are all there is to a lock; the second slot makes wrong slot numbers
  and slot reuse visible. The theorems remove these bounds.
- Tournament: 4 processes have two levels, so locks are shared by groups, and 3
  slots are exactly its largest tree. `TreeWalk` covers the arithmetic far beyond
  the library's limit of 16, and the theorems every size.
- Proc: init, a shell and its child are what reparenting needs; two processors are
  what the switch window needs. The liveness run has one processor, for size.
- Log: `LOGSIZE` is three times `MAXOPBLOCKS` and `NLOG` equals it, as in
  `param.h` and `mkfs.c`. With three blocks the log can be filled and absorb.
- Buffer cache: more blocks than buffers, and two pin limits, one that leaves a
  buffer for each pointer and one that does not. One process holds two buffers, any
  block under any other; two such processes that nest in opposite orders could
  deadlock, which the order of the code's blocks (log before home, indirect before
  bitmap and data) excludes. A user changes a block only while the others are as they
  were at boot (`OneMarked`): the cache compares no contents. The theorems have none
  of these bounds.
- Virtio: 7 descriptors are two chains and one left over for a third request
  that must wait; three blocks of two sectors. `IdxRange` is twice
  `NUM` and `MaxCalls` carries the indices over the wrap. The ring size divides
  the range, as in the code; everything else about 2^16 is only that it wraps.
  Buffers, and blocks still as at boot, are taken in order (`Enter`), since they can
  be exchanged. The liveness run has the same sizes, with reads only: the
  direction of a transfer changes nothing about who waits for what.
- Pipe, Console, Uart: rings of 2 (a pipe of 1 for liveness); the counters of the
  first two wrap after two rounds, those of the UART are 64 bits wide and do not.
  Two writers or two readers compete, and one call moves more than the ring holds.
  `MaxBytes` and `MaxPut` are more than two rings full. Ticks: `TickRange` is even,
  as 2^32 is, and small enough for the clock to pass it during a sleep.
- FileTable: 3 processes and a table of 2 files, so it runs full. FileSys: a root,
  a directory and a file, one inode to create; two processes with three calls in
  all, which is where two calls meet a third on the same inode. FileData: one
  direct block of two bytes, and writes of 1 and of 7 bytes: the longer one reaches
  the indirect block and, with the code's `MAXOPBLOCKS`, takes two chunks.
  Memory: three levels of two entries, two processes with 4 calls in all, programs
  with gaps, bad segments and too many arguments; `avail` lets every allocation
  of a call be the one that fails.
- `kernel` starts `names` with one process in the root and the other there too or,
  if `a/b` is a directory, in it, and `data` with one file on the first inode: the
  other starts are the same with processes, files or inodes exchanged.
- FileData, Memory: `UINT` and `ADDR` are 32, and one read and one segment wrap.
- UserHeap: `UINT` is 32 and a header 2 bytes, so that a request of 13 already needs
  16 bytes, which an `int` does not hold; the largest request is the last `uint`, 31.
- Shell: the lines in `MCRunLines` have every operator and its combinations
  with pipes.

Deadlock is checked except in the `peterson` runs, where processes that have all
exited, or wait for a dead holder, may really stop. The other modules name the
states in which nothing is left to do or a bound on the calls is reached, and
stutter only there (and in a panic).

Symmetry is used where processes, buffers or blocks can be exchanged, and only in
runs without liveness: the refinements checked there are safety properties.

### Fairness

- `Peterson`, `Tournament`: every process that can go on is run (weak fairness):
  the scheduler goes round the table, and the waiting loop yields.
- `Proc`: processors never stop (weak). Strong fairness for a thread's next step:
  a thread that is run again and again gets its step done between two ticks and
  obtains a spinlock, which the hardware's swap does not strictly promise, but
  which is held for a few instructions only. The timer interrupts each processor
  again and again (strong, because interrupts are off under locks). Programs other
  than init need not do anything.
- `Log`: a file system call ends, commit and recovery go on (weak). Nothing
  obliges a process to begin a call.
- `Virtio`: runnable callers and the handler go on, the device takes requests and
  finishes one after another (weak). Nothing says which of two sleepers gets the
  descriptors: a call returns because the calls are finitely many (`MaxCalls`), so
  that nobody overtakes it for ever.
- `Pipe`, `Console`, `Uart`, `Ticks`: steps inside a call are weakly fair, getting
  the part's spinlock, and the UART's interrupt that competes for it, strongly, as
  above; the clock ticks and the device sends. A process that `sleep` has woken
  runs before the tick counter has gone all the way round (strong). No process is
  obliged to call, to type, to read or to close.
- `ShellRun`: each process goes on (weak).

Where parts are checked together, a fairness condition of one part is joined with
one of another by disjunction; only one of them can ever be enabled.

## Findings

1. `peterson_destroyed`: a lock destroyed and created again during a wait. The
   waiter returns 0, against the comments in `peterson.c`, and two are inside.
2. `proc_kill_zero`: `kill(0)` marks a free slot; the next process made there dies.
3. `log_full`: the log on disk has room for `LOGSIZE - 1` blocks, `begin_op` admits
   calls for `LOGSIZE`. The panic also comes before the test for absorption.
4. `inode_leak`: while one process is in the `iput` that has freed an inode, another
   gets the same inode from `ialloc`, fails for want of blocks, and drops it with
   a count of 2; the first does not look again, and the inode stays allocated.

Further observations, which no document contradicts:

- A kill that falls between a test of `killed` and the `sleep` after it wakes
  nobody; `wait`, pipes and the console have this window. In `wait` it is the one
  place where a killed process may stay: killed anywhere else it exits
  (`KilledExits`).
- `pipewrite` of a writer killed between two bytes returns (line 86) without the
  wakeup of line 99, and a reader sleeps on beside the byte that was stored, until
  another writer writes or the last one closes. `NoLostPipeWakeup` has this
  exception.
- The test of `active` inside the Peterson loop is never true, since destroying a
  lock clears the flags the loop condition needs.
- `uartputc_sync` looks at the status register and writes without the lock; that no
  character is lost rests on the device's FIFO having room for one character of
  each CPU, which `UartAssumption` states.
- `sleep(n)` with a negative n lasts 2^32 - |n| ticks.
- `..` of a removed directory may name an inode that has been freed; following it
  panics in `ilock` ("no type"). A file created in a removed directory is never
  freed. `NoDanglingName` has this exception.
- `sbrk` with an argument below minus the size changes nothing: `uvmdealloc`
  finds the wrapped new size larger than the old one.
- When the user's buffer of a write ends early, bytes of a cached block have been
  changed and are not logged; `FileContents` allows for them.
- `malloc` of about 2^31 bytes or more passes `sbrk` an `int` that is negative or too
  small (`umalloc.c:54`), and returns a block for which the program has no memory: the
  exception in `HeapSound`. The sum in `malloc` itself is 64 bits wide and does not
  overflow.
- The trampoline and trapframe go into the same leaf table, so the second
  `mappages` of `proc_pagetable` cannot fail: its way out is dead code.

## Proofs

All theorems hold for every value of the constants that satisfies the named
assumptions of the module.

`PetersonProofs`, from `TableSize` (`NPETERSONLOCKS` is a positive natural number):

- `TableIsSound`: `Spec => [](TypeOK /\ InactiveIsReset /\ FlagHasClaimant)`. The
  three are inductive together: that a flag has a claimant needs that an inactive
  slot has no flag. `InactiveSlotsAreReset` is the middle one by itself.
- `DisciplinedInv`: `DisciplinedSpec => []IndInv`. Mutual exclusion is not
  inductive. `IndInv` adds that each claim has its flag raised (`ClaimFlagged`),
  that a role has one claimant (`ClaimUnique`), and that while one role holds and
  the flag of the other is up, `turn` is the holder's (`TurnKept`), so that the
  loop condition of the other stays true.
- `MutualExclusionHolds`: follows from `IndInv`.
- `FifoOrderHolds`: `DisciplinedSpec => FifoOrder`: initial states map to the empty
  queues; a request appends, a `Recheck` that succeeds is the grant to the head, a
  release or exit removes.

`TournamentProofs`, from `TableSize` and `Bounds` (processes are numbered from 0 up to
any number):

- `TreeExcludesHolds`: `TSpec => []TreeExcludes`, for every number of levels, any table
  left by earlier runs, and failures and kills anywhere. `TreeExcludes` is not
  inductive: that two processes are not both inside needs to know which locks each
  holds at every level. `TreeInv` has `IndInv` of the locks, how far the program is
  (`Stages`), that the array holds different active locks (`OwnLocks`), and that the
  roles held and waited for are those of the levels a process has passed and
  is at (`PathHeld`, `WaitsOnPath`).
- `KeepsDisciplineHolds`: `TSpec => KeepsDiscipline`. A role is asked for only by the
  winner of the lock one level below, who is unique by mutual exclusion of that
  lock; so the invariant of the locks is kept, and the argument goes on upwards.
- Both rest on `TreeArithmetic`: what the shifts and masks of `libtournament.c` give
  for every number of levels. Locks of different levels differ, the root has index
  0, and two processes with the same lock and role had the same lock one level
  below. The laws of powers of two come from the number of subsets of a finite set.

`ProcProofs`, from `ProcBounds` (a positive number of slots, 0 is not a processor):

- `StackOwnedHolds`, `ParentCanWaitHolds`, `NoLostWakeupHolds`. They are inductive only
  together: `ProcInv` adds where a process's thread is in each of its states and that
  `wait_lock` is held exactly in the stretches under it (`Placed`), that a
  child in the making has one maker and nobody else touches it (`Making`), that a
  process has given its children away before it wakes anybody (`Family`), and that a
  parent asleep beside a zombie is among those the exiting child has still to wake
  (`Waking`).

`SyncProofs`, from `LocksAssumption` and `CpuAssumption`, and from `TickAssumption` (the
range of the counter is even):

- `SpinSoundHolds`: `SpinSpec => []SpinSound`. `SpinInv` says that only one of a CPU's
  contexts has locks (`OneContext`), what `noff` counts (`Nesting`), where the
  interrupt state is saved (`Saved`), and that `lk->cpu` names a CPU exactly while
  it has the lock and is not about to let go (`Marked`), which is why `holding` can
  be trusted without the lock.
- `SleepsLongEnoughHolds`: `TickSpec => SleepsLongEnough`. `TickInv`: a sleeper has seen
  as many ticks as the counter has moved, modulo its range, or a whole round.

`LogInvariants` and `LogProofs`, from `LogBounds` (finitely many processes, sizes that
are positive and `MAXOPBLOCKS <= LOGSIZE`). `LogInvariants` has the invariant:

- `LogInvariant`: `Spec => []LogInv`, the conjunction of the types, `Control` and
  `Data`. `Control` says what `outstanding` counts, in which phases `committing` is
  set and who is asleep why. `Data` says, for each phase of commit and recovery,
  which part of the log is already copied, which blocks the cache must still have,
  and what the header on disk says. `Data` needs `Control`: a block enters the log
  only while nothing commits.
- `CommitsAloneHolds` and `SomeoneWillWakeHolds` follow from `Control`.

`LogProofs` has the refinement:

- `CrashAtomicHolds`: `Spec => CrashAtomic`, the refinement of `AtomicDisk`. What is
  durable is what recovery would make of the disk now (`AfterRecovery`): it
  changes at the one write of the header, to what the cache holds, and at no
  other step; lemmas follow it through each phase, also when recovery itself is
  interrupted and starts again.

`BCacheProofs` and `BCacheRefinement`, from finitely many processes and buffers, names
for nobody, no block and no request that are not among them, and a first
content of the disk:

- `CacheSoundHolds`: `BCacheSpec => []CacheSound`. The invariant `CacheInv` adds who
  has which sleep-lock where (`Whereabouts`), that the list has every buffer
  (`Listed`), and that a pinned block is in a buffer and not more than `pinLimit`
  are (`Pins`): without the last, a recycled buffer could get a pinned block with
  a count of 1. That `bget` finds a buffer is a counting argument (`Pigeonhole`):
  the buffers with a pinned block map one to one into the pinned blocks, the
  others one to one into the pointers but the one that asks.
- `ImplementsBlockStoreHolds`: `BCacheSpec => ImplementsBlockStore`. `StoreInv` adds how
  far a buffer may be from the disk: it differs only while its block is pinned or
  its user has still to write it, and a transfer in progress is its holder's, for
  the block it has. So what a block is seen to contain, its valid buffer or else
  the disk, changes only when its owner changes it; eviction, reading again and
  completion by interrupt are not seen.

Proofs of invariance follow the actions: a step, or a lemma, per action and below
it one per conjunct that the action disturbs.

Only model-checked:

- all liveness, since the prover does not do fairness or `ENABLED`;
- `ReservationHolds`, a sum over processes, which would need induction over a fold;
- what rests on recursive definitions (`UserHeap`, `ShellParse`, `ShellRun`, `Memory`),
  for the same reason, and `TreeWalk`, which uses the bitwise operators that the
  prover does not know. `WalkIsRight` is about the library's loops; that the
  formulas they use are right for every size is proved in `TournamentProofs`;
- `ImplementsPeterson`, and the properties of pipes, console, UART, disk
  driver, files and file system: `NobodyLeftAsleep`, `StreamsInOrder`,
  `ResourcesAccounted`, `Fs_InodesSound`, `Fs_NamesSound`, `Data_WritesSound` and the
  refinements of `DiskIO`, `LineInput`, `FileContents` and `Spaces`. Nothing stands in
  the way of a proof but its length, except for `Mem_CallsSound` and `Spaces`,
  which rest on recursion.

## Not modelled

- `fstat`, `stati`, `readsb` and the layout of directory entries in blocks
  (`FileSys` has directories as functions); the copying of exec's arguments into
  pages and the check of a device's number in `open`.
- The inode table has an entry for every inode, so that iget's panic "no inodes"
  is not reached. The root directory is never removed.
- The kernel's own page table, permissions other than `PTE_U`, and page faults.
- Names of processes and `procdump`; the shell's `cd`, which changes only the shell.
- Machine set-up, assembly, `plic.c`: register moves. `printf.c`, `string.c` and the
  utilities: sequential code without a protocol. Test programs and `mkfs`.
- The composition of log, cache and file system in one module: each uses the
  promise of the one below (`AtomicDisk`, `BlockStore`, `DiskIO`), and the product of
  their states is beyond TLC.
