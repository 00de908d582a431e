# A TLA+ model of xv6-ASA

xv6-ASA is a teaching kernel: MIT's xv6 for x86 with a multilevel scheduler,
counting semaphores, system call tracing and a console clipboard added to it.
This directory holds TLA+ specifications of the kernel, of `mkfs`, of the user
allocator and of the shell; TLC configurations that check them on small
instances; and proofs, checked by TLAPS, of the central results for every
instance.  All paths below are relative to `src/xv6-public-master/`.

## 1. The system

| Part | Files | State | Operations |
|---|---|---|---|
| process table, context switch | `proc.c`, `trap.c`, `sysproc.c` | `ptable`, `cpu.proc`, `ptable.lock`, `nextpid`, `ticks`, `tickslock` | `fork`, `exit`, `wait`, `kill`, `sleep`, `wakeup`, `yield`, `sched`, timer tick, `sys_sleep` |
| multilevel scheduler (added) | `proc.c` | `level`, `waited`, `tickets` of each process | `level_finder`, `round_robin`, `lottery`, `BJF`, `level_change`, `set_tickets` |
| counting semaphores (added) | `proc.c` | `system_semaphores` | `semaphore_initialize`, `semaphore_aquire`, `semaphore_release` |
| spin locks | `spinlock.c` | locks, `ncli`, `intena` | `acquire`, `release`, `pushcli`, `popcli` |
| redo log | `log.c` | `log`, log blocks and header on disk | `begin_op`, `log_write`, `end_op`, `commit`, `recover_from_log` |
| buffer cache and disk | `bio.c`, `sleeplock.c`, `ide.c` | buffers, LRU list, sleep locks, `idequeue` | `bread`, `bwrite`, `brelse`, `iderw`, `ideintr` |
| inodes, directories, paths | `fs.c`, `sysfile.c` | inode cache, inodes, directories | `iget`, `ilock`, `iput`, `ialloc`, `dirlink`, `namex`, `open`, `link`, `unlink`, ... |
| blocks of files, image | `fs.c`, `file.c`, `mkfs.c` | free map, direct and indirect blocks | `balloc`, `bfree`, `bmap`, `itrunc`, `readi`, `writei`, `filewrite` |
| files and descriptors | `file.c`, `sysfile.c`, `pipe.c` | file table, descriptors | `open`, `close`, `dup`, `pipe`, with `fork` and `exit` |
| pipes | `pipe.c` | ring, two counters, open flags | `pipewrite`, `piperead`, `pipeclose` |
| console (clipboard added) | `console.c` | ring, three indices, clipboard | `consoleintr`, `consoleread` |
| memory and exec | `kalloc.c`, `vm.c`, `exec.c`, `proc.c`, `syscall.c` | free list, page tables, `p->sz` | `kalloc`, `kfree`, `allocuvm`, `copyuvm`, `sbrk`, `exec`, `argptr` |
| user allocator, shell | `umalloc.c`, `sh.c` | free list; processes of a command line | `malloc`, `free`; `parsecmd`, `runcmd` |
| system call tracing (added) | `syscall.c`, `proc.c` | `tracer` | `add_syscall`, `trace_syscalls` |
| boot, devices, other user programs | many | | |

How the parts interact.  Everything rests on spin locks (interrupts off) and on
`sleep`/`wakeup`, which rest on the process table.  The file system is a stack:
system calls and descriptors, then inodes and directories, then the redo log,
then the buffer cache, then the IDE driver; its waits are sleeps on buffers,
on the log and on sleep locks.  Pipes and the console are the other sleepers.
The scheduler added by the fork replaces one loop of `proc.c` and leaves the
hand-over of `ptable.lock` as it was.  The semaphores write `p->state` behind
the back of all this.

What makes the parts hard, what is stated about them, and how far it is shown
(P: proved for every instance and checked by TLC; T: checked by TLC):

| Part | Hard behaviour | Stated property |
|---|---|---|
| context switch | `ptable.lock` is acquired on one thread and released on another; a state other than RUNNING is visible before the stack is free | P `RunningOnOneCPU`, `StackInUse`, `SwitchInv` (with `OnlyInitPanics`) |
| fork, exit, wait, kill | parent, child and init race; error paths of fork run without the lock | P `NoMissedExit`, `KillFindsProcess`, `ImplementsTree` |
| sleep, ticks | the lost wakeup; `ticks` wraps around | P `NoMissedTick` |
| spin locks | nesting of `pushcli`/`popcli`; interrupts against locks; a thread goes on on another CPU | P `Exclusion`, `Matched` |
| scheduler | the choice of a queue, the choice of a process and the switch to it are three critical sections; aging is the only defence against starvation | T `LotteryProportional`, `NoStarvation`; refuted: `ChosenRuns` |
| semaphores | `value` is counted without a lock | refuted: `Exclusion` |
| log | concurrent operations share a commit; crashes in commit and in recovery; room in the header | P `ImplementsAtomicDisk`, `NoPanic`, `CleanIsOnDisk`; T `WaiterWakes`, `RecoveryEnds` |
| buffer cache, disk | two misses of one block; recycling against look-up; pinned buffers; the queue of the driver | P `OneCopy`, `NoLostRequest`, `ImplementsStore` |
| pipes | ring counters wrap; both sides sleep; close and kill while the other side sleeps | P `ImplementsFifo`, `NoMissedWakeup`; T `HangUp` |
| console | interrupt handler against reader; a full ring; wrap of `r`, `w`, `e` | T `LineDiscipline`, `NoMissedInput` |
| inodes, directories | reference counts against link counts; unlink against open and look-up; error paths; lock order along a path | P `RefCounted`, `CacheCoherent`, `LinksCover`, `NoPanic`; refuted: `NoDeadlock` |
| blocks of files | a block in two places; the transaction that a chunk of a write needs | T `EachBlockOnce`, `ReadsBack`, `OpFits` |
| files, descriptors | every error path gives back what it took; an end of a pipe is closed once | T `FileRefs`, `EndsClosedOnce` |
| memory | a page has one owner through fork, exec and failures of `kalloc` | T `Conserved`, `ArgsMapped`, `ExecStack` |
| user allocator | joining of neighbours at the ends of a circular list | T `HeapTiled` |
| shell | nesting of pipes, lists, blocks and redirections; ends of pipes left open | T `Parses`, `PromptComes` |

## 2. Modules and the code

Each module says in its header what one step is.  The rule is the same
everywhere: a step is one critical section of the lock that guards the state,
or one stretch of code between two of them, and code that holds a lock across a
context switch or reads state it does not lock is cut at those points.

| Module | Models | Correspondence |
|---|---|---|
| `Proc`, `MCProc` | `proc.c` without the policy, the timer part of `trap.c`, `sys_sleep` | One function of the slot for each field of `struct proc`; `cpuproc[c]` is `mycpu()->proc`; `lock`, `tickslock` name the CPU that holds them; `pc[p]` is where the kernel thread of slot `p` stands or resumes; `sched` is the set of CPUs between the call of `sched()` and `swtch`. `AllocProc` ... `ForkReady` are the stretches of `fork()`, `Exit` its critical section, `WaitReap`/`WaitFails`/`WaitSleep` the three ends of a pass of `wait()`, `SysSleep` ... `SleepRelock` the loop of `sys_sleep` with `sleep()` cut at `sched()`, `Tick`/`TickWakeup`/`TickReturn` the handler on CPU 0, `Sched`/`Dispatch`/`ScanEnd`/`Resume` the switch |
| `ProcTree` | the promise of fork, exit and wait | abstract: a set of pids, a parent function, zombies |
| `Spinlock` | `spinlock.c` | a context is a thread or the handler of a CPU; `acquire` and `release` are cut at `pushcli`, the exchange, the store of `lk->cpu`, the store of 0 and `popcli`, with interrupts and switches between them |
| `Sched`, `MCSched` | `scheduler()` and what it calls, `level_change`, `set_tickets` | `level_finder`, `round_robin`, `find_winner`, `lottery`, `find_best_job`, `BJF` are steps of the scheduler of a CPU; `Scan` is the loop over the table that all three queues share, resumed in its middle when the process comes back |
| `Semaphore` | `semaphore_*` | one step per unlocked read or write |
| `Log`, `AtomicDisk` | `log.c` | `BeginOp`, `LogWrite`, `LogAppend`, `EndOp`, the loop bodies of `write_log` and `install_trans`, the two writes of the header, recovery, and `Crash`; the abstract disk has operations that are all or nothing |
| `Bcache`, `BlockStore`, `MCBcache` | `bio.c`, `sleeplock.c`, `ide.c` | look-up, recycling, sleep lock, `iderw` and `ideintr`; the abstract store has one holder per block |
| `Pipe`, `ByteFifo` | `pipe.c` | `PipeWrite`, `PipeRead`, `ReadWait`, the closes, with `fork` and `kill` around them; the abstract pipe is a bounded queue |
| `Console`, `LineInput` | `consoleintr`, `consoleread` | one action per key class and one for the reader; the abstract device is a line being edited and a queue of lines handed over |
| `FileSys`, `MCFileSys` | inodes, directories and paths of `fs.c`; `open`, `mkdir`, `mknod`, `link`, `unlink`, `chdir`, `close` of `sysfile.c` | `st[p]` is where a call stands, with the inodes it holds; a step goes up to the next sleep lock it may have to wait for, and `iput()` is cut at its look at the count, the freeing and the decrement |
| `Blocks` | `balloc`, `bfree`, `bmap`, `itrunc`, `readi`, `writei`, `filewrite`; `mkfs.c` | a block is a sequence of units that are data, directory entries or block numbers; the image of `mkfs` is the initial state |
| `Files` | `file.c`, the descriptors of `sysfile.c`, `pipealloc`, `pipeclose` | `ftable` with its counts, `ofile` of each process; `open`, `dup`, `pipe`, `close`, `fork`, `exit` with the failures of each allocation |
| `Memory` | `kalloc.c`, `vm.c`, `exec.c`, the memory side of `fork`, `exit`, `wait`, `sbrk`, the argument tests of `syscall.c` | the free list is its length; each `kalloc` and `kfree` is a step of its own |
| `Heap` | `umalloc.c` | the circular list of headers, first fit, `morecore` |
| `Shell` | `sh.c` | the parser as operators on sequences of tokens, `runcmd` as processes that fork, open, wait and exit |
| `MCParts` | | `Spinlock`, `Memory`, `Files`, `Blocks`, `Heap` and `Shell` side by side; they share no state, and one of them moves in a behaviour |
| `ProcProofs`, `SpinlockProofs`, `LogProofs`, `BcacheProofs`, `PipeProofs`, `FileSysProofs`, `FileSysLinkProofs`, `FileSysTreeProofs` | | the proofs, section 4 |

`PROJECT.json` maps every definition to its lines.

## 3. The runs

Every run is `tlc -config <cfg> <module>`.  Passing runs:

| Run | Instance | What it shows |
|---|---|---|
| `proc_life` | `Proc`, 3 slots, 2 CPUs, pids up to 4 | the context switch keeps one CPU per process; no stack is freed in use; pids find their process; the table implements `ProcTree` |
| `proc_sleep` | `MCProc`, 4 slots, 2 CPUs, a 3-valued tick counter, sleeps of 2 ticks, in two regions: two slots in use with everything else, and four slots on one CPU without sleeps and kills | no tick is missed although `sleep()` lets go of the caller's lock, across wrap-around; `wait()` misses no exit, and init none of a zombie it inherits; `SwitchInv`, the inductive invariant of the proofs, holds |
| `sched` | `MCSched`, 3 slots, 2 CPUs, aging after 2 passes, fairness | the lottery draws in proportion; nobody waits for ever, though the loops of two schedulers over one table are resumed in the middle |
| `log` | `Log`, 2 processes, 2 blocks, 2 values, room for two operations, fairness | crash atomicity as a refinement, no panic, clean buffers are on disk, who waits is woken, recovery ends |
| `bcache` | `MCBcache`, 2 processes, 3 buffers, 4 blocks, 2 values, up to two pinned buffers | one copy per block; the disk never idles over a request; the cache implements a store |
| `pipe` | `Pipe`, 2 processes at both ends, ring of 2, counters modulo 4, calls of up to 3 bytes, fairness | the ring is a FIFO across wrap-around; no missed wakeup; a hang-up ends calls |
| `console` | `Console`, ring of 2, indices modulo 8, a letter, newline, end of file and all six control keys | the reader sleeps only without input; the ring is a line discipline while the text fits |
| `fs` | `MCFileSys`, 2 processes, 3 inodes, 2 names, 3 system calls from each of three trees | references and links are counted right on every error path, a cached inode agrees with the disk, no name dangles, and no step meets an inode that makes it panic, until a process follows `..` from a removed directory to a removed parent |
| `parts` | `MCParts` | locks exclude and `ncli` matches under interrupts (2 CPUs, 2 threads, 2 locks); pages are conserved and arguments mapped (12 pages, 2 processes); files and pipe ends are counted right (2 processes, 3 files); blocks are used once, read back and fit a transaction (14 blocks); `malloc` tiles the heap (14 headers); every line of up to four tokens, and ten longer ones, is parsed as the grammar says and run to its prompt |

Runs that refute a statement found in the repository (section 6):
`sched_chosen`, `sem_exclusion`, `fs_deadlock`.

Why the bounds are enough to be interesting:

- Two CPUs, because every race of the process table is between the CPU that
  gives a lock and the one that gets it; three slots, so that init, a parent and
  its child exist together and one of them can be orphaned; four pids, so that a
  slot is reused after a failed fork and after a reap.  The second wakeup of
  `exit()`, for a zombie handed to init, matters only when the exiting process
  is not itself a child of init: that takes the fourth slot of `proc_sleep`,
  where one CPU that may be preempted at any point is enough.
- The tick counter has three values and a sleep lasts two, so the counter wraps
  around during a sleep.
- A ring of two with counters modulo four (pipe) or eight (console) fills,
  empties and wraps within a few calls; a call of three bytes is larger than the
  ring.
- The log has room for two operations, not for three, so `begin_op` waits both
  for a commit and for room; two blocks give absorption and commits of one and
  of two entries.
- Three buffers for four blocks, two of which the log may pin, force recycling;
  with two pinned and one held there is none left, and `bget` panics.
- Three inodes and paths of one and two elements make the calls of two processes
  meet in one directory, at one file with two names, and in a directory that one
  of them removes; three calls are enough for a call that races two others, and
  for a walk along `a/b/..` that meets the removal of `a/b` and of `a`.
- Twelve pages run out in the middle of `fork`, `sbrk` and `exec`.  The lists of
  arguments fill the stack page, reach the guard page and the program below it,
  and go below address zero.  A file of
  the blocks model goes over its two direct blocks into the indirect one, and a
  write of 7 units is cut into chunks.
- `MaxPid`, `MinWaited`, `OPBLOCKS`, `MaxN`, `MaxPinned`, `MaxCalls`,
  `MaxWrites`, `HeapMax` and `MaxLines` bound counters and inputs and are named
  in their modules.

Deadlock is checked in `proc_life`, `proc_sleep`, `sched`, `log`, `bcache` and
`console`.  It is not in `pipe`, where both ends may be closed for good; in
`fs`, where the system calls are used up, and where two calls can wait for each
other, which is the subject of `fs_deadlock`; and in `parts`, where the writes
or the lines are used up.  After a panic or a trap the models of `Proc`, `Sched`
and `Bcache` stutter (`Halted`), as the machine does.

**Fairness.**  `Sched`: each CPU goes on taking steps of its scheduler or of the
process it runs, since the scheduler loops and the timer interrupts every
process.  `Log`: recovery and a commit go on (weak fairness), and an operation
that has begun reaches its `end_op` even if it makes many writes (strong
fairness: a system call is a finite piece of code).  `Pipe`: a process inside a
call and awake is scheduled and gets `p->lock`.  No fairness is assumed of user
programs, of `kill`, of crashes or of the keyboard.

**Mutants.**  For each property of a passing run `PROJECT.json` names an
operator (`..._Not`, `..._Unlocked`, ...) that stands for a plausible error
in the code, such as a dropped wakeup or a lock released too early, under which
the property fails.

## 4. What is proved

Eight modules of proofs, for every value of the constants that the assumptions
allow.  Each theorem but `TypeCorrect`, `SchedNeverPanics`, `CacheInvariant`,
`InodeInvariant` and `LinkInvariant`, which are about inductive invariants or
lead to them, states a property that a run checks on a small instance.

| Module | Theorem | Statement |
|---|---|---|
| `ProcProofs` | `TypeCorrect` | `Spec => []TypeOK` |
| | `SwitchInvariant` | `Spec => []SwitchInv` |
| | `OneCPUPerProcess` | `Spec => []RunningOnOneCPU` |
| | `StackNotFreed` | `Spec => []StackInUse` |
| | `SchedNeverPanics` | `Spec => []OnlyInitPanics` |
| | `KillFinds` | `Spec => []KillFindsProcess` |
| | `WaitMissesNoExit` | `Spec => []NoMissedExit` |
| | `SleepMissesNoTick` | `Spec => []NoMissedTick` |
| | `ProcImplementsTree` | `Spec => ImplementsTree` |
| `SpinlockProofs` | `LockExclusion` | `Spec => []Exclusion` |
| | `InterruptsMatched` | `Spec => []Matched` |
| `LogProofs` | `NoLogPanic` | `Spec => []NoPanic` |
| | `CleanBuffers` | `Spec => []CleanIsOnDisk` |
| | `LogImplementsAtomicDisk` | `Spec => ImplementsAtomicDisk` |
| `BcacheProofs` | `CacheInvariant` | `Spec => []CacheInv` |
| | `OneBufferPerBlock` | `Spec => []OneCopy` |
| | `NoRequestIsLost` | `Spec => []NoLostRequest` |
| | `CacheImplementsStore` | `ReadErrors = FALSE` gives `Spec => ImplementsStore` |
| `PipeProofs` | `PipeWakeups` | `Spec => []NoMissedWakeup` |
| | `PipeImplementsFifo` | `Spec => ImplementsFifo` |
| `FileSysProofs` | `InodeInvariant` | `Spec => []Inv` |
| | `InodesCoherent` | `Spec => []CacheCoherent` |
| | `ReferencesCounted` | `Spec => []RefCounted` |
| `FileSysTreeProofs` | `LinkInvariant` | `Spec => []LinksOK` |
| | `LinksCounted` | `Spec => []LinksCover` |
| | `NoInodePanic` | `Spec => []NoPanic` |

The assumptions are the named `ASSUME`s of the modules, which TLC evaluates on
every run: `Proc`, at least one slot, CPU and pid, and sleeps shorter than the
range of the tick counter; `Spinlock`, that names of CPUs and threads differ and
locks are numbered; `LogAssumption`, discussed in section 5; `BcacheAssumption`,
finitely many processes and buffers; `PipeAssumption`, counters of a width that the size of the ring
divides and that is more than that size (2^32 and 512); `FileSysAssumption`,
finitely many processes, inodes and names, and a disk that is at first as `mkfs`
and finished calls leave it (`Consistent`).

### The context switch

`RunningOnOneCPU` is not inductive: a process that has entered `sched()` is no
longer RUNNING but its CPU still points to it, and only `ptable.lock` keeps
other CPUs away.  `SwitchInv` adds what makes that precise:

- `SchedLocked`: a CPU inside `sched()` holds `ptable.lock`, does not hold
  `tickslock`, and its process has left the state RUNNING.  Hence no step that
  takes the lock happens while a CPU is inside `sched()` (lemmas `SchedEmpty`,
  `SchedFree`).
- `EmbryoOwned`: each `fork()` under way owns an EMBRYO slot of its own, so the
  writes it makes without the lock touch no process (lemma `OffCPU`).
- `HandlerOnTop`, `TicksLocked`: the timer handler of CPU 0 sits on code that
  holds no lock, and `tickslock` is held by that handler or by a process that
  executes `sys_sleep` on the CPU that holds it; so no one enters `sched()`
  with two locks.
- `DeadIsZombie`: an exited thread belongs to a zombie, which no CPU dispatches.

The proof has one step per action and one step per conjunct under it; frame
lemmas (`RunningKept`, `RunningLeft`, `EmbryoKept`, `HandlerKept`, `TicksKept`)
settle the conjuncts that an action does not disturb.

### Pids, exits, ticks and the process tree

Each result adds a small invariant to `SwitchInv`, so that the long argument
about the switch is used and not repeated.

- `PidsApart`: a pid is in one slot, and `nextpid` is above all of them.  It
  speaks of free slots as well: a failed fork leaves its pid behind, and were
  pids handed out again, `kill()` would stop at that slot.
- `Family`: the slot of init is in use and has no parent, and nobody is its own
  parent.  With it `NoMissedExit` is inductive: `wait()` scans and goes to sleep
  under one lock, and `exit()` wakes its parent, and init for what init inherits,
  in the same critical section in which it becomes a zombie.
- `ClockInv`: who has decided in `sys_sleep` to sleep holds `tickslock` and
  still has ticks to wait for, and the handler holds it from the increment to the
  wakeup.  The step that could go wrong is `sleep()`, which gives `tickslock`
  back: it has `ptable.lock` by then, so the handler's wakeup waits for it.
- `Lineage`: a parent is alive, and init never exits.  `TreeInv` collects what
  the refinement needs.  A slot that is neither UNUSED nor EMBRYO stands for a
  process of `ProcTree` (lemma `TreeView`); `ForkReady`, `Exit` and `WaitReap`
  are its three actions, and every other step leaves the tree as it is.

### Spin locks

`SpinInv` is stated in `Spinlock`: a thread is in one place (`OncePlaced`);
interrupts are off wherever a lock is held or being taken (`Masked`); `ncli`
counts the pushes of the context that executes (`Matched`) and `intena` holds
what the outermost one found (`Restorable`); nobody takes a lock it has
(`NotHeld`); a lock has one owner and is marked exactly while it has one
(`OneOwner`, `LockedOwned`); `lk->cpu` is the CPU of its holder (`CpuOfHolder`).
Each conjunct is shown to be kept by every step, from the others.  This is the
justification of the atomic spin locks of all other modules.

### The log

- `ControlInv`: one process commits at a time and only while no operation is
  under way; `outstanding` is the number of operations; a process has a buffer
  locked exactly while `log_write` has not entered it.
- `RoomInv`: the entries of the header and what the operations under way may
  still add fit into the log.  What they may add is the set `Reserve` of pairs of
  an operation and a number, so that `begin_op`'s multiplication is a bound on
  the cardinality of a product (lemma `ReserveBound`); an entry that is absorbed
  leaves it alone, a new one takes a pair away.  `NoLogPanic` follows.
- `DataInv`: pinned blocks are entered (`Pins`), unpinned ones are on disk, and
  at each point of a commit or of recovery (`Phase`, `Quiet`, `Booting`) how many
  log blocks, and how many home blocks, are up to date.
- For the refinement, the stable state of `AtomicDisk` is what recovery would
  make of the disk now (`Recovered`).  Writes of log blocks do not change it
  while the header is empty; the write of the header moves it to the cache in one
  step; installing, and erasing when all is installed, do not change it.  A crash
  at any of these points therefore leaves the state before or after the commit,
  and recovery, which may be cut off by another crash, stutters.

### The buffer cache and the disk

- `CacheInv`: the references of a buffer are the processes that have it, so that
  a buffer with none is free to recycle (`RefInv`); a block is in one buffer, and
  a process inside the cache has the one of the block it wants (`SlotInv`); the
  list has every buffer once (`TypeOK`); the sleep lock (`LockInv`), the
  flags (`FlagInv`) and the driver's queue (`QueueInv`) agree with where the
  processes are.  Nothing is said about how many buffers there are: where `bget`
  finds none the model stops, as the kernel does, and the invariant holds there
  too (lemma `StopsQuiet`).
- `CleanInv`: a valid buffer that is not dirty has what is on disk.  This fails
  after a read error, because `ideintr` marks the buffer valid all the same; the
  refinement is stated for a disk that reads without error, and is the only
  theorem with such a premise.
- The refinement maps a block to its valid buffer or else to the disk, and its
  holder to the process between `bread` and `brelse`.  Recycling, write-back, the
  queue and the hand-over of the sleep lock leave both alone.

### Pipes

`PipeInv` adds to `NoMissedWakeup` that the ring is not overfull and that an end
is open as long as somebody holds it.  The refinement needs arithmetic: `DivMod`
and the lemmas after it show that counters modulo `WORD` that the ring divides
index the ring as if they never wrapped, which is where `WORD % PIPESIZE = 0` is
used.  A write then appends to the queue of `ByteFifo`, a read takes from its
front, and everything else leaves the queue alone.

### Inodes, directories and paths

Two invariants, the second on top of the first.

`Inv` is about pointers and locks, and holds whatever the paths are:

- `Shape` says for each label of a call which of its variables `ip`, `dp` and
  `put` point to an inode; without it nothing can be said about error paths.
- `RefInv`: the count of an inode is the number of pointers to it.  `RefsSplit`
  divides that number into the pointers of one process, a sum of five terms, and
  those of the others, which its step does not touch; no induction over the
  processes is needed.
- `LockInv`: who has a lock is where a call holds one, inside `iput()` as well.
- `Coherent`: a valid entry of the cache is what the disk says.  It rests on the
  two others: `iput()` frees an inode while it has its lock and its only pointer.

Every action is shown to be `Sound`: counts, locks and pointers of the process
change together.  `SoundInv` derives `Inv'` from that once.

`LInv` is about link counts, and `LinksOK`, that it holds until somebody has
strayed, is the invariant.  `LinksCover` is not inductive, because `link()`
counts the link before there is a name and `unlink()` takes the name away before
the count.  `Covered` adds what makes it so: beside the names and the `..` of
subdirectories, `nlink` has room for the calls that owe a link (`Pending`), and
for the root.  The other conjuncts:

- `FreeInv`: a free inode has no links and no pointer to it, so that `ialloc()`
  gives out an inode that nobody uses;
- `Own`: what a call found under the locks it still has is still so: the parent
  is a directory, the name to be removed leads to `ip`, the new inode is known to
  nobody else, the inode to be freed has no links;
- `Dots`: a directory has `.` and `..` once `create()` has initialized it;
- `Parents`: the `..` of a directory that has a name leads to the directory that
  holds the name, and so to one with links.

A step is shown to have an `Effect`: it gets pointers only to inodes that have
links or that it allocates, changes only inodes it points to, writes only
directories it may lock, and keeps the counts.  `EffectInv` derives `LInv'`.
Steps that change no inode are `Quiet` and settled together; they, and the five
that count a link, allocate or free, are in `FileSysLinkProofs`, the three that
write directories in `FileSysTreeProofs`.  The one that asks most is `InitInode`
of `mkdir`, which gives the new inode a link and a name, and the parent one for
`..`, in one step.

Paths may have elements `..` anywhere.  One case is set apart: a directory that
was removed while a process was in it keeps its `..`, and the directory it names
may be removed in turn, freed and reallocated.  The history variable `strayed`
records that a process has followed such a `..` (`Strays`); `LinksCover` and
`NoPanic` say what holds until then.  What follows is in the model, panic
included, and the run `fs` reaches it (section 6).  `InodeInvariant`,
`InodesCoherent` and `ReferencesCounted` hold whether anybody has strayed or not.

### How the modules are laid out for the provers

The modules under proof do not extend `SequencesExt`, whose definitions, and
those of the modules it brings with it, burden every obligation; the few
operations of lists that `Log` and `Bcache` need (`Listed`, `Queued`,
`MoveToFront`) are written with indices.  A leaf that first-order reasoning
settles names Zenon, the others are left to SMT.  The proofs about `FileSys` are
three modules, each of which extends the one before it.

### What is only model-checked, and why

- Liveness, which needs fairness and ENABLED: `NoStarvation`, `WaiterWakes`,
  `RecoveryEnds`, `HangUp`.
- What recursive definitions compute, which needs induction over data: `Parses`
  and `PromptComes` (the parser and what it yields), `HeapTiled` (the list of free blocks), `EachBlockOnce`,
  `ReadsBack`, `OpFits` (the tree of blocks and the loop of `filewrite`).
- Sums over sets of unknown size, which are such inductions: `Conserved`, and
  `LotteryProportional`, where the winner is defined by sums of tickets.
- `FileRefs`, `EndsClosedOnce`, `ArgsMapped`, `ExecStack`, `NoMissedInput` and
  `LineDiscipline`: nothing is known to stand in the way of a proof, and none has
  been written.  `FileRefs` is a count of pointers as in `RefInv`, and the
  argument there should carry over.

## 5. Assumptions of the models

- A spin lock is atomic in every module but `Spinlock`; the order of memory
  operations is that of the program, which the barriers in `acquire` and
  `release` give for locked data.
- In `Spinlock` a context takes locks in increasing order: the lock order that
  callers keep, without which `acquire` can wait for ever.
- `Proc` has two kinds of sleepers, in `wait()` and in `sys_sleep`.  The other
  sleepers (log, buffers, pipe, console) have the same shape and are modelled in
  their own modules with `sleep` as one step, which is what `Proc` shows of it.
- `Sched` treats yield, sleep, exit and the following dispatch as one critical
  section; `Proc` shows that they are one.
- `Log` uses the cache as a function from blocks to contents, with eviction of
  clean buffers at any time; `Bcache` is the component behind it.  A write of a
  disk block is atomic.
- `LogAssumption` asks operations to write two blocks less than they reserve.
  `log_write` tests against `log.size - 1`, one less than `begin_op` counts
  with, and makes the test before absorption: an operation that used all of
  `MAXOPBLOCKS` could panic.  The largest one, a chunk of `filewrite`, does not
  (`OpFits`).
- `Bcache` is run with a disk that reports no error (`ReadErrors = FALSE`).  A
  process of the model is one use of a buffer; a thread that holds two buffers at
  once, as in `bmap`, `write_log` and `install_trans`, is two of them.
- In `Memory` nothing is said after a copy of `exec` has gone astray (`astray`,
  section 6).
- A call of `FileSys` sees the disk as its transaction does; `Log` is the
  component behind that.  The inode cache has room for every inode.
- In `Sched` the rank of best job first is left open, and a number drawn by
  `random_number` is any number it can return.
- In `Shell` a program reads its input to the end and writes, in some order; a
  pipe has no room, which is the hardest case for a command that forgets to close
  an end.

## 6. What the models found

Each of these is a run that TLC ends with a counterexample.

- `sched_chosen` (`proc.c:603`).  `lottery` and `BJF` switch only to processes of
  level 1, so the process they choose, of level 2 or 3, is not run; it waits for
  aging.
- `sem_exclusion` (`proc.c:1099`).  `value--` is a load and a store without a
  lock.  The timer switches between the two: two processes load 1, both store 0,
  and both enter their critical sections.
- `fs_deadlock` (`fs.c:334`).  `iput()` takes the lock of its inode.  `create`
  and `unlink` put a directory while they hold the lock of a file in it; another
  `unlink` holds the directory and waits for the file.

Observed while modelling, without a run:

- `kill()` looks at pids and not at states (`proc.c:783`).  A slot whose `fork`
  failed keeps its pid (`proc.c:266`); a kill of that pid marks the slot, and the
  next process created there is born killed.
- Between `level_finder` and `find_winner` another CPU can take the only level-2
  process: the lottery divides by zero (`proc.c:559`).  The model stops there, as
  the machine does.
- `level_change` accepts any level (`proc.c:963`), and copies processes from slot
  to slot (`proc.c:973-981`).  Unless the process is in the last slot, some process
  is in two slots afterwards: the process itself when the next slot is unused,
  else one behind it; with no unused slot behind it the process is lost.  A
  process that was RUNNING is RUNNING in its second slot on no CPU, and two
  RUNNABLE slots share a kernel stack.  The run `sched` lets programs change only
  the process in the last slot (`Targets`), where nothing is copied: no passing property
  of `Sched` speaks of who runs where, and `RunningOnOneCPU` of `Proc` is about
  the switch without `level_change`.
- `bget` panics when every buffer is referenced or pinned (`bio.c:92`).  NBUF and
  LOGSIZE are both 30, NPROC is 64, and a thread may hold two buffers, so nothing
  in the code excludes it.
- `uva2ka` reads `*pte` without a test for the 0 that `walkpgdir` returns where
  there is no page table (`vm.c:355`).  `exec` gets there with arguments that are
  together longer than the new image, so that `sp` wraps around to addresses that
  neither the program nor the kernel maps; what it does then depends on the word
  at address 0 of the old image.
- `semaphore_aquire` sets SLEEPING (`proc.c:1104`) but does not call `sched()`: the
  caller goes on into its critical section.  `semaphore_release` makes RUNNABLE a process that may be executing, so a
  second CPU can dispatch it.
- A killed writer leaves `pipewrite` without waking the readers of the bytes it
  has put in the ring (`pipe.c:86`); `NoMissedWakeup` names the exception.
- `ideintr` sets `B_VALID` after a failed read too (`ide.c:118`): the premise of
  `CacheImplementsStore`.
- Ctrl+C copies from the start of the ring, not from the start of the line, once
  the ring has gone round (`console.c:202`), and paste makes no test for room
  (`console.c:223`); `LineDiscipline` is stated for text that fits.
- Two `iput()` of an unlinked inode at the same time both read a count of two,
  and neither frees it (the comment at `fs.c:118` says that it is freed).  `link`
  with the new name `.` waits for the lock it holds, and with `..` it takes locks
  in the reverse order.  A file created in a removed directory is never freed.
  The properties of `fs` do not speak of these cases: a leaked inode has no name,
  and the paths given to `link` end in an ordinary name.
- The `..` of a removed directory may name a directory that is gone: `ilock` then
  panics with "no type" (`fs.c:310`), or the walk goes on in another file.
- `sbrk` of minus the whole size returns -1 with the pages gone and `sz`
  unchanged.
- `mkfs` rounds the size of the root directory up, so that a directory that fills
  its blocks exactly gets an empty block behind them.
- The shell applies redirections from the outside in: of several of one kind the
  first written wins.  When the second `fork` of a pipe fails, the left side is
  not waited for.
- The trace table is written without a lock.

## 7. What is not modelled

Boot and multiprocessor start-up (straight-line code before the models begin),
device registers, assembly stubs, the other user programs (their calls are the
inputs of the models), screen output, the trace table and the added system calls
that only print or compute; the contents of pages and segment registers in
`Memory`; how `gettoken` cuts a line into tokens in `Shell`.  `PROJECT.json`
gives the reason for each component that is left out.
