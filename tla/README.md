# A TLA+ development of the kernel

The kernel under `src/kernel` is xv6 for RISC-V extended with pid namespaces
(`clone`), per-process time accounting and the calls `ps_list`, `ps_info` and
`getppid`. This directory holds TLA+ modules that model its concurrent parts,
the TLC configurations that check them on small instances, and proofs, checked
by TLAPS, of the main invariants for instances of every size.

## Inventory

| part | source | state | operations | what makes it hard |
|---|---|---|---|---|
| process table, namespaces | `proc.c`, `proc.h` | `proc[NPROC]`, `namespaces[NUMNS]`, `nextpid`, `wait_lock` | `allocproc`, `freeproc`, `fork`, `clone`, `exit`, `reparent`, `wait`, `kill`, `sleep`, `wakeup`, `ps_list`, `ps_info` | several locks taken one after the other; entries and namespaces tested without a lock; parents that exit; wakeups; tables that fill up |
| scheduler | `proc.c`, `swtch.S` | `cpu.proc`, `state`, `noff`, `intena` | `scheduler`, `sched`, `yield` | the lock of a process is taken by one thread and released by another |
| spinlocks, interrupts | `spinlock.c`, `trap.c` | `locked`, `cpu`, `noff`, `tickslock` | `acquire`, `release`, `push_off`, `pop_off`, `clockintr` | lock order; an interrupt in the middle of a critical section |
| system calls on time and processes | `sysproc.c`, `syscall.c` | `ticks` | `sys_sleep`, `sys_uptime`, `sys_kill`, ... | time read under a lock while another lock is held |
| sleep locks | `sleeplock.c` | `locked`, `pid` | `acquiresleep`, `releasesleep` | lost wakeups |
| buffer cache | `bio.c` | `refcnt`, `valid`, LRU list | `bget`, `bread`, `bwrite`, `brelse`, `bpin` | one buffer per block; recycling; no buffer left |
| log | `log.c` | `lh`, `outstanding`, `committing`, the log on disk | `begin_op`, `log_write`, `end_op`, `commit`, `recover_from_log` | crashes between any two disk writes, also during recovery; group commit; log space |
| disk driver | `virtio_disk.c` | descriptors, rings, `info` | `virtio_disk_rw`, `virtio_disk_intr` | completions out of order; descriptors run out |
| inodes, directories | `fs.c`, `sysfile.c` | inode table, dinodes, bitmap | `iget`, `iput`, `ilock`, `ialloc`, `namex`, `create`, `unlink`, `link` | references against links; freeing while someone looks up |
| open files | `file.c`, `sysfile.c` | `ftable` | `filealloc`, `filedup`, `fileclose` | the last close races with others |
| pipes | `pipe.c` | ring buffer, `nread`, `nwrite`, two open flags | `pipewrite`, `piperead`, `pipeclose` | full, empty, closed end, counters that wrap |
| memory | `kalloc.c`, `vm.c`, `exec.c` | free list, page tables | `kalloc`, `kfree`, `uvmalloc`, `uvmcopy`, `exec` | undoing half of an allocation |
| console, serial line | `console.c`, `uart.c` | two ring buffers | `consoleintr`, `consoleread`, `uartputc`, `uartintr` | interrupt against reader |
| boot, assembly, output, strings, user programs | the rest | none that matters here | | |

Properties the parts should have: unique and complete pids at every level of
namespaces; an owner for every entry under construction; no lost wakeup in
`wait`; adoption of orphans; namespaces given back; `ps_list` shows the own
namespaces only; file system operations atomic across crashes; the log never
overflows; the pipe a FIFO; one buffer per block; no self-deadlock on a spinlock.

## Modules

### Proc

One kernel thread per process. `state`, `pid`, `parent`, `ns`, `pids`, `killed` and
`chan` are the fields of `struct proc`; `used`, `nsparent` (`parent` in the code),
`head`, `depth` and `next_ns_pid` those of `struct namespace`; `nextpid` and
`wait_lock` the globals. `pc`, `np`, `newns`, `lev`, `curr_ns` and `look` hold where a
thread is inside a system call and its local variables. `issuer` is a history
variable: the namespace that issued each pid.

A step is a stretch of code between two points at which another thread can see a
difference. Spinlocks taken and released within a step need no variable. Two are
held across steps: `wait_lock`, and the `p->lock` of an entry under construction.

| actions | code |
|---|---|
| `Fork`, `Clone`, `CloneAlloc`, `CloneNoSlot` | `fork`, `clone`, `allocnamespace`, the scan of `allocproc` |
| `AllocPid` | one turn of the loop over the levels in `allocproc` |
| `AllocMemory`, `Uvmcopy`, `AllocFails` | the rest of `allocproc`, `uvmcopy`, and the error paths |
| `SetParent`, `SetRunnable` | the last two critical sections of `fork` and `clone` |
| `Exit`, `reparent`, `Zombify` | `exit` |
| `Wait`, `Reap`, `WaitFails`, `WaitForChild`, `Sleep`, `Resume` | `wait` and its `sleep` |
| `Kill` | `kill` |
| `PsList`, `PsCheck`, `PsRead`, `PsStops` | the second loop of `ps_list` |

Abstractions. RUNNABLE stands for RUNNABLE and RUNNING. `num_proc` is left out, it is
always `next_ns_pid - 1`; so is `ns_id`, which is written and never read. Memory,
files and time do not appear: an allocation may fail at any time, and closing files
in `exit` changes nothing here. A free entry may be any free entry, because other
threads free entries behind the scan; the first unused namespace is always the
lowest, because none is ever given back. `MaxPid` bounds the number of processes
ever created; a call that would pass it is not made (or, inside `clone`, fails).
`initproc` is not killed: its exit is a panic.

### Proofs about Proc

`ProcProofs` defines the inductive invariant `IInv` and shows that every step keeps it: those of
`exit`, `wait`, `kill` and `ps_list`, those of the entry that `fork` and `clone` build, and
those that make namespaces.
The assumptions are `SizesAssumption` (the tables are not empty) and nothing about
`Calls`: the theorems hold for every mix of system calls.

Why a strengthening is needed: `PidsUnique` holds because every issued pid is below
the counter of its issuer (`Issued`). `PidChain` needs what is true halfway through
the loop (`Climbing`: the levels above the current one are done and `curr_ns` is the
namespace of this level) and that depths decrease by one along `nsparent` (`NsTree`).
`CloneChildIsPid1` needs that until its first process runs nobody else is in a new
namespace or below it (`Fresh`). `SlotOwned` needs the correspondence of `state` and
`pc` (`PcState`) and the uniqueness of `np` (`Building`). `NoLostWakeup` needs that
everybody between the scan and the sleep holds `wait_lock` (`WaitLock`, `Sleepers`), and
that a new parent chosen by `reparent` exists (`HeadSet`).

`ListedHavePid` compares the pids of a process with what the loop of `compare_ns` finds. The loop is a
recursive function over namespaces, and TLA+ does not say of itself that there is one: `FollowsExists` makes it from the least set
that is closed under the loop, and `WalkUp` shows that it meets exactly the ancestors of a namespace, with a least counterexample
(`Least`) in the place of an induction. The invariant adds `Rooted`: the first namespace is the
only root that a process is in or below, although a namespace that `clone` loses to the depth check has depth 0
too, and no process has a pid above the level of its own namespace.

### Log

`home`, `hdr` and `logblk` are the disk; `lh`, `outstanding` and `committing` are `struct log`;
`cache` and `pins` are what the log depends on of the buffer cache: the contents of the
buffer of a block, or `NotCached`, and the references of `bpin`. `buf` is the buffer a
thread has locked, `wrote` the blocks of its operation, `tail` the loop variable of
`write_log` and `install_trans`.

| actions | code |
|---|---|
| `begin_op`, `log_write`, `end_op`, `Committed` | the functions of that name; `Committed` is the end of `end_op` |
| `write_log`, `write_head`, `install_trans`, `clear_head` | one block write each of `commit` |
| `Bread`, `Brelse`, `ReadOther`, `NoBuffers` | `bread`, `brelse` and the recycling of buffers in `bget` |
| `Crash`, `read_head`, `reinstall`, `reclear` | power failure, and `recover_from_log` |

A step writes one block. A crash may leave the data block that is being written
torn, in the log or at home; the header fits into one sector and is written or not.
The recovery itself may crash. `nlog` comes from `mkfs`. `OpBlocks` is the number of
blocks an operation writes, at most `MAXOPBLOCKS`. The kernel may panic for want of
buffers or log space: then only `Crash` remains.

`AtomicDisk` is what the log promises: a durable state and a view of it, and a commit,
possible while no operation is active, that makes the view durable as a whole. The
refinement maps the durable state to what the recovery would make of the disk at
this moment.

`LogProofs` proves the refinement, after the inductive invariant, whose steps are grouped into
calls and readers, commit, crash and recovery. The properties say little about a state in the middle of a commit, so the invariant describes the log
phase by phase: `Open`, with an empty header on the disk; `Commits(t)`, where one thread is
in one of five stages, each of which says how many blocks are already in the log (`Copied`), at
home (`Installed`) and still pinned (`Pinned`); and `Recovers(t)`, with the three stages of the
recovery. What holds the phases together are that no block is named twice by a header
(`Headers`, from log absorption), that `outstanding` counts the operations
(`Counted`) and that an unpinned buffer agrees with the disk (`Clean`). `Clean` is why recycling
a buffer in `bget` loses nothing (`RecycleSafe`). A panic of `log_write` leaves a
changed buffer that is not pinned, so `Clean` excludes it and `Panicked` remembers that an operation
is still open. Then `write_head` is the abstract commit because all of `lh` is `Copied`;
`install_trans` does not show because what it writes home is what readers see in the
cache; a torn block is never one the recovery reads, or is one it
writes again (`SameRecovered`).

`ReservationsFit`, the room that `begin_op` keeps for every operation, is proved with the same
invariant. What it needs besides is `Kept`: the blocks of an operation are in `lh` and are
forgotten when the operation ends. The count is of pairs of a thread and a block
(`Written`), which a step changes by one pair or by all those of one thread. From it follows when the panics
of `log_write` cannot happen (`LogPanicFree`). Its test, `lh.n >= log.size - 1`, comes before the one for absorption and wants a
block more than `begin_op` reserves; so room for `MAXOPBLOCKS` blocks each is not quite enough, and
`Slack` says how much an operation may write: with the sizes of `param.h` and a log of
`LOGSIZE` blocks on the disk, at most `MAXOPBLOCKS` - 2 = 8 blocks. The assumption of the module is `LogAssumption`: the log has room for one operation,
the sets of threads and blocks are finite, and blocks have some contents.

### Pipe

`data`, `nread`, `nwrite`, `readopen`, `writeopen` are `struct pipe`; `lock` is the holder of
`pi->lock`. `UINT` is the number of values of the two counters, a multiple of
`PIPESIZE` as 2^32 is, so small that they wrap around. A step is a turn of a loop of
`pipewrite` or `piperead`; `Sleep` and `Resume` are `sleep`, `kill` may come at any point
because `killed` is not protected by `pi->lock`. An end is closed when no call on it
is in progress: a call holds a reference to its file. `Fifo` is the abstract queue.

`PipeProofs` proves that the pipe implements it. The abstract queue is the part of
the ring between `nread` and `nwrite`, so the argument is arithmetic: `Counters` says what the
difference of two counters that wrap around tells about the pipe, `DistinctMod` that
two bytes in the pipe never share a slot, and `QueuePut` and `QueueGet` that a byte is
appended and removed. The inductive invariant `IInv` adds to the types that the lock has one
holder (`Mutex`), that readers are not in writing code (`Roles`), that at most `PIPESIZE`
bytes are in use (`Bounded`), what a sleeper or a thread about to sleep knows (`WriterWaits`,
`ReaderWaits`), and that a reader that has copied nothing still sees what `ReadReady` saw (`FirstByte`). The
assumption is `PipeAssumption`: `PIPESIZE` divides the range of the counters, which is larger.

### Sched

A thread is the scheduler of a CPU or a process. `run` says which thread a CPU runs,
`lk` which CPU holds a spinlock, `intr` and `intena` are the interrupt flag and its saved
value. `noff` is the number of locks held. A step goes from one `acquire` that may
have to spin to the next; a lock taken and released without anything in between
that others can see is `Touch`; successive calls of `sys_uptime` are one.

| actions | code |
|---|---|
| `SchedScan`, `SchedPick`, `SchedSwitch`, `SchedBack`, `SchedRound` | `scheduler` |
| `sched`, `forkret`, `Yielded`, `Woken` | `sched`, and what its callers do when they run again |
| `Trap`, `TrapIn`, `TrapEnds`, `TrapOut` | `usertrap`, `usertrapret` |
| `KernelTimer`, `IdleTimer`, `clockintr`, `ClockEnds` | `kerneltrap`, `devintr`, `clockintr` |
| `WakeupSkip`, `WakeupFound`, `WakeupTime` | the loop of `wakeup` |
| `yield`, `YieldTime`, `sleep`, `SleepTime`, `Reacquire` | `yield`, `sleep` |
| `sys_sleep`, `SleepLoop`, `SleepReturns` | `sys_sleep` |
| `wait`, `WaitFound`, `freeproc`, `WaitCopyoutFails`, `WaitNone` | `wait` |
| `kill`, `KillTime`, `exit`, `ExitLock`, `ExitTime` | `kill`, `exit` |

The processes are all children of the first, and exist from the start: `fork` is in
`Proc`. A CPU that acquires a lock it holds can take no further step, which is what
the loop in `panic` does. The amounts of time are not modelled, only the locks that
reading the clock takes.

`ps_info` takes `p->lock`, then `wait_lock` and the lock of the parent, then `tickslock`;
`PsState`, `PsWaitLock`, `PsParent`, `PsTime` and `PsFails` are those steps. The values that
it copies out are not modelled.

`SchedProofs` proves the lock discipline. The properties speak of a few places in the code
only; the inductive invariant `IInv` has to describe all of them, CPU by CPU: the thread it runs
(`Place`), the locks that are held there (`LocksHeld`), whether interrupts are on and what `pop_off`
will restore (`Interrupts`), whether the code runs for a call, for an interrupt or on the way out (`Reasons`),
and the state of the process (`States`). A process that is on no CPU waits in `sched` with what it
will find again (`Waits`); it is `RUNNING` only while a scheduler that holds its lock is about to
switch to it (`Picked`). `OneThread` says that no two CPUs run the same thread. The step of one CPU leaves
what is said of another alone because it changes the state of a process only under a lock that
the other does not hold (`OtherCpu`, where `Local` collects what a step may change). `NoSleeper` is what the
absence of `sys_sleep` gives. The assumption is `SchedAssumption`: CPUs, processes, locks and
channels are told apart.

### Disk

`Disk` is the way of a block from `bread` to the device: the buffer cache (`blockno`,
`valid`, `refcnt`, `data`), the sleep lock of a buffer (`owner`, with its sleepers in `pc`), the
driver (`free`, `desc`, `info`, `avail`, `used`, `vdisk_lock`) and the device (`platter`, `working`,
`raising`, `interrupt`), which is external. `latest` is a history variable: what was last
written to a block.

| actions | code |
|---|---|
| `Bget`, `Acquiresleep`, `Releasesleep`, `Bwrite`, `Brelse` | `bio.c`, `sleeplock.c` |
| `AllocFails`, `Submit`, `Finish` | `virtio_disk_rw`, in the parts between its sleeps |
| `IntrEnter`, `IntrEntry`, `IntrExit` | `virtio_disk_intr`, a step for each entry of the ring |
| `Kill` | `kill`, which wakes a sleeper whatever it sleeps for |
| `DevFetch`, `DevComplete`, `DevRaise` | the device, which completes requests in any order |

Any unreferenced buffer may be recycled; the order of the LRU list only chooses among
them. The rings are queues, because no more than a third of their entries is ever in
use. Several ring sizes are initial states of one run.

`DiskProofs` proves that descriptors and contents are kept. Its inductive invariant has three parts.
`Cache`: a block has one buffer, `refcnt` counts the threads that use the buffer, and its lock
belongs to the one that goes on with it. `Rings`: each request in flight is a chain of three
descriptors that carries the block, the buffer and the status address of its thread
(`Linked`), chains are disjoint and the rest is free, and a request is in exactly one of the available ring, the
device, the used ring and the past, which is what `ondisk` tells the thread. `Contents`: the disk differs from
the last write of a block only while the request that writes it is pending, and a valid buffer agrees
with the last write. The assumption is `DiskAssumption`: at least as many buffers as threads
(`bget` panics otherwise) and rings of at least three descriptors.

### FileTable, FileBlocks, Inode

The file system is modelled in three parts that meet in `ip->ref` and `ip->lock`.

`FileTable` has the table of open files, the descriptors of the processes and what an
open file refers to: an end of a pipe or an inode. A step is a section under
`ftable.lock`; the last `fileclose` lets go of the pipe or the inode in a step of its own,
after it has released the lock. `sys_pipe`, `pipealloc` and `sys_open` are followed through each of
their failures; a refused `open` (a directory to be written, a device that does not exist, no file or descriptor
left) puts the inode back. `fork` and `exit` go through the descriptors one at a time. A descriptor is a place
`<<p, fd>>` (`FdPlaces`), a file that a call holds in a local variable is one of the two places of its process
(`Slots`), and `file` is the rest of `struct file` as a record. `initproc` runs at first and never exits:
`exit` panics for it.

`FileTableProofs` proves its properties, which are ledgers: `f->ref` is the number of places that name the
file (`Counted`), an end of a pipe has one owner while it is open and none afterwards (`Ends`), and `ip->ref` is
the number of calls and files that refer to the inode (`Inodes`), where an owner is an entry of the table or the
copy that a `fileclose` has yet to let go of. They are numbers of places that hold a value (`Count`), not sums, and a step
changes a few places: `CountMove` says what one change does to a count, so no induction over the tables is needed. The
counts alone are not inductive. An entry that `filealloc` hands out must stand for nothing (`FreeAreNone`); the
file that `pipealloc` has not set up yet must have no other name (`Fresh` in `Calls`); the locals of a call
must be empty outside it (`InCall`), or they would count for ever; and the descriptors ahead of the loop of `fork`
and behind that of `exit` must be free (`Loops`), or an assignment would drop a
reference that nobody puts. `Types` contains `panic = "no"`: neither `filedup` nor `fileclose` meets a file without references. The
assumption is `FileTableAssumption`: there are finitely many processes, `initproc` is one of them, the tables are not empty,
and the null file and inode 0 are none.

`Inode` has dinodes, directories, the inode table with its locks, and the calls that
change the tree: `open` with `O_CREATE`, `mkdir`, `link`, `unlink`, `chdir`, over path walks that lock one
directory at a time. `create` and `unlink` wait for a second inode while a directory is
locked, and `iput` frees an inode in three steps (`Iput`, `IputFree`, `IputDrop`), because it
does so while the lock of the table is released. `puts` are the `iput` calls a thread
has yet to make before it goes on. An inode number stands for its slot of the table.

`FileBlocks` has the blocks of files: the bitmap, `addrs` with the indirect block, `size`, and
`f->off`. A step is a turn of the loop of `writei`; `filewrite` begins a transaction for
each chunk, and `tx` collects the blocks which that transaction writes. The disk may be full at any
`balloc`.

`FileBlocksProofs` proves its properties. The inductive invariant says of a `writei` in progress (`Writer`) that it holds
the lock of the inode and began at `f->off`, that its bytes are within the file and its chunk
(`Extent`), that the bytes it has passed have blocks (`Filled`), and that its transaction has written nothing but
the blocks which its bytes can reach, the indirect block, the inode and the bitmap (`Logged`). `TxFits` is then
a count: `MaxChunk` bytes reach at most one block more than they fill (`Span` and
the lemmas on cardinalities). One owner for each block is stated of a table of names (`Owns`), with one
lemma for a block that `balloc` adds and one for those that `itrunc` removes. The assumption is
`FileBlocksAssumption`: sizes are positive and `MAXOPBLOCKS` leaves room for a chunk of one block.

### Vm

Physical pages and user address spaces. A page table is a tree: the page of each node
(`tab`) and the leaf of each virtual page (`pte`). A step ends at each `kalloc`, the point at
which processes meet and a call may fail. `fork`, `exec`, `sbrk`, `exit` and `wait` are followed through
`proc_pagetable`, `uvmalloc`, `uvmcopy`, `uvmunmap`, `freewalk` and their undo paths; `before` is a history variable,
the image after the last successful call. `copyin`, `copyout`, `copyinstr`, `fetchaddr` and `fetchstr` are
pure: each is an operator, compared in `CopyExact` with what the mapped bytes allow.
Addresses are computed modulo `UINT64`.

### Console

The threads in `consoleread` and `consolewrite`, the handler `uartintr` and the UART (external).
The step of a thread that has read the status register and will write the transmit
register is split there, since the other lock's holder may write in between. `Tty` is what
readers are promised: lines that can be edited until they end and are then read once,
in order, one line at most for each `read`. `Fifo`, the queue of `Pipe`, is what writers are promised of
`uart_tx_buf`.

`ConsoleProofs` proves both refinements. The finished lines and the line being edited are adjoining windows on
the ring, from `r` to `w` and from `w` to `e` (`Layout`), and the lemmas on windows say what moving one of
the indices does to them: `WinAppend` for a character, `WinFront` for an erasure, `WinBack` for a read, `WinConcat` for a
line that ends. That the indices wrap around does not show because the size divides their range (`ModMod`).
The invariant of the input side is `Line`: the two windows fit into the buffer. For the output side
(`Port`) it is that whoever is between the test of the status register and the write of the
transmit register holds `uart_tx_lock`, with a byte to send. `Awaited`, what a sleeping
reader knows, is inductive given `Line`. The assumption is `ConsoleAssumption`: the size of the input
buffer divides the range of its indices, which is larger.

## Runs

| run | question | instance | result |
|---|---|---|---|
| `proc_calls` | are pids complete and unique, listings right, exits noticed? | 3 entries, 3 namespaces, 2 levels, 4 pids, every call | holds |
| `log_atomic` | are operations atomic across crashes, is every home block covered by the header, does the log suffice, do sleepers wake? | 2 threads, 2 blocks, 2 values, log of 4, 3 buffers | holds |
| `pipe_fifo` | is a pipe a FIFO, are sleepers woken, do calls return after a hang-up? | 2 readers, 1 writer, 2 bytes of room, counters modulo 4 | holds |
| `sched_handover` | does `p->lock` protect the context switch, and does `intena` follow the thread? | 2 CPUs, 2 processes, every call | holds |
| `sched_fair` | does `acquire` never panic, and does every process get its turn? | 1 CPU, 3 processes that wait, kill and exit | holds |
| `sched_deadlock` | do CPUs never spin for each other's locks? | 2 CPUs, 2 processes | violated |
| `disk` | does the holder of a buffer see the last write, are descriptors kept, does every request return? | 2 threads, 2 buffers, 2 blocks, 2 values, rings of 5 and of 6 | holds |
| `inode` | do counts cover names and references, is nothing freed that is in use, do copies agree with the disk? | 2 threads, 3 inodes, 2 names, paths `/a/b` and `a` | holds |
| `file_table` | does a file live as long as its descriptors, and is each pipe end and inode let go of once? | 2 processes, 3 files, 2 descriptors, 1 pipe, 1 inode | holds |
| `file_blocks` | have blocks one owner, has a file a block for every byte, does a transaction fit its reservation? | 2 processes, 2 files, 5 blocks of 2 bytes, 1 direct and 3 indirect | holds |
| `vm` | has every page one owner, does a failed call leave the image alone, do copies move exactly the bytes that are mapped? | 2 processes, 17 pages of 2 bytes, 3 levels of 3 entries | holds |
| `console` | is the console a line discipline and the transmitter a FIFO, and do both sides wake? | 1 reader, 1 writer, 2 bytes of input, 1 of output, counters modulo 4 | holds |

Bounds. Three entries are `initproc`, a child and a grandchild or a sibling, enough for
a parent that exits while its child builds another process. Four pids reuse an
entry. Three namespaces on two levels contain a namespace lost to the depth check. In
`log_atomic` two operations of two blocks overlap, share blocks and absorb writes; readers of
other blocks hold buffers, so that the commit runs out of them; two values tell an old
block from a new one. In `pipe_fifo` a call of three bytes does not fit into the pipe, and
two readers compete for one byte. Two CPUs and two processes move every process
between CPUs. A ring of five descriptors lets an allocation fail half-way beside a
request in flight, one of six has two in flight. In `inode` the inodes run out, and two
names suffice for a directory in a directory, two links to a file, and a name that
is removed during a walk. In `file_table` there are more descriptors than files, so that each
step of `sys_pipe` fails in some run, and a process that forks while its child closes what it inherits. In `file_blocks` a write needs two transactions, crosses into the
indirect blocks, and the disk holds one full file. In `vm` each `kalloc` of each call
fails in some run. In `console` all indices wrap.

Symmetry. `inode` and `file_blocks` permute threads or processes, which have no
special roles there; these runs check no liveness. `file_table` has `initproc` and uses none.

Deadlock is checked except where the system may stop: a pipe with both ends
closed, and CPUs that panic or spin for ever. In `Disk`, `Inode`, `FileTable`, `FileBlocks` and `Vm` a call of
`panic` stops everything (`panic = "no"` is a conjunct of `Next`), so the check for deadlock
also shows that no panic is reached, and that no two calls wait for each other's inodes.

Fairness. In `Proc` a thread inside the kernel goes on to its next step (`WF` of
`KernelStep`): the scheduler visits every runnable process, and timer interrupts take
the CPU from every other. Nothing is assumed of what processes do in user space.
In `Log` operations end (`SF` of `end_op`, which competes for buffers with others), and a
thread that commits, recovers or releases a buffer goes on; `SleepersWake` excludes
readers that keep taking the buffers a commit needs. In `Pipe` a thread inside a call
goes on when it can (`WF` only: a spinlock guarantees nobody its turn, so
`HangupNoticed` excludes other threads that keep calling). In `Sched` a CPU executes
its code (`WF`), timers fire again and again (`SF` of `Timer`, which is disabled while
interrupts are off), and between two interrupts there is time for a step of the
scheduler (`SF`): a tick is a tenth of a second. In `Disk` the device fetches, completes
and interrupts (`WF`); the handler and a thread whose request is done compete for
`vdisk_lock` with other threads and get it in the end (`SF`). In `Console` the device
sends (`WF`), and the polling loop and the last step of the handler, which others can disable, are
reached in the end (`SF`); nobody need ever type, read or write, and `WriterWakes` excludes keys
that arrive without end.

### What the violation shows

`scheduler`, `yield`, `sleep`, `kill` and `exit` read the time, and with it take `tickslock`, while they hold a
`p->lock`; `clockintr` takes the two locks in the other order. On two CPUs both spin for
ever (`sched_deadlock`).

### Other known disagreements

These definitions are violated too; each is kept in its module so that it can be
checked by putting it into the configuration named here.

* `NoDeadParent` (`MCProc.cfg`, invariant). `reparent` hands orphans to `get_ns_head(pp->ns)`. `head` is never
  cleared, so the children of a namespace head that exits keep the exited process as
  their parent. (The same call makes a namespace head its own parent when the
  process that cloned it exits.)
* `NamespaceFreed` (`MCProc.cfg` with `SPECIFICATION FairSpec` and `NUMNS = 2`, property). `used` is never
  reset: a namespace is lost after its last process, and after every `clone` that fails.
* `PsListSeesOnlyOwn` (`MCProc.cfg`, property). `ps_list` looks at `state` and `ns` before it takes
  `p->lock`, and the entry may belong to another namespace when it reads the pid.
* `NoReacquire` with `sys_sleep` (`MCSched.cfg` with `Calls <- EveryCall`, invariant). `clockintr` holds `tickslock` while
  `wakeup` reads the time of every process it wakes, which acquires `tickslock`: the tick
  after a call of `sys_sleep` is a panic. `sched_fair` therefore leaves `sys_sleep` out.
* `OrphansFreed` (`MCInode.cfg`, invariant). The comment at `fs.c:332` says that the last `iput` of an
  inode without links frees it. `iput` marks the inode free on the disk (`fs.c:352`) before it takes
  its own reference back (`fs.c:360`). In between `ialloc` may hand out the same number, and a `create` that
  fails may put it again, with `nlink` 0 but two references; the first `iput` then drops
  the last reference without another test, and the inode stays allocated.
* `ps_info` takes `wait_lock` while it holds a `p->lock`; the comment at `proc.c:31` says that `wait_lock`
  must be acquired before any `p->lock`.

Further observations, visible in the models and not the subject of a property: `wait`
returns the global pid where `fork` returned the pid in the namespace; `kill(0)` matches a
free entry, whose pid is 0; a writer on a pipe that is killed returns without waking
the readers of the bytes it has stored (the exception in `SleepersAwaited`); a `kill` between
the test of `killed` and `sleep` wakes nobody; `log_write` panics over a full log before it
looks whether the block is in the log already; `NBUF` equals `LOGSIZE`, so a full log pins
every buffer and leaves none for `commit`; a name may be created in a directory that was
removed meanwhile, and `..` of a removed directory may name a freed inode; `NINODE` is half of `NFILE`,
so `iget` can run out of slots before `filealloc` does; `filewrite` returns -1 after it has
written some of its chunks.

## What is proved

For `Proc`, for every size of the tables, every number of levels and every mix of
calls: `TypeOK`, `PidChain`, `PidsUnique`, `SlotOwned`, `CloneChildIsPid1`, `NoLostWakeup` and
`ListedHavePid` (`ProcProofs`), by the inductive invariant described above.

For `Pipe`, for every size of the buffer, every multiple of it as the range of the
counters and any number of readers and writers: `SleepersAwaited`, `EndOfFile` and the refinement
`IsFifo` (`PipeProofs`), by the inductive invariant described with the module.

For `Log`, for any number of threads, blocks, buffers (at least two) and log entries, and crashes
at every step: `Quiescent`, `WriteAhead`, `ReservationsFit` and the refinement `AtomicCommits` (`LogProofs`), by the
inductive invariant described with the module; and for operations that keep to `Slack`, that `log_write`
and `end_op` never panic (`LogNeverPanics`).

For `Sched`, for any number of CPUs and processes and every mix of calls: `SchedChecks`, `OneCPU` and
`CallsInterruptible`, and `NoReacquire` for every mix without `sys_sleep`, with which it is false
(`SchedProofs`).

For `Disk`, for any number of threads, blocks and descriptors, and no fewer buffers than threads:
`DescOwned`, `HeldIsLatest` and that no panic is reached (`DiskProofs`).

For `FileTable`, for any number of processes, files, descriptors, pipes and inodes: `TypeOK` (with it
that `f->ref` counts the names of a file and that no panic is reached), `EndsOpen` and `InodeRefs`
(`FileTableProofs`).

For `FileBlocks`, for any number of processes, files and blocks, all block sizes and all
`MAXOPBLOCKS` from 6 on: `BlocksOwned`, `Mapped`, `TxFits`, the action property `WritesAppend` and that no
panic is reached (`FileBlocksProofs`).

For `Console`, for all sizes of the two buffers and any number of readers and writers: `ReaderAwaited` and the
refinements `LineDiscipline` (of `Tty`) and `TxIsFifo` (of `Fifo`) (`ConsoleProofs`).

Every inductive invariant has also been checked by TLC, as an invariant of the instance that the run of
its module uses.

## What is only model-checked

* Liveness (`SleepersWake`, `HangupNoticed`, `RunnableRuns`, `RequestReturns`, `WriterWakes`): the prover
  handles no fairness.
* Everything about `Inode`. `NlinkCovers` and `InUse` are ledgers like those of `FileTable`, but kept across
  path walks, three steps of `iput` and directories that name each other; an inductive
  invariant would have to say for each place in that code which inodes a thread has locked and
  which references it has yet to put. This has not been attempted.
* Everything about `Vm`: its page tables are trees, followed by recursive operators.

## Not modelled

* The values that `ps_info` copies out, the time accounting and the byte and page
  counters: plain sums, read by nobody else. What the accounting does to locks is in `Sched`.
* The page table of the kernel, which is made once at start-up, and the contents of
  user pages.
* The layout of the superblock, of dinodes and of ELF files, and `mkfs`: a conversion
  without state. `mknod` is `create` with another type.
* Boot code, assembly, the interrupt controller, the memory order of the processor: below the level of
  these models, which assume that `acquire` and `release` order memory.
* `printf.c` and `string.c`: formatting and copying. `ramdisk.c` is not part of the build.
* The user library and the user programs: one thread each, on top of the calls.
* The instances are checked one by one. `Proc`, `Sched` and the file system share `struct proc` and the
  inode table, but a product of two of them is beyond TLC; each module
  states in its comment what it takes from its neighbour.
