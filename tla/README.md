# A TLA+ verification of the riverix kernel

riverix is a small 32-bit kernel for one CPU: a task table of eight slots, a
round-robin scheduler driven by the PIT, a Unix-like process lifecycle
(`fork`, `exec`, `exit`, `waitpid`), copy-on-write address spaces, a VFS with
pipes over an extent filesystem, and a ping-only network stack. This directory
holds TLA+ models of its parts, the TLC configurations that check them and
machine-checked proofs.

## The system

**Concurrency.** There is one CPU, and every gate of the IDT is an interrupt
gate (`idt.c:139-144`), so a system call or an interrupt handler runs from entry
to return with interrupts off. What interleaves is whole handlers: the system
calls of different tasks, the timer interrupt, which may fall between any two
instructions of a user or kernel task, and the polling of devices that
`proc_schedule` does. A model therefore has one action per handler, including
everything the handler calls.

| Part | State | What is hard about it |
|---|---|---|
| Processes (`proc.c`, `pit.c`) | `tasks[8]`, `current_task`, `next_pid`, the clock | exit and waitpid in either order, reparenting, reaping a task whose stack is in use, a wrapping clock |
| Traps and switches (`interrupts.S`, `idt.c`, `gdt.c`, `pic.c`) | frames on kernel stacks, esp0, CR3 | a handler that returns on another stack than it was entered on |
| Files and pipes (`vfs.c`, `proc.c`) | `fd_table[16]` per task, `file_table[32]`, pipes | shared reference counts, ends of file and broken pipes, retries of blocked calls |
| Memory (`palloc.c`, `paging.c`, `exec.c`, `kheap.c`, `kstack.c`, `mmio.c`) | frame bitmap and counts, page tables, images, heap list | frames shared by several address spaces, calls that fail half-way |
| File system (`vfs.c`, `simplefs.c`) | bitmaps, inodes, extents, directories, in memory and on disk | write order and power failures, extents that move, full disks |
| Block devices (`block.c`, `partition.c`, `ahci.c`, `ata.c`, `ramdisk.c`) | device table, the controller's command | commands that time out and are carried out later |
| Network (`net.c`, `e1000.c`) | one ping session, one ARP entry, two rings | timeouts racing answers, late answers, a wrapping clock |
| Hyper-V (`hyperv.c`, `vmbus.c`, `hyperv_keyboard.c`) | message slot, connection, ring | a host that acts between any two reads of shared memory |
| Console (`input.c`, `vga.c`, `framebuffer.c`), trace (`trace.c`) | character queue, screens, trace ring | full queues, overwriting, wrapping numbers |
| Shell (`user/sh.c`) | pipe ends of its children | who holds which end of which pipe |

`PROJECT.json` lists every part with its status, the lines each definition
models, and the hazards of the code with the properties aimed at them.

## Modules

| Module | Models |
|---|---|
| `Proc`, `ProcProofs` | the task table and the scheduler of `proc.c`, with the clock of `pit.c`; its invariants and action properties for every table size, pid bound and clock width |
| `MCProgress` | liveness of `Proc` and `Files` on small instances |
| `Traps`, `TrapsProofs` | interrupt entry and return, kernel stacks, esp0, CR3 and the end of interrupt; the proof that a program's context is kept |
| `Files`, `FilesProofs` | the fd tables and file system calls of `proc.c`, the open-file table and the pipe counts of `vfs.c`; the proof that the counts are exact and failed calls undone |
| `PipeRing`, `Chunks`, `IoLoops` | what the byte loops of a pipe and the chunk loops of `read` and `write` do, as closed forms and iteration by iteration |
| `PipeQueue`, `BoundedFifo`, `PipeProofs` | one pipe with readers and writers, the bounded queue it promises to be, and the proof that it is one |
| `MCFiles` | instances of `Files`, `PipeQueue` and `IoLoops` |
| `Palloc`, `FrameAllocator`, `PallocProofs` | the page frame allocator, what it promises, and the proof |
| `Frames` | several `palloc` calls in a row as one step |
| `AddressSpace`, `MCAddressSpace`, `ExecLoops` | fork, exec, exit, write faults and copies to user memory; the same one `palloc` call at a time |
| `AddressSpaceLemmas`, `AddressSpaceProofs` | the proof that frames are counted exactly and tasks isolated: lemmas about frames, and the handlers |
| `KernelMemory` | the heap of `kheap.c`, the stacks of `kstack.c`, the device window of `mmio.c` |
| `ExecImage` | what `exec_load_path` and `exec_prepare_stack` put into a program's memory |
| `Paths` | `proc_normalize_path`, `chdir` and lookup from the working directory |
| `MCKernel` | instances of `Palloc`, `KernelMemory`, `ExecImage`, `Paths` and `Traps` |
| `Simplefs` | `simplefs.c` as functions on memory and disk, with a log of the block writes |
| `FileSystem`, `FsTree`, `MCFileSystem` | the path calls on top of it, the image of `mkfs_rootfs.c`, booting, reinstalling and power failures; the tree that programs are promised |
| `BlockStack` | finding the root device, and transfers through partition, AHCI, ATA and RAM disk |
| `Net`, `E1000` | ping sessions, ARP, and the rings of the adapter |
| `VmBus`, `VmBusProofs` | the Hyper-V message slot, the VMBus connection and the synthetic keyboard; the proof that guest and host agree |
| `Console`, `Terminal` | input from devices to the shell's line; output to the two screens |
| `TraceRing` | the trace ring and the program that prints it |
| `Shell`, `MCShell` | parsing of a line and the running of a pipeline |
| `MCDevices` | instances of `BlockStack`, `Net`, `VmBus`, `Console`, `Terminal`, `TraceRing` and `Shell` |

An MC module with several instances has a variable `part`: a behaviour is of one
part throughout and leaves the variables of the others alone. The parts are
independent systems that share a run, not one composed system. A part that theorems are about is
extended and not instantiated, with its constants in the cfg: the run then checks the
definitions that the theorems state.

### Proc

`tasks` is the task table with the fields that steer control: state, kind, pid,
parent_pid, wait_target_pid, block_reason, wake_tick and reap_ready. Names,
credentials, exit statuses and saved registers are left out. `NoTask` stands for
a null task pointer, and `AnyChild` for the -1 of `waitpid`.

`Schedule` is `proc_schedule`, stage by stage in the order of the code:
`Deschedule`, `pit_ensure_progress`, `WakeSleepers`, the service of blocked
tasks, `CollectReapable`, `PickNext`, `Activate`. Which blocked tasks a device,
a pipe or the network completes is a free choice of any subset of them.

Each action is one handler: `TimerInterrupt`, `Yield`, `Sleep`, `BlockOn` (a
`read`, `write` or `ping4` that cannot finish at once), `Fork`, `WaitpidCollect`
and `WaitpidBlock` (the two ways through `proc_sys_waitpid` that change
something), and `Exit`, which is also the end of a task that faults in user mode
(`idt.c:199-201`). A call that fails its checks changes nothing and is a
stuttering step. `EnterInitialTask` ends the boot. `Init` covers a boot in which
`/bin/init` cannot be loaded.

`reported`, `reportedAgain` and `reportFailed` are history variables: they record
what `waitpid` returned and influence nothing.

The tick counter has `2 * HalfRange` values, `2^32` in the code. Sums and
differences wrap as unsigned ones do, and `Before` is the signed comparison of
`proc_wake_sleepers`. `SleepTicks` is assumed to stay within half the range; a
longer sleep is treated by the code as already over.

### Files and pipes

`fd_table` holds for each task the index of an open file or `NoFile` (a null
pointer), `file_table` the inode, flags and `ref_count` of each open file, and
`pipes` the three counts of each pipe. A pipe whose counts are all zero has been
freed, or was never made. File offsets are left out; every file that is not a
pipe has the inode `Other`, and matters only for its references.

A system call is one action: `Open`, `Close`, `Dup`, `Dup2`, `CreatePipe`,
`Read`, `Write`, `Fork` and `Exit`. The ways a call fails after it has changed
something are actions of their own and undo what the code undoes: `OpenFails`
(`proc_open_fd` cannot truncate), `CreatePipeFails` (no second entry of
`file_table`), `CreatePipeUndone` (the result cannot be copied to the caller)
and `ForkFails` (the address space cannot be cloned). `ReleaseFiles` and
`ReleasePipes` are `vfs_release_file`, applied to all the references a call
gives up.

`TryRead` and `TryWrite` are the loops of `proc_sys_read` and `proc_sys_write`,
and those of the retries, which are the same with `blocked_done` zero. `Service` is
`proc_service_blocked_io`: it retries the blocked calls in table order, and runs in
the call that blocks, in `Exit` and in `Reschedule`, which stands for every other
way into `proc_schedule`. `mapped` is how much of the user's buffer can be
accessed. A chunk taken from the pipe that cannot be copied out is lost, in the
code and in the model.

A byte is identified by its writer and its place in what that writer was told
it wrote, so the history variables `written` and `seen` are enough to say what a
pipe must hold. Descriptors of different tasks interleave freely; when a task
runs is the subject of `Proc`.

`PipeRing` states the effect of the byte loops in one step, and `Chunks` where
the chunk loops stop. `IoLoops` transcribes the loops with recursive operators
and checks that the closed forms agree with them.

### Memory

`Palloc` has the four variables of `palloc.c` and one action per function; the
last result is kept so that failures can be spoken of. `palloc_init` is `Init`,
from a set of available frames and a set of reserved ones.

`Frames` says what several calls return: a free frame's `Place` is the number of
frames that `palloc_alloc_page` returns before it, starting at
`next_search_frame` and going round. `ExecLoops` checks this against whole
sequences of calls.

In `AddressSpace` a task has a frame for each page of its kernel stack, its page
directory, the one page table its user pages lie in (they are between 4 and 8 MB),
and its mapped pages. `flags` is "ro", "rw" or "cow" for a mapped page, and `image`
is the list of mapped pages that `exec_image_t` keeps. The contents of a page are
one value. `view` is a history variable: what the task would read if nothing were
shared.

`Fork`, `Exec` and `Release` are the memory side of the system calls, `ForkFails`
and `ExecFails` their error paths. A failing fork has one visible effect: when
only the page table is missing, the parent's first page, if writable, has become
copy-on-write, with one holder; the next write to it takes it back.
`WriteFault` and `CopyTo` both go through `paging_resolve_copy_on_write_in`.
`KernelTakes` and `KernelReturns` are the rest of the kernel using frames. The TLB
is left out: every change of an entry is followed by its invalidation.

`KernelMemory` has `kmalloc`, `kfree`, `kstack_alloc`, `kstack_free` and
`paging_map_mmio` on one pool of frames and one page table. The kernel's page
tables are made at boot (`paging_prepare_shared_tables`), so that only the lack
of frames, of slots or of addresses makes a call fail. A growth of the heap and a new
stack take frame after frame, and when there is no next one run the undo loop of the
code (`UndoPages`, `Rollback`). `ExecImage` looks at the
bytes: segments are copied from a file whose bytes are all different, sums wrap at
`Span`, and a running program may exec another with any arguments, its own
among them.

### Traps and paths

`Traps` has a frame on each kernel stack, and an action for each kind of handler:
calls that return, yield, sleep, block, fork, exec, exit and faults, the timer
and an instruction of the program. What `proc_schedule` picks is any choice, so that
`ContextKept` does not depend on the order `Proc` shows. `Paths` compares the
normalisation of text with a walk through the tree, for all paths of up to three
parts, while directories are made and removed under the working directory.

### File system

`Simplefs` keeps what is in memory and what is on disk apart, and every operation
returns the disk after each block that it writes, in the order of the code; a transfer
of several blocks, such as the inode table, is one write for each of them. The
superblock never changes. An action of `FileSystem` either takes the last disk or, when
the power fails, any earlier one. A block holds a few cells, each a directory entry or a byte, whichever
it is read as. `Boot` chooses the root as `vfs_init` does and hangs the two devices
into `/dev`; `Reinstall` writes the image back in recovery mode. The device always
answers.

`call` is a history variable: the last call with its arguments and what it was told.
`FsTree` is bound to it. A call that is told "ok" makes exactly the change its
arguments say, of the entry they name; one that is told otherwise makes none, but for
the file that an open made before it found the file table full; and everything else,
a boot among it, leaves the tree alone.

Programs can bring simplefs out of order in a few ways that the code does not
guard against, and `Sound` names them: more directories than slots, a directory
whose longer extent could not be found, a child list kept at address 0, and a name
removed from `/dev`. The properties hold as long as none has happened, and programs
stop there (`MayCall`), while the machine can still be booted and reinstalled.

### Devices

In these modules the device is an actor of its own, and its steps fall between the
polls of the driver. In `BlockStack` a call issues commands, and a poll finds the
command done, failed or not done, or gives up; what was given up may still be
carried out, and `abandoned` is the memory it may still write. `Boot` is the search
for the root device on a given machine, on which the controller may have no usable
register window and the first command, IDENTIFY, may fail or be given up. Numbers from
64-bit fields are cut with `Word` where the code cuts them. In `Net`
the adapter stores and sends frames, and any frame that an earlier request deserves
may arrive at any time, several times or never. In `VmBus` the host handles
messages, delivers into the slot and types; the guest's poll of the slot is three
steps, because the host may act between them. In `Console` the two input devices
fill up beside the polls. `Terminal` compares each screen with the end of the text
laid out on a page without end. In `Shell` a pipe is who holds which end and
whether there is something in it.

## Runs

| Run | Instance | Shows |
|---|---|---|
| `proc_lifecycle` | 5 slots, idle and init, 4 forks | exits are heard, the table is in order after every handler, slots are released safely |
| `progress` | 4 slots and a clock of 4 values, with a timer and without; 2 tasks and a pipe of 1 byte | no starvation, sleepers wake, on time, no lost wakeup |
| `proc_wait_missed`, `proc_reported_twice` | 5 slots, 3 forks; 4 slots, 2 forks | violations, see Findings |
| `files` | a ring of 4 bytes with its loops; 2 tasks, 3 descriptors and 3 files; 3 tasks and a pipe of 2 bytes | loops agree with their closed forms, reference counts are exact, failed calls leave no trace, every byte once and in order |
| `kernel` | 8 frames with a hole; pages of 8 bytes and pools of 1 to 6 frames; files of 12 bytes; paths of up to 3 parts; 3 tasks | refinement of `FrameAllocator`; heap, mappings, images, arguments, paths and contexts are exact |
| `address_space` | 17 frames, 3 tasks, 2 programs | frame counts are exact, sharing is invisible, fork, exec and release agree with their loops and error paths |
| `filesystem` | 5 inodes, 3 to a block of the table, 5 blocks of 2 cells, 4 directory slots, 2 users | bitmaps and directories agree, every change is on disk, refinement of `FsTree` call by call, a power failure harms only the range being written, access is respected |
| `filesystem_reboot` | the same with 4 blocks and one more directory | a violation, see Findings |
| `devices` | see `MCDevices` | transfers, pings, rings, host and guest, keys, screens, trace, command lines and pipelines |
| `console_backspace`, `shell_redirect` | a short line | violations, see Findings |

**Properties.** `ExitsHeard` combines unique pids, parents that are alive, waiters
that have a live child, and no zombie beside a parent that waits for it, init
excepted. `TableInOrder` says that the current task is the one that runs, that idle
runs only when nobody else can, and that at most one collectable zombie is left.
Some properties are conditional where the code is. `HostAgrees` holds while no
wait was given up. `NeverStuck` excepts the race for the message slot, and a driver
that gave up a wait and failed. `RingsAgree` excepts a transmit ring with every
descriptor in use. `ResultEarned` cannot tell a session from one a whole round of
identifiers earlier, and its time-out half is claimed outside the upper half of the
tick range. The properties of the file system hold while it is `Sound`. In each case
the exception is something the code does; the property shows that there is no other.

`CrashKeepsData` asks that the disk mounts, that all other paths are as they were, and
that a file which was being written has its old length or its new one and, outside the
range, its old bytes. `AccessRespected` is about both users, and user 1 also tries to make and remove
entries in `/`, in `/dev` and in a directory of user 0. `Confined` asks that memory
changes only in the buffer of the read in progress or in one that a driver gave up on.

**Bounds.** Three generations (init, child, grandchild) and a sibling are what
reparenting and waitpid can tell apart, and five slots with four forks hold them
while slots are also reused. Pids are bounded by `MaxPid` because each fork
consumes one. A clock of four values wraps within every long behaviour.

In `files`, the second instance has as many open files as descriptors of one
task, so that both tables fill up and sharing through `dup` and `fork` still leaves
a file to open. The third has a third task because two writers and a reader are
what interleaved streams need; a chunk of one byte makes every longer call a loop.
`MaxBytes` bounds what one task writes, and `Calls` leaves out the calls the
question does not depend on. In the first, one write is longer than the ring.

`address_space` has room for three tasks and a few copies, but not for every copy,
so allocations fail at every point of fork, exec and write faults. Its `VIEW` is
`Shape`: states that differ only in the names of frames, or in what free frames
contain, count as one, because which free frame is chosen changes only names.
`Shape` keeps the reference count of every held frame and the number of free ones,
so a leak or an early free gives a new shape. The comparison with the loops is made
on exact frame numbers, at every step TLC takes.

In `kernel`, pools of several sizes let each growth of the heap and each stack fail
at every page; sizes go past a page and regions end at the end of the address
space. Files have segments that touch the ends of a page, of the file, of the user
range and of the 32-bit range. In `filesystem`, five blocks are too few for every file and
directory at once, so extents run out; they are just enough for a file of one block,
shut in by a directory, to be moved to two others when it grows. With three of the five
inodes in the image, at most two entries exist at a time: a behaviour is given two or
three of the paths (`Workloads`), which between them cover the pairs that matter. The
`VIEW` leaves out what free blocks hold, which is zeroed before use, and after a power
failure keeps only whether the disk can be booted. `MadeBy` fixes who tries to create
which path. In
`devices`, rings, queues and counters are small enough to fill and to wrap:
transmit rings of 2, tick counters of 6, 2 identifiers, a trace of 2 records
numbered modulo 6, a character queue of 2, and all command lines of up to five
characters. `Loads` gives a behaviour of `Net` either three sessions, so that an
identifier comes again while answers to its first session are still under way, or
two and frames that nobody asked for. The two tasks that ping are symmetric: nothing in
`Net` orders them. In `BlockStack` the largest block number stands for the largest of
32 bits: a request begins at it, and one partition table lies beyond it. `MaxCalls`, `MaxKeys`, `MaxTyped`, `MaxWritten`,
`MaxLogged`, `MaxGiveUps` and `MaxLines` end behaviours whose histories would
grow; the deadlock check is off in the runs with such bounds and on in the others.

**Fairness.** Only `progress` assumes any. In the part `timer` the first task is
entered and the timer keeps interrupting: the PIT runs at 100 Hz, no handler loops,
and user and kernel tasks run with interrupts enabled. Nothing is assumed of system
calls or devices. In `polled` the timer never interrupts (`pit_ensure_progress`):
the clock advances only because the idle task and the workers yield, and what is
assumed is that the running task keeps yielding. In `pipes` `Reschedule` keeps
happening, which is again the timer. No program is assumed to make any call.

## Findings

* **A missed exit** (`proc_wait_missed`). A task that exits hands its children
  to init by changing their parent_pid (`proc.c:819`). If one of them is already
  a zombie and init is blocked in `waitpid(-1)`, init is not woken. It stays
  blocked until another of its children exits. For every other task the exit is
  never missed: `ExitsHeard`.
* **An exit reported twice** (`proc_reported_twice`). When the parent is blocked
  in `waitpid`, `exit` answers it and marks the zombie `reap_ready`, but the
  zombie is on its own kernel stack and is collected only at the next scheduling
  pass. If the parent runs first and calls `waitpid` again,
  `proc_find_zombie_child` (`proc.c:1704`) returns the same child once more.
* **A disk that no longer mounts** (`filesystem_reboot`). `mkdir` does not count
  directories, but `simplefs_mount` needs child slots for each of them
  (`simplefs.c:289`) and fails when they run out.
* **A backspace without effect** (`console_backspace`). `console_inode_read` can
  take back only a byte of the same read (`vfs.c:264`), and the shell reads a line
  one byte at a time.
* **A redirection that is lost** (`shell_redirect`). `tokenize_stage` ends a word
  by overwriting the character after it (`sh.c:138`), which in `a>b` is the sign.

Not disagreements with anything the repository says, but worth knowing:

* `palloc_alloc_pages` searches from `next_search_frame` up, and then the frames
  that end before it. A free run across that point is missed, and the call can fail
  although memory is there. `FrameAllocator` allows this failure and no other.
* A `sleep` of more than half the tick range, 248 days, is over at once.
* A task that blocks on a pipe of which it holds the other end waits for ever, as
  on other systems.
* `ata_transfer` does not wait for the last sector of a write to be stored.
* `hyperv_poll_message` reads the pending flag before it empties the slot, and a
  message that the host queues in between is not asked for. A driver that gives up a
  wait and fails polls no more, and a message that comes late stays in the slot.
* After `vmbus_wait_for_flag` has given up, a late answer is taken for the answer to a
  later request.
* A command that `ahci_wait_command_complete` gave up on is still carried out, into
  memory that its caller has back; for IDENTIFY that is a stack frame of `ahci_init`.
* The block number of the partition table's entries is cut to 32 bits
  (`partition.c:157`), so that a larger one names another block of the disk.
* A directory gives its blocks back before a longer extent has been found
  (`simplefs.c:342`), and keeps none when there is none.
* With every transmit descriptor in use the e1000's head and tail are equal, which
  the adapter takes for an empty ring; `e1000_transmit` then refuses every frame.
* A power failure inside `unlink`, inside the growth of a directory or inside a
  reinstallation can leave a disk that does not mount; it can be reinstalled in recovery mode.

## Proofs

`ProcProofs` proves, for every `MAX_TASKS`, `Workers`, `MaxPid`, `HalfRange`,
`SleepTicks` and `DeviceReasons` that the assumptions of `Proc` allow:

| Theorem | States |
|---|---|
| `TypeCorrect` | the type invariant |
| `ExitsAlwaysHeard` | `ExitsHeard`, from the lemmas `FamilyTree` and `WaitNotStuck` |
| `TableAlwaysInOrder` | `TableInOrder`, from the lemmas `CpuNeverLost` and `ZombiesCollected` |
| `SlotsReleasedSafely` | the action property `ReleasedSafely` |
| `SleepersWakeOnTime` | the action property `WakesOnTime` |

The assumptions say that the table holds the boot tasks, that the pid bound
covers them, and that a sleep is between one tick and half the counter's range.

The inductive invariant `Inv` has two modes: until the first task is entered the
table is the one built at boot (`Booting`); afterwards exactly the current task
is RUNNING, the idle task is RUNNABLE or RUNNING (`IdleReady`) and the parent
relation is sound (`Family`). Neither `CurrentRuns` nor `ParentsLive` is
inductive alone: the first needs that the idle task can always run, and that in
turn needs that only user tasks block, exit or have parents; `NoMissedExit` needs
that a zombie ready for collection is one whose parent has been told.

The proof follows the code. `ScheduleStep` shows once what `proc_schedule` may
do to a slot (`SlotStep`); `ScheduleKeeps` shows that such a step preserves the
invariant from a table in which the caller may already be waiting or dead. Every
handler is then an edit of the table followed by that step. `ExitInv` is the
longest: it follows the table through `ReparentChildren`, `Zombie` and
`NotifyParentExit`.

The two action properties are proved from `Inv` and from what every handler leaves
to `proc_schedule`, `HandedOver(ts, now)`: zombies and sleepers other than the caller
are as they were, except that an exit makes the zombies among its children
ready for collection, and the clock has moved by one tick at most. `ScheduleStep` then says
which zombies go. `WakesOnTime` needs one invariant more, `SleepersAhead`: the
`wake_tick` of every sleeper is ahead of the clock in the signed comparison. With
it a clock that moves by single ticks cannot pass a `wake_tick` (`NotSkipped`),
whatever the width of the counter and wherever it wraps.

`PipeProofs` proves, for every buffer size, byte set, offer and request:

| Theorem | States |
|---|---|
| `RingWellFormed` | `RingOK`: indexes and count are in range, and the buffered bytes end at `write_index` |
| `PipeImplementsFifo` | `PipeIsFifo`: with `Contents(ring)` for the queue, every read and write is one of `BoundedFifo` |

`RingOK` is inductive as it stands. The refinement rests on two lemmas,
`WriteContents` and `ReadContents`, which follow single bytes round the buffer:
a slot that is written lies `AheadNew` of the buffered bytes, and those already
there are `AheadOld` and keep their place. Both theorems are about the closed
forms; that the loops compute them is checked by `LoopsAgree` only, since it
needs an induction over the loop.

`PallocProofs` proves, for every number of frames, memory map, reserved set and
set of run lengths:

| Theorem | States |
|---|---|
| `BooksAlwaysAgree` | `TypeOK` and `BooksAgree` |
| `PallocRefines` | `PallocAllocates`: every step is one of `FrameAllocator` |

`Inv` is the conjunction of the type invariant and the books, which is inductive;
the counting is in `GrantKeepsInv` and `FreeKeepsInv`. The refinement uses `Inv`
because `palloc` searches the bitmap and the abstract allocator counts holders, and
`MissedRuns` because a run that the search does not see must lie across the place
where it starts.

`TrapsProofs` proves, for every number of tasks, set of workers, number of positions in
a program and set of results (`TrapsAssumption`):

| Theorem | States |
|---|---|
| `ContextIsKept` | `ContextKept`: the running program has its registers, address space and kernel stack, and the frames of the others wait untouched |

`ContextKept` speaks of the tasks that are not current and of live ones only, so it is
not inductive alone. `Inv` adds types, that the page directories of all tasks
are distinct, a dead one included (its slot keeps the directory until it is reaped),
and that the current task is marked as running. Inside a handler the
current task's registers are on its stack and not in the processor: `Framed` says so for the
state between the push and the pop, `Parked` for the state after
`proc_schedule` has stored the stack pointer, and each stage of a handler leads from one to the other.

`FilesProofs` proves, for every number of tasks, descriptors, open files and pipes
(`FilesAssumption`: there is room for the standard descriptors):

| Theorem | States |
|---|---|
| `RefCountsAreExact` | `RefCountsExact` |
| `FailedCallsAreUndone` | the action property `FailedCallsUndone`: a step of `OpenFails`, `CreatePipeFails`, `CreatePipeUndone` or `ForkFails` changes nothing |

`Inv` adds to the counts that an entry without references is cleared, as otherwise a stale
one would count as an end of a pipe, and that a slot without a live task has no descriptors,
as otherwise a fork would overwrite references. The counting is in
`DroppedHolders` and its counterparts: the descriptors that a call clears or sets are as many as
`References` says, and a file whose count reaches zero takes exactly its own ends from
its pipe. A failed call is undone because the references it releases are those it took.

`AddressSpaceProofs`, with the lemmas of `AddressSpaceLemmas`, proves, for every number of
frames, every finite set of tasks and slots, every kernel stack and all programs
without repeated pages (`SpaceAssumption`, `FramesAssumption`):

| Theorem | States |
|---|---|
| `FramesAreExact` | `FramesExact` |
| `TasksAreIsolated` | `Isolation` |

Neither is inductive alone, and neither can be proved without the other. `Inv` adds that a
live address space has frames for exactly the slots that its release gives up
(`Complete`), and that a page that may be written without a fault is on a frame that
nothing else holds (`Exclusive`). A write without a fault keeps `Isolation` by `Exclusive`; a write
fault that keeps the frame re-establishes `Exclusive` because the count it reads is one and
counts are exact; and an allocation keeps both because a frame whose count is zero is
held nowhere. `Taken` is what several allocations hand out, and `PlaceIs` that no frame is
handed out twice among them. That the handlers do the same one `palloc` call at a time
is checked by `CallLoopsAgree` only.

`VmBusProofs` proves, for every non-empty list of positive versions, every host and
any number of waits that are given up (`VmBusAssumption`):

| Theorem | States |
|---|---|
| `HostNeverStuck` | `NeverStuck` |
| `HostAlwaysAgrees` | `HostAgrees` |

`NeverStuck` follows from `Waited`: a host that waits for an end of message does so with its
pending flag in the slot, or with the flag already seen by the poll that is under
way; and from `Conversation`, by which a host has nothing queued for a driver that failed
without giving up a wait. `HostAgrees` needs to know every message between the two parties. `Conversation` says
that a control message is posted and not handled, or its answer is under way and is
the only one, or it has arrived, or nothing is asked; and that an answer says what the host
did (`Honest`). Once a wait was given up a late answer may be taken for another one,
and `HostAgrees` promises nothing.

The assumptions of `PipeRing`, `PipeQueue`, `Traps`, `Files` and `VmBus` are definitions that the
theorems name; `MCFiles`, `MCKernel` and `MCDevices` assume them, so that TLC evaluates them for the
constants of the runs.

What is only model-checked, and why:

* Liveness (`RunnableRuns`, `SleepersWake`, `NeverLeftReady`) is out of the prover's reach.
* `BlocksExact`, `Durable`, `ImplementsTree`, `CrashKeepsData`, `AccessRespected`, `PingEnds`,
  `RingsAgree`, `ResultEarned`, `ParsesWords`, `PipelineEnds`, `LoopsAgree` and
  `CallLoopsAgree` are about modules that use recursive operators (`Simplefs`,
  `FileSystem`, `Net`, `Shell`, `IoLoops`, `ExecLoops`), which the prover does not accept.
* `HeapExact`, `StreamsExact`, `PathsAgree`, `ImageExact`, `ArgsExact` and `KeysInOrder` compare what
  a recursive function or a fold over a sequence computes with a
  reference, which takes an induction over data.
* `MappingsExact`, `KeysDelivered`, `ReadEdited`, `ScreensShowEnd`, `TraceExact`, `TransferExact` and
  `Confined` have no proof yet.

## Not modelled

* Boot assembly, the setting up of descriptor tables, CPUID, PCI enumeration
  beyond its results, serial output, `panic`: code that runs once in a straight
  line, without a party beside it.
* Layout of data: ELF, ethernet and partition headers, checksums, pixels, messages.
* Block devices that fail under simplefs, and the paths taken after that.
* Groups: no mode that the kernel or the image gives tells the group from the others.
* User programs other than the shell, the trace printer and the line reader: the
  models allow any sequence of calls.
* Compositions: `Proc` and `Files`, or `Net` and `Proc`, are not run as one system.
  Where they meet, each allows what the other may do: `Proc` lets any blocked call
  complete, `Files` and `Net` let any task call.
