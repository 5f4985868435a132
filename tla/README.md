# A verification project for JYY-OS

JYY-OS is a small multiprocessor kernel (`kernel/`) on the course's hardware
abstraction layer (`abstract-machine/`), with a number of user-space programs
beside it (`plcs`, `sperf`, `pstree`, `crepl`, `frecov`).  This directory holds
TLA+ models of the kernel's core, the TLC runs that check them and TLAPS proofs
about them.  `.shadow/` in the source tree repeats the same code and is not
considered.

1. [The system](#the-system)
2. [The models](#the-models)
3. [The runs](#the-runs)
4. [The proofs](#the-proofs)
5. [What the checks found](#what-the-checks-found)
6. [Not modelled, and the plan](#not-modelled-and-the-plan)

## The system

| Component | State | Operations | Interaction |
|---|---|---|---|
| **kmt: tasks and scheduler** (`kmt.c`, `task.c`) | `task_list`, `task_cnt`; per task `block`, `is_running`, `nested_interrupt`, `context[]`, `status`; per CPU `current_task`, `save_task`, `idle_task` | `kmt_create`, `kmt_context_save`, `kmt_schedule` | in every trap but a system call, after the handler of the event: the save, then the schedule; `block` is written by semaphores |
| **kmt: semaphores** (`kmt.c`) | `resource`, `task_list[0..task_cnt-1]`, a spin lock | `kmt_sem_init`, `kmt_sem_wait`, `kmt_sem_signal` | P blocks the current task and yields; V may run in an interrupt handler |
| **kmt: spin locks** (`kmt.c`, `lock.c`) | lock word, `cpu_num`; per CPU `noff`, `intena` | `kmt_spin_lock`, `kmt_try_spin_lock`, `kmt_spin_unlock`, `holding`, `push_off`, `pop_off` | guard everything above; keep interrupts off |
| **os** (`os.c`) | the ordered list of handlers | `os_init`, `os_run`, `os_on_irq`, `os_trap` | boot order pmm, kmt, uproc, dev; `os_trap` exits killed tasks and calls the handlers in order, of a system call only the first |
| **abstraction layer: boot** (`mpe.c`, `trm.c`, `boot/`, `cte.c`) | boot record (`jmp_code`, `is_ap`), `ap_ready`, the interrupt table | `load_kernel`, `_start_c`, `mpe_init`, `cte_init`, `halt` | CPUs start one after the other through the boot record, which stays in use: a panic sends them there to stop |
| **pmm: pages** (`tbma.c`) | a segment tree and a lock per 16 MB | `bbma_alloc`, `bbma_free`, `bbma_init` | serves sizes over 2 KB and the slab pages |
| **pmm: small blocks** (`slab.c`, `pmm.c`) | per CPU and size class a list of pages; per page a lock, a free list, a count | `slab_alloc`, `slab_free`, `slab_init`, `kalloc_safe`, `kfree_safe` | any CPU frees into any page |
| **uproc: processes** (`uproc.c`) | `task_list`, `task_cnt`; `pid`, `ppid`, `killed`, `retstate`, `wait_sem`; the queue of free numbers | fork, wait, exit, kill, sleep, system call handler | task_list of kmt, semaphores, pmm |
| **uproc: memory** (`uproc.c`) | areas, mapped pages, reference counts of frames | mmap, page fault, the copying part of fork and exit | address spaces of the abstraction layer |
| **dev: input** (`dev_input.c`) | ring of events, key state | interrupt handler, input daemon, `input_read` | V from the handler wakes the daemon; the daemon's V wakes the terminal |
| **dev: terminals** (`dev_tty.c`) | per terminal: line queue, characters, dirty marks, cursor; the daemon's terminal | terminal daemon, `tty_read`, `tty_write` | `lock` and `cooked` semaphores; the frame buffer shows one terminal |
| **dev: disk, frame buffer** | block buffer; textures, current display | reads, writes | device registers |
| **plcs** | table of partial results, barrier counters | workers by rounds of diagonals | threads |
| **sperf, pstree, crepl, frecov** | tables local to the program | sequential | processes, pipes, a timer signal in sperf |

What is hard in this code, and where its correctness lies:

* **Scheduling.** A trap runs on the stack of the interrupted task until it
  returns, but the task must soon be free to run elsewhere.  `save_task` defers
  its release to the next trap of the CPU.  Correct: one CPU at most has a hold
  on a task, `is_running` never goes stale, `nested_interrupt` selects the
  context that was saved last.
* **Semaphores.** P releases its lock, tests the counter once more and only
  then yields; V releases the waiter without the waiter's lock.  Correct: a P
  that returns took a permit, a V wakes somebody who waits, no wake-up is lost.
* **Spin locks.** The interrupt flag belongs to a CPU, the lock to code that
  may move.  Correct: exclusion, and nothing is interrupted that holds a lock.
* **Allocators.** Values of tree nodes are refreshed along one path at a time;
  frees come from any CPU and carry an address only.  Correct: no two blocks
  overlap, frees find their block, free memory merges again.
* **Processes, copy on write.** Tables and counts changed under several locks
  or none, in several steps with traps between them.  Correct: a number names
  one process, a killed process exits, list and page table agree, no frame is
  freed that is mapped, processes do not see each other's writes.
* **Devices.** Bounded queues without back pressure; a daemon that marks cells
  without the lock of the terminal.  Correct: counters match their queues, lines
  stay whole, the screen shows what was written.
* **Start and stop.** CPUs that start on one stack; a stop that may hit a CPU
  anywhere, in its boot too.  Correct: one CPU at a time on the boot stack, no
  trap before its handlers are there, and after a halt nobody is left running.
* **A barrier of two atomics** (plcs).  Correct: nobody is in two rounds.

`PROJECT.json` lists these hazards one by one at their lines.

## The models

Names follow the code.  An operator whose name ends in `Slip` is the operator
after it with a plausible mistake; nothing refers to it, and each property is
known to fail when the correct operator is replaced by its slip.

### Kmt (with Semaphore)

`Kmt.tla` models every CPU as executing either task code (`mode = "run"`), the
timer handler's semaphore signal, or the stages of `os_trap`:
`kmt_context_save`, the draws of `kmt_schedule`, the return.  Interrupts are
disabled in all modes but `run`, where a `TimerTrap` is possible at any point.
What other CPUs cannot see apart is one step: a section under `task->status`,
and the locked section of P.  V's locked section is two steps, since P reads the
counter without the lock and can see the value between them.

Each task repeats a fixed `Program` of P, V, yield and the entry and exit of a
system call.  `level` and `ctx` record at which trap level each context was
saved, so that a wrong `nested_interrupt` shows as a wrong context.  The draws
`rand() % (task_cnt - 1)` are nondeterministic; since they may all hit the same
task, the fallback to the idle task needs only one task that cannot run.  A
CPU's first trap saves through a null `current_task` into memory nobody reads.
Not represented: the order of waiters (V picks at random), the content of
contexts, `killed`, and the creation of tasks after the start.

| TLA+ | code |
|---|---|
| `current`, `save`, `target` | `current_task`, `save_task`, the task claimed by a draw |
| `block`, `isRunning`, `nested`, `ctx` | the task's `block`, `is_running`, `nested_interrupt`, `context[]` |
| `resource`, `waiters`, `semlock` | the fields of `sem_t`; the lock only while V is between its halves |
| `SemWaitLocked`, `SemWaitReread`, `SemWaitReturn` | `kmt_sem_wait` |
| `SemSignal`, `IrqSignal`, `SemSignalWake` | `kmt_sem_signal` from a task, from `input_notify`, its second half |
| `ContextSave` | `kmt_context_save` and the first test of `kmt_schedule` |
| `SchedSelf`, `SchedClaim`, `SchedConfirm`, `SchedIdle`, `Iret` | `kmt_schedule` and the return from the trap |

`Semaphore.tla` states what P and V promise: a task leaves P only with a permit.
`Kmt` implements it with the permits of `s` mapped to the counter plus the tasks
still inside P, which have subtracted theirs already.

### Spinlock

`Spinlock.tla` splits the lock operations at every write another CPU or an
interrupt handler can observe.  Actors are threads and one handler per CPU.  An
interrupt is possible whenever the CPU's flag is set; the handler returns to the
interrupted thread or to another one, so a thread may continue elsewhere, also
between `push_off`'s read of the flag and its clearing (`Begin`, `Disable`).
`noff`, `intena` belong to the CPU, `old` to the code.  Locks are numbers and a
thread waits only for locks above the ones it holds: what is checked is the lock
mechanism, not the order in which callers nest their locks.

### Buddy, Slab (with Allocator)

`Buddy.tla` has the segment trees as functions from node numbers to values, with
the node numbering, the two marks and the descent of the code.  The recursive
functions of the code are functions over sizes: `Visit` is the downward path of
an allocation, `WayUp` the values its refresh gives on the way up and `AfterTake`
the tree with them; `Over`, `WayBack` and `AfterFree` are the same for a free, and
`VisitFits` and `FreeFits` the asserts on both ways.  `Power` is
`calculate_addr_helper`, with the 8192 of `initialize_tree` after its last entry.
Allocation and free are one step each, since the tree is locked, which
`TreeExclusive` checks; the search for a tree, with its `try_lock` that passes over
locked trees, is step by step.  A free carries an address only;
the model keeps the node besides, to tell whether the descent finds it.  The
first pages belong to the slab from boot on and are never freed: `Booted[k]` is the
first tree after `slab_init` has taken `k` of them.

`Slab.tla` has the per-CPU lists, headers and free lists of `slab.c`, and the
split of `pmm.c` between small blocks and whole pages.  `kalloc_safe` and
`kfree_safe` disable interrupts, so a CPU is in one call at a time.  Reading the
head of a free list and writing it are separate steps: their atomicity is the
page lock's doing.  The page allocator is represented by its promise only: any
free page or, at any time, none.  `FirstWords` is what an owner of a whole page
may leave in its first word, where a slab page has its lock.  A whole page is,
for the abstract allocator, all places that blocks of any size class could have
in it, and one more (`Units`).

`Allocator.tla` is the promise of both: the block chosen for a call shares no
memory with a block in use or chosen for another call, and is in use once the
call returns it.  Both allocators choose it when they unlink or mark it.

### Input, Tty (with LineDiscipline)

`Input.tla` is the keyboard daemon, the ring of events and the semaphore that
counts them; `Tty.tla` extends it with the terminals and their daemon, which
takes the events.  Semaphores are used here by their promise.  A section under
`in->lock` is one step, and so is the locked part of `tty_cook` and `tty_read`.
`tty_putc` and `tty_render` are two steps each, because the daemon marks cells
without the lock: `StartWrite` leaves the cursor where it may be past the last
cell, `EndWrite` scrolls and marks; `Draw` hands the marked cells to `fb_write`,
which changes `screen` if the terminal is `shown`; `Clear` resets the marks.
`SwitchMark` and `SwitchTo` are the daemon's switch, by a key that the model
represents by the terminal itself: first the marks, then the display.  `daemon`,
`at` and `rd` are program positions.  Lapses of time are nondeterministic, and
so is the event a key gives, for the modifier keys that are down.  The queue
keeps its memory, stale bytes included, since an erasure looks at the byte
before the rear.  A panic stops every action.  `load` never changes: it bounds
which keys one behaviour types, and says which terminal each task has opened.
Left out: that a write may have several characters, which are then written under
one hold of the lock.  Queue memory starts as zero, as that of a machine just
booted does.

`LineDiscipline.tla` is what readers are promised: whole lines in the order
typed, of which only the last, unfinished one can be erased.

### Irq, Boot

`Irq.tla` has no state of its own: `OnIrq` links a handler into the list as
`os_on_irq` does, `Calls` is the walk of `os_trap`, and `Registrations` are the
calls of `on_irq` in the order of the boot.

`Boot.tla` is the machine from power on to `os_run`, and `halt`.
`boot_pc` says where a CPU is; the names are those of the functions, and the
specification is `BootSpec`, since `SpinlockProofs` extends this module together
with `Spinlock`.  INIT and startup
interrupts take their time: `ipi` is what has been sent and not received, and
`Receive` takes a CPU from wherever it is to the boot record, whose `jmp_code`
leads to `load_kernel` or nowhere.  Their delivery, and that a reset of the boot
CPU goes through the boot record too (the warm-reset vector that
`__am_lapic_bootap` writes), is the machine's doing, outside the code.
`load_kernel` loads the image, and thereby resets its variables, unless `is_ap`
is set.  `os_init` makes one registration a step.  `build` chooses between the
registrations without and with the devices.  A `halt` stands for any panic of
kernel code, at any time, also of several CPUs at once; `Outw` asks the emulator
to end, which it may do or not.  Left out: the detection of CPUs and devices.

| TLA+ | code |
|---|---|
| `Receive`, `Fetch` | `boot/start.S`, which gives every CPU the stack below 0xa000; the jump of the boot record |
| `load_kernel`, `start_c` | `boot/main.c`, `_start_c` |
| `bootcpu_init`, `cte_init`, `os_init` | `__am_bootcpu_init`; `main` of the kernel |
| `mpe_init`, `BootAp`, `WaitAp` | `mpe_init`: the record, the start of the next CPU, the wait on `ap_ready` |
| `SwitchStack`, `PerCpuInit`, `Ready` | `__am_othercpu_entry`, `__am_percpu_init`, the answer |
| `halt`, `stop_the_world`, `Outw` | `halt` and `__am_stop_the_world` |

### Uproc

`Uproc.tla` is the life of processes: `fork` with `new_pid`, `wait`, `kill` and
`exit`, and of the kernel what processes meet: the killed test of `os_trap` and
the draws of `kmt_schedule` from a table that grows.  System calls run with
interrupts enabled, so a trap is possible between any two steps; `pc` is the
position inside a call, `local` and `other` its local variables.  A section under
a spin lock is one step, but `new_pid` reads and writes `task_cnt` without one
and is two.  What `Kmt` shows of scheduling and semaphores is used as a promise.
Kernel daemons are left out: they are always in the table, never fork and never
exit.  `DrawEmpty` is a draw of an entry that is counted but not yet written,
`ExitSignal` with `sem_ready` false a signal to a semaphore that was never
initialised, and `ExitDestroy` ends in the spinning of `uproc.c:587`.  `raced` and
`stored` are histories.  `sleep`, `uptime`, `kputc` and `getpid` change no state.

### Vm

`Vm.tla` is the memory of processes: `areas`, the list `mapped`, the page table
`pt` as `map` and `unprotect` change it, `cow` (the reference counts), `used` and
`content` of frames.  Areas and pages of a process are changed by that process
alone; a step is what a process does up to the next point where another CPU can
change a count or a frame it looks at.  So `page_fault` on a mapped page is
`FaultCopy`, then `Dec` and `FreeIfLast`, which take `cow_lock` one after the
other; `fork` is `ForkCowMapping` and `ForkChild`; `exit` goes through the list page by page.
A process that gives up frames holds its CPU, and one that has exited holds it
for good: `NCpus` limits both.  `mem` is what a process should read, and
`FaultCopy` chooses which frame number it finds in the record it has freed.
`raced` and `uncounted` mark the two ways to a wrong count that the code leaves
open: the count of a frame is changed while another process is between the
decrement and the test of that count (`Tested`), or `fork` shares a page that is
not private and writable.

| TLA+ | code |
|---|---|
| `Suitable` | `get_suitable_addr`, whose walk ends at the first of `start` and the ends of the areas behind it where the pages fit |
| `Insert`, `Find`, `NewArea` | `insert_vme_node`, `find_vme_node`, `new_vme_node` |
| `pgmap`, `pgunmap` | the functions of that name for a set of pages, with what `map` and `delete_map_page` panic on |
| `Mmap`, `Munmap`, `FaultNew`, `FaultCopy` | `kmmap`, the two halves of `page_fault` |
| `Dec`, `FreeIfLast` | `dec_cow_cnt`; `get_cow_cnt` and the free it decides |
| `ForkCowMapping`, `ForkChild`, `Exit`, `DestroyPage`, `Destroyed` | the copying part of `kfork`; `kexit` down to `destroy_task` |

### Plcs

`Plcs.tla` is `main` and the workers of `plcs.c`.  `Todo` is the division of a
diagonal among the workers; `Read`, `Fill`, `Stop`, `Arrive`, `Gather`, `Reset`,
`Release`, `Wait` are the steps of a worker's round, where `finished` and
`can_run` are the two atomics of the barrier.  `Table`, the sequential `Tworker`,
is what the result is compared with.

## The runs

TLC explores every state of each instance.

| Run | Instance | Shows |
|---|---|---|
| `kmt_prodcons` | 2 CPUs, 1 producer, 1 consumer, 1 slot | no P without a permit, nobody queued forgotten or blocked unqueued; the refinement of `Semaphore`; no starvation; every P returns |
| `kmt_devices` | 2 CPUs; a system call that yields with a lock, the terminal's daemon, the keyboard daemon | no task on two CPUs, no stale `is_running`, contexts restored at their level, through nested traps and a V from the timer handler |
| `kmt_tty` | 2 CPUs, a reader that waits for two semaphores | violation of `NoPhantomPermit`, see below |
| `spinlock` | 2 CPUs, 2 threads, 2 locks | exclusion, the interrupt flag, `noff`, no panic |
| `buddy_smp` | 2 CPUs, 2 trees of 4 pages | tree marks, merging, frees by address, no overlap |
| `slab` | 2 CPUs, 1 class of 2 blocks a page, 3 pages | no block given twice or lost, lists and counts agree, every call returns |
| `tty` | 2 daemons, 1 reader, 1 writer, 2 terminals, 3 characters, a screen of 2 by 2, a line queue of 4 bytes, a ring of 3 events | events counted, complete lines counted, no stale cell on the screen unmarked; the refinement of `LineDiscipline` |
| `boot` | 4 CPUs, both builds | one CPU on the boot stack, no trap before its handlers, all CPUs run or none |
| `uproc` | 2 CPUs, 3 processes, a table of 3 entries | numbers unique but for the two races named, a kill takes effect |
| `vm` | 2 CPUs, 2 processes, 2 pages, 3 frames, private areas of both kinds | list and table agree and no panic is reached, areas sound, no mapped frame freed but for the races named |
| `vm_fork` | 1 CPU, 2 processes, 1 page | violation of `PrivateCopies`, see below |
| `plcs` | words of 1 to 3 letters over {a, b}, 2 and 3 workers | rounds kept apart, the sequential answer, the end reached |

Why the bounds are enough.  Two CPUs give every race between two traps, and
three tasks (`kmt_devices`) give one task more than CPUs, so that a task can be
preempted, taken by the other CPU and wanted by the first again.  The proofs
remove these bounds for `Spinlock`, `Buddy`, `Slab`, `Vm`, `Plcs`, `Kmt`,
`Tty`, `Uproc` and `Boot`; liveness alone rests on them.
`MaxPermits` caps the timer's signals: one pending signal already separates a lost
wake-up from a kept one.  Two locks nest `push_off`
twice; three would repeat the same test of `noff`.  Four pages in a tree are the
fewest with an inner node above an inner node; a size in between exists, so
splitting, marking and merging all happen.  Two blocks in a slab page are the
fewest with a list that is neither empty nor full; one page beyond the boot pages
lets a list grow, or is taken whole and returned.  `FirstWords = {FALSE}` says
that whoever had a page left zero in its first word; see below for the other case.

In `tty` three characters are enough for a line longer than the reader's buffer
of two, for an erasure at the end of a line already read, and for two scrolls;
the line queue and the ring wrap and both overflow panics are reached.  `MCLoads`
makes the run a sum of three: typing letters, newlines and erasures on one
terminal that a task writes to; newlines and a switch to a terminal another task
writes to; switches to and fro while a task writes letters and carriage returns.
In `boot` four CPUs are the fewest with which a CPU that does not wait for the
answer of the one before finds a third and a fourth on the boot stack, and let
two halts cross with others still booting.  In `uproc` a table of three entries
with number 1 in use is full after one fork, so that numbers are taken from
exited processes and run out.  In `vm` two pages make areas that overlap, lie
side by side and hold two pages; three frames let a fork copy, and leave none for
a fault.  In `plcs` three letters give diagonals shorter than, equal to and
longer than what two and three workers divide.

`CHECK_DEADLOCK FALSE` stands where the system really stops: at the panics and
the end of the characters (`tty`), when the power is off or all CPUs are halted
(`boot`), when exits have used up the CPUs (`uproc`, `vm`, `vm_fork`), at the end
of the program (`plcs`).  The type invariants `TypeOK` hold on all instances and
are not among the properties of the runs; those of `Kmt`, `Spinlock`, `Boot`,
`Buddy`, `Slab`, `Uproc`, `Vm`, `Tty` and `Plcs` are proved.

Fairness.  `Kmt!FairSpec`: a CPU executes (weak fairness), a task that can be
drawn again and again is drawn (strong fairness: the draws are random), a task
executed again and again makes progress, since interrupts are not so dense that
no instruction completes and a spinning CPU gets a lock that keeps being
released.  Nothing is assumed about the timer.  `Slab!FairSpec`: a CPU executes,
interrupts being disabled, and a lock that is free again and again is taken.
`Plcs!FairSpec`: `main` and every worker execute.  `Uproc!FairSpec`: the timer
interrupts every CPU that can be interrupted (weak fairness of traps), draws
reach every entry that fits (strong fairness, as in `Kmt`), a call that has begun
goes on; nobody has to call.  `BootFairSpec`: a CPU executes, and an interrupt
that was sent arrives; nobody has to halt.

## The proofs

TLAPS proves, for any number of CPUs, tasks, semaphores, locks, trees, pages,
frames, workers and terminals, for trees of any depth, any programs and any nesting
of locks:

| Module | Theorem | Says |
|---|---|---|
| `KmtProofs` | `TypeCorrect` | `TypeOK`: `nested_interrupt` stays in 0..2, contexts are of known levels |
| | `SchedulerSafe` | `OwnersDisjoint`, `RunningFlag`, `NestedDepth` |
| | `ScheduleNeverPanics` | `ScheduleSane` |
| | `NobodyForgotten` | `BlockedIsQueued` |
| | `WaitListSafe` | `SinglePSem` implies `WaiterCount`, `QueuedIsBlocked` |
| | `SemaphoreSafe` | `SinglePSem` implies `NoPhantomPermit` |
| | `SemaphoreRefinement` | `SinglePSem` implies `ImplementsSemaphore` |
| `SpinlockProofs` | `SpinlockExcludes` | `TypeOK`, `MutualExclusion` |
| | `LocksUninterruptible` | `LockedIsUninterruptible`, `NoffExact` |
| | `FlagSafe` | `FlagRestored`, `NoPanic` |
| | `OneOnBootStack` | `BootStackExclusive` of `Boot` |
| | `HandlersInOrder` | `TrapOrder` of `Boot` |
| | `HaltIsForAll` | whoever ends the loop of `__am_stop_the_world` has left out no CPU |
| | `HaltNotCutOff` | `OneStops` implies that a halt goes on until all CPUs are silenced |
| | `BootTyped` | `BootTypeOK` of `Boot` |
| `BuddyProofs` | `TreesExclusive` | `TreeExclusive` |
| | `FreesFindBlocks` | `FreeFindsBlock` |
| | `PromisesKept` | `PromiseKept` |
| | `FreeMemoryIsMerged` | `FreeIsMerged` |
| | `BlocksAllocated` | `ImplementsAllocator` |
| | `CallsOnlyAdvance` | a call can go on, or waits for the lock of a CPU that can; its steps only lead further |
| | `TypesHold` | `TypeOK` |
| `SlabProofs` | `NoBlockLost` | `BlocksAccounted` |
| | `KallocRefinement` | `ImplementsAllocator` |
| | `OneInside` | two CPUs are never inside one page |
| | `LockWordTold` | `FirstWords` without `TRUE` implies `PageExclusive` |
| | `NoPageLost` | finitely many pages imply `PagesReachable` |
| | `NoCallStuck` | `FirstWords` without `TRUE` implies that a call can go on, or waits for a CPU that can and will unlock |
| | `SlabTyped` | `TypeOK` |
| `UprocProofs` | `NumbersDiffer` | `NumbersUnique` |
| | `FatherFound` | an exit finds an entry with its father's number |
| | `KillIsFinal` | a killed process stays so and makes no call but `exit`, which is never left |
| | `UprocTyped` | `TypeOK`, with no process on two CPUs |
| `VmProofs` | `TablesAlwaysAgree` | `TablesAgree` |
| | `AreasAlwaysSound` | `AreasSound` |
| | `NoFreedFrameMapped` | `NoFreedMapped` |
| | `VmTyped` | `TypeOK` |
| `TtyProofs` | `NeverReadsEmpty` | `EventsCounted` |
| | `ScreenNeverStale` | `ScreenTrue` |
| | `LinesFound` | `LinesCounted` |
| | `LinesInOrder` | `ImplementsDiscipline` |
| | `TtyTyped` | `TypeOK` |
| `PlcsProofs` | `RoundsSeparate` | `RoundsApart` |
| | `AnswersAgree` | `AnswerSequential` |
| | `BarrierNeverStuck` | until `main` has joined all, somebody executes a step that is no turn of an empty loop |
| | `StepsAreFinite` | such a step raises a measure, nothing lowers it, and it is bounded |
| | `PlcsTyped` | `TypeOK` |

Assumptions: the named `ASSUME`s of `Kmt` (the special values are not tasks,
CPUs or semaphores; programs are not empty; initial values are naturals; tasks
are finitely many), of `Spinlock` (CPUs, threads and `None` are different; locks
are numbers), of `Boot` (there is a CPU), of `Buddy` (there is a tree,
the smallest block's size is not below 2, so that the marks 0 and 1 are not sizes,
and the pages `slab_init` takes are some and fit into the first tree), of `Input` and `Tty` (the ring has two
places and the line queue three, the special characters differ, the daemon is
not a writer, readers are finitely many), of `Slab` (a page has at
least one block, `None` is not a page), of `Uproc` (the table has an entry for the
first process, the idle task is not a process), of `Vm` (processes are numbered, there are private writable areas) and of
`Plcs` (two workers).  TLC evaluates them on every run.

The scheduler's invariant `SInv` adds to the properties what makes them
inductive.  `ModeOK`: how far a CPU is in its trap says which of `current`,
`save` and `target` may differ, and a task claimed by a draw is neither of the
others.  `CtxOK`: a task that no CPU executes can be resumed from the slot of
its level.  `IretOK`: what a CPU has claimed or is about to return to is not
blocked, since a task is blocked by itself only.  `RunningFlag` needs
`OwnersDisjoint` (a release must not clear the flag of a task another CPU
holds), which needs `RunningFlag` (a claim tests the flag): they are proved
together.  `NestedDepth` needs both, because the CPU that decrements must be the
one that incremented.

For the semaphores `WInv` adds to `SInv` that queued tasks are blocked
(`QueuedIsBlocked`), that a list is as long as its counter is negative
(`WaiterCount`), that a task is queued only where its program waits
(`QueuedOK`), and that queued tasks are inside P (`QueuedInP`), with one
exception: between the two halves of a V the last waiter may have read the new
counter and left.  With `SinglePSem` such a task is not inside a P of another
semaphore when the second half reaches it; `kmt_tty` shows that this cannot be
dropped.  `YieldOK` says that a task that yielded inside P and is still blocked
is not being executed.

For the spin locks `SpinInv` has a part for each actor (`LocalInv`: where it is
in an operation and which lock it wants), one for each actor and the CPU that
executes it (`ExecInv`: `noff` counts its locks, its flag is off while it is
busy, `intena` is what its outermost `push_off` found, its locks carry the CPU's
number), one for actors nobody executes (`RestInv`: not busy), and one for CPUs
that execute nobody (`EmptyInv`).  Exclusion alone would follow from `WordInv`;
the rest is needed because a thread may change CPU between two steps, and it may
do so only when it is not busy.  `CodeFrame` shows once that a step of one actor
leaves the parts of all others alone.

For the boot stack `BootInv` is one of two.  While nobody has halted, `Upwards`:
the boot CPU is before the loop of `mpe_init` and the others are off
(`MainPhase`), between two starts (`NextPhase`), waiting for the one CPU that is
being started (`WaitPhase`: all CPUs below it run, all above are off, and
`ap_ready` is 1 exactly when it has left its boot), or done (`RunPhase`).  After
the first halt, `Downwards`: the record leads nowhere, so nobody enters the boot
stack any more, and whoever is on it was alone when the halt came.

The order of the handlers (`HandlersInv`) rests on it: whoever loads the image
without `is_ap`, or is between `bootcpu_init` and `mpe_init`, is alone
(`FillsAlone`), so that nobody who counts on the complete list sees it shrink or
grow; later CPUs start with `is_ap` set and leave it.  The list after k
registrations is known place by place (`Listed`, `ListGrows`): behind the two of
`kmt_init`, which have the smallest and the largest number, all have number 0 and
go to the front.  `ListCalls` follows `os_trap` over the complete list, for each of
the two builds and each event.

A halt is followed through its loop.  A CPU is `Silenced` when it executes nothing
that can be seen any more or the INIT is on its way to it, and stays so, since after
a halt the boot record leads nowhere.  `HaltInv` says that whoever is in the loop has
silenced all CPUs below its loop variable, whatever other halts do meanwhile: the
end of the loop is the end of all.  Whether it gets there is another matter, since
two CPUs that halt together can reset each other.  With `OneStops` they do not,
but that needs `LateInv`: the boot CPU may be in the loop of `mpe_init` while
another halts, and starts CPUs that nobody will see, as the record takes them
nowhere.  `HaltNotCutOff` concludes that the loop goes on, in a CPU that is not
about to be reset, until all are silenced; that it is executed to its end is all
that `AllOrNone` adds.

For the page allocator `BuddyInv` has, besides types, a part for the calls
(`HandsOK`: blocks in two hands differ, and none is `slab_init`'s), one for the locks
(`LocksHeld`: who is inside a tree has locked it, alone) and one for the trees.
`TreeOK(t, H)` relates a tree to the nodes `H` whose blocks somebody has: these do
not overlap; a node of `H` holds `FULL_USED`; a node above one of them never does, and
offers less than its size, and nothing that none of its halves offers; all other nodes,
those inside a block of `H` too, hold their size.  Everything the properties say of
trees follows from it.  A free finds its block since of the nodes that begin at its
address, which the path down to the address passes, only the one of the block is
marked.  A promise is kept since a node that offers a size has a half that does, down
to a node that is whole.  That blocks nest (two of them overlap only if one lies in the
other) is arithmetic of powers of two.
An allocation and a free change one path from the root: `NodeOK` is shown for the
nodes on it from the bottom up, for those below its end, and for the others, of which
nothing changes.  The paths are recursive functions of the size; that they exist, and
that each value follows from the next, is proved for chains of any length from the
least natural number at which it would fail (`Chain`, `Induction`).  `slab_init` takes
the pages of the first tree from the left (`BootOK`), so its tree is `TreeOK` too.
`BlocksAllocated` then needs only that blocks that do not overlap have no smallest
block in common.
`CallsOnlyAdvance` says that the tree locks do not deadlock: who is inside a tree
holds its lock and no other, and its next step is open, for the asserts of that step
hold by the properties above (`HolderGoes`).  Every step takes a call to the next
tree, further in its tree, or back to its caller.

For the small blocks `SlabInv` says, besides types: a list of pages belongs to one
CPU and class (`ListsOwned`); what a CPU remembers in a call fits how far it is,
in particular a list it has read is still the list (`CallOK`); who is inside a
page has set its lock word and is alone (`LocksHeld`); blocks in two hands differ
(`HandsOK`); and a block of a slab page is in exactly one place: in the list, on
its way, in use, or the one that `slab_init` dropped (`ExactlyOne`, which is what
`BlocksAccounted` counts).  The exclusion comes from the lock word, the counting
from the exclusion, as `TakeBlock` and `PushBlock` write a list read a step
before.  `KallocRefinement` needs `ExactlyOne` again: a block taken from a list is
in nobody's use.  What was left in a page before matters only for the converse,
that a set lock word has somebody inside: hence the condition of `LockWordTold`.
`NoPageLost` stands on its own: the pages a CPU has taken for a class are
enumerated without repetition, from the area on, by one sequence along `next`
(`OneList`), to which a growth adds one in front, and the pages that the search
has reached after `n` steps, a recursive function of `n`, are the first of it. The
search makes as many steps as there are pages, hence the hypothesis that they are finitely many.
`NoCallStuck` needs `CallOK` and the converse that `LockWordTold` gives: a set lock
word has a CPU inside, which remembers what it needs for its next step and unlocks
after three.  A search unlocks a full page before it locks the next, so nobody holds
one page and waits for another.

For the numbers of processes `UInv` says that a fork's child is its own until it
is entered (`ForksApart`), that an entry of `task_list` holds a task that bears or
bore its number and every number and father's number has an entry (`TableOK`), and,
until a race has happened, that a number has one place: a process, a fork that was
given it, or the queue of free numbers, all below `task_cnt` (`NumbersApart`).
`TableOK` alone gives `FatherFound`, races or not.
`KilledInv` says that whoever is in `exit` is marked and whoever is not born is not.
`NoWayBack` then follows action by action: no assignment of `wait`, `fork`, `kill` or a
trap clears the mark of a process that is there, also when a trap inside `exit`
begins it again.

For memory `VInv` has three layers.  `Structure`: areas are in order and cover
what is mapped, list and table agree, a frame is given up only on the way out of
`page_fault` or `exit`.  `RoomForChildren`: the processes inside `fork` are no more
than the processes not born.  `CountsOK`, as long as nothing has raced: `Users`
of a frame are the pages that map it and the decrements still to come, a frame
that is free has neither users nor a count, a positive count is not below the
number of users, and a frame whose count was found zero after a decrement has no
user left.  A frame that one process has to itself has the count zero, and
`page_fault` may take one from the count of its new frame: so a count of zero or
less may be two below the number of users.  The invariant was checked with
TLC on instances of two to four processes before the proof.

For the events, `EventInv` is `EventsCounted` with the ranges of the indexes.
The arithmetic of the ring is in four lemmas about `%`; after them a step is
described by what it adds to the semaphore, to the signal on its way, to the
permit the daemon holds and to the ring, and the sums must agree.

For the screen, `ScreenInv` says where the daemon and the writers are with
respect to `tty->lock` (`LocksOK`), which terminal the daemon handles
(`DaemonOK`), that what is shown but unmarked is drawn (`ShownOK`) and that a
terminal about to be shown has all its cells marked (`ComingOK`).  A writer
between its two steps has a cursor that may lie behind the last cell, and only
one is between them: hence the lock in the invariant.  For the lines, `LinesInv`
says per terminal that the place before the front is NUL, and that the permits
of `cooked` and the readers who took one are together as many as the line ends
between front and rear.  The ring is followed by distances from the front: a
letter moves no line end, a newline adds the last one, an erasure stops at a
line end or at the NUL before the front, and a read removes the first one
(`LetterEnds`, `LineEnds`, `EraseEnds`, `ReadEnds`).

That the queue is a line discipline is argued on its content, the text from the
front to the rear.  `TextOf` is that text, a place being as far from the front
as its character is into the text, so that a change of one place changes one
character and no other (`TextAt`, `TextKept`); each operation is then a change
of the text at its end or its beginning (`LetterText`, `LineText`, `EraseText`,
`ReadText`).  The lines of a text are its pieces between line ends, and the
k-th line end is the one of rank k (`Ranks`: the ends are finitely many numbers):
text added behind the last end changes the edited line only, an end added there
makes it the last line (`LetterTyped`, `LineTyped`), and a read, which shifts all
ranks by one, drops the first (`LineTaken`).  A read needs `LinesCounted` as well:
its permit stands for a line that is there.  What is done to other terminals, the
screen or the events leaves the three abstract variables alone.

That a cursor is behind the last cell, as `TypeOK` allows it only for a task that is
about to scroll, needs `LockTaken`: a taken lock has a task inside `tty_putc` or
`tty_render`, so that the one whose permit it is is known.

For the barrier, the invariant relates the counter to the workers that have
arrived in this round, and each flag to the round of the worker it releases; as
worker 1 alone resets and releases, the phases of worker 1 are the cases of the
proof.  For the answer, `TableInv` says that the cells of all rounds that are over,
and of the part a worker has filled in this one, hold what `Table` holds, that
what a worker read is what it computes with, and that `Todo` covers every
diagonal (`Division`, from the quotient and the remainder of its length).
`Table` is a recursive definition: that there is such a table (`TableThere`) and
that its cells are natural numbers follows from a least diagonal on which it
would fail.

That the program ends is proved but for its fairness.  `BarrierNeverStuck`: if every
worker stood at a loop of the barrier, either worker 1 is among those that were
counted, and as nobody is left to come the counter is complete and its loop open,
or a worker waits for a flag that is set; `PlacesInv` adds that a worker is done
after the last round and not before, so that none is waited for in vain.
`StepsAreFinite`: a step that is no turn of an empty loop takes its worker forward,
in its round, within the round, or in the rows and releases of one place (`Advance`),
nobody takes another back, and all of these are bounded (`Bounded`).

Model-checked only: liveness (`NoStarvation`, `PReturns`, `CallsReturn`,
`Terminates`, `KillTakesEffect`, `AllOrNone`), which the prover does not handle
under fairness. Of four of them the part without fairness is proved, as told above:
of `Terminates` (`BarrierNeverStuck`, `StepsAreFinite`), of `AllOrNone`
(`HaltNotCutOff`), of `CallsReturn` (`NoCallStuck`, with `NoPageLost` for the length
of a search) and of `KillTakesEffect` (`KillIsFinal`). An induction over numbers is
possible where the set of numbers is a definite one, through the least element that
the well-foundedness of < gives (`LeastNatural`).

## What the checks found

* **A P that returns without a permit** (`kmt_tty`, `kmt.c:110`).  A task is
  queued on A.  V(A) increments the counter and has not yet released the task.
  The task reads the counter again, finds it not negative, goes on and queues
  itself on B, blocked.  V(A) now writes `block = false`: the task is scheduled
  and returns from P(B).  Terminal readers, which do P(cooked) and P(lock), can
  meet it.  Tasks that wait for one semaphore only cannot, as is proved.
* **A count changed under a test** (`NoFreedMapped`, `uproc.c:644`).  `page_fault`
  may decrement the count of the frame it has just mapped, whose number it reads
  from a record it has freed.  The count is then -1, a fork makes it 0 though two
  processes map the frame, and an exit whose decrement and test lie around
  another fork frees it.  No two processes give up a frame at once in this; the
  condition under which counts are right, and now proved to be, is that nobody
  changes the count of a frame while it is being tested.
* **A fork without a copy** (`vm_fork`, `uproc.c:425`).  `fork_cow_mapping` takes
  a private page from the parent and maps a fresh frame in its place, which
  nobody fills; the child gets that frame too, writable.  Both have lost the
  page, and the parent's old frame is neither counted nor freed.

Seen while modelling, without a run of its own: the header of a new slab page
keeps the lock word its memory had (`slab.c:142`; with `FirstWords` holding
`TRUE` the CPU that grew its list spins and `CallsReturn` fails); taking the
largest free block of a tree marks the nodes above as completely split though
smaller blocks are free below, which cannot be had until a free refreshes the
path (`tbma.c:157`); the scheduler may draw an entry that is counted and still
empty (`kmt.c:243`); a trap inside `exit` begins it again, with status 0, a second
signal and the number stored twice (`uproc.c:591`); every exit costs a CPU, since
`destroy_task` locks `vme_lock` twice (`uproc.c:587`), which is also all that keeps
`exit` from freeing the stack it runs on (`uproc.c:606`); `wait` forgets the signal
of a child that exits before its `sem_init` (`uproc.c:529`); a fork that finds no
number gets 0, the entry of the idle task; `munmap` leaves its frames allocated
(`uproc.c:344`); two halts that cross stop each other before they reach a third
CPU, which runs on (`mpe.c:50`); a task that renders a terminal while the daemon
switches to it clears the marks, and the screen stays as it was
(`dev_tty.c:297`).  The properties concerned name these cases and exclude them, or
leave both behaviours open.

## Not modelled, and the plan

All parts of the kernel that keep state others depend on are modelled, and every
safety property the runs check without a violation is proved.

Not modelled, and why:

* `mock_task` of `os.c`: a ring of raw locks in a debug build, superseded by the
  workloads of `kmt_prodcons` and `kmt_devices`.
* `dev_sd.c` and the rest of `dev_video.c`: copies to and from device registers.
* `sperf`, `pstree`, `crepl`, `frecov`, `fatree.c`: sequential programs whose
  difficulty is the text, the processes and the disk images they read; what a
  model would abstract is all there is.
* The page table walk of `vme.c`, the trap entry and contexts of `cte.c`, the
  device registers of `ioe.c`, `klib` with its vendored 64-bit arithmetic: the
  course's hardware layer, used by its promise.  Its boot and halt are `Boot`.
