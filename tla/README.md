# Specifications of the CS1550 programs

The repository holds the projects and labs of an operating systems course.
This directory models them in TLA+, checks small instances with TLC, and proves
the most important invariants with TLAPS for instances of any size.

## The parts

| Part | Source | Modules | State |
|------|--------|---------|-------|
| apartment simulator: agents and tenants as processes, seven semaphores | `proj2/aptsim.c` | `AptSim`, `AptSimProofs`, `MCAptSim` | modelled, invariants proved |
| semaphore system calls `down`, `up` | a kernel patch that is not here; used in `proj2`, `lab1`, `proj1_test` | in `AptSim`, external | modelled as used |
| page table and statistics | `proj3/vmsim` | `PageTable`, `VmSimProofs` | modelled, invariants proved |
| fifo, opt and aging replacement | `proj3/vmsim` | `VmSim`, `MCVmSim`, `VmSimProofs` | modelled, fifo proved |
| file system on FUSE | `proj4/cs1550.c` | `Cs1550`, `MCCs1550` | partly: not beyond a full disk or directory |
| xv6 processes, priority scheduler, spin locks | `lab3/xv6-public`: `proc.c`, `sysproc.c`, `trap.c` | `Xv6Proc`, `Xv6ProcProofs` | partly, invariants proved |
| xv6 lazy page allocation | `lab4/xv6-public`: `trap.c`, `sysproc.c`, `vm.c`, `kalloc.c`, `exec.c` | `LazyVm`, `LazyVmProofs` | partly, invariants proved |
| xv6 log, buffer cache | `log.c`, `bio.c` of lab4 | `Xv6Log`, `AtomicDisk`, `MCXv6Log`, `Xv6LogProofs` | log modelled, refinement proved |
| xv6 inodes, directories, paths, file system calls | `fs.c`, `sysfile.c`, `file.c`, `sleeplock.c` of lab4 | `Xv6Fs`, `MCXv6Fs`, `Xv6FsProofs` | partly, invariants proved |
| xv6 pipes, open files, descriptors | `pipe.c`, `file.c`, `sysfile.c` of lab4 | `Xv6Pipe`, `PipeFifo`, `MCXv6Pipe`, `Xv6FileProofs`, `Xv6PipeProofs` | pipes modelled, refinement proved |

The programs do not call each other. Inside the apartment simulator everything
goes through shared memory and the semaphores. In `vmsim` the page table calls
the replacement algorithm. The handlers of the `proj4` file system meet on the
disk and in the static variable `next_free_block_index`.

The two copies of xv6 differ in what the labs changed: lab3 has the priority
scheduler, lab4 the lazy `sbrk`. The layers of the kernel are modelled one module
each, on top of what the layer below promises: `Xv6Fs` takes a system call's
disk writes as one transaction, which is what `Xv6Log` shows; `Xv6Log`, `Xv6Fs`
and `Xv6Pipe` take `sleep` and `wakeup` as atomic with respect to the lock that is
passed, which is what `NoLostWakeup` of `Xv6Proc` shows.

To run: `tlc -config X.cfg M`, with `M` the MC module of the same name where there
is one, and `tlapm P.tla` for the proofs.

## AptSim

One process per agent and tenant, the parent (`Main`) and the tenant creator.
`pc` gives the next step of each, and a step is one `down` or `up`, or one load
or store of a shared counter, so all interleavings of the C program's visible
actions are there. `x++` on a shared counter is a load into `reg` and a store.
A semaphore is its `value` and the `queue` of its sleepers; `up` wakes the one
that has slept longest, as `lab1/trafficsim.c` says ("Current head of queue
(1st child) is waken up"). The operators carry the names of the C functions.
`loadArguments` has no return value on success, so `main` may take either
branch. Children are forked in any order: a child that has not run yet cannot be
told from one that is not there. Delays, printing and `sleep` are left out; they
only restrict the order of steps.

- `apt_safety` (2 agents, 3 tenants, limit 2): `TypeOK`, `MutexExclusion`,
  `OneAgentInside`, `TenantsCounted`. Three tenants with a limit of two make
  tenants wait for the second agent, and two agents compete for the apartment.
- `apt_live` (1 agent, 2 tenants): `VisitEnds` and `AgentServes` under weak
  fairness of every process, which is what the kernel's scheduler gives a
  process that is ready; a sleeping process is not. With more agents the program
  can deadlock (below), so that there is nothing to show.
- `apt_deadlock` is violated: `proj2/writeup.txt` claims freedom from deadlock.
  `AptSimMax.cfg` and `AptSimInspect.cfg` refute two more of its claims: at most
  ten tenants for an agent, and that tenants only view the apartment with an
  agent. The findings in `PROJECT.json` say how the code breaks each.

The program ends when all have left, so deadlock is not an error of a run;
`DeadlockFree` states what a deadlock of the program is.

### Proofs

`AptSimProofs` proves for every set of agents and tenants and every limit:
`TypeCorrect`, `MutexIsExclusive`, `AgentsAreExclusive`, `CounterIsExact`. The
inductive invariant `IInv` adds to the properties

- `QueueInv`: a semaphore's value is negative exactly by the number of its
  sleepers, and nobody sleeps twice;
- `MutexInv`, `AptLockInv`: value, holders and sleepers of the two locks fit
  together, since `up` hands the lock over to the process it wakes;
- `RegInv`: what a process between load and store has loaded is still the
  value of the counter, because it holds the mutex.

Exclusion alone is not inductive: from a state with a free mutex and a sleeper,
an `up` would let two in. Lemmas about `down` and `up` show once how each moves
the lock invariants, and the step proofs cite them. Assumed are only that the
sets of processes are disjoint and finite and that the limit is positive.

## PageTable and VmSim

`PageTable` is `PageTable.find_frame`, `store` and `load` with the victim left
open: a hit, a fault with an unused frame, a fault with an eviction. `VmSim`
extends it with the three algorithms and the loop over the trace. Times of
future accesses are positions in the trace; infinity is a number past its end.

- `vmsim` runs every trace of 6 accesses (opt: up to 6; aging: 4 with cycles 0,
  1 or 3) to 3 pages in 2 frames. Three pages in two frames is the least that
  forces a choice, and six accesses evict and bring back every page.
  `TableInverse`, `StatsConsistent` and `DirtyExact` are about the table;
  `FifoOrder`, `OptIsOptimal` and `AgingEvictsLeast` say of each algorithm that
  it chooses what it promises. `OptIsOptimal` compares opt with `MinFaults`, the
  minimum over all choices of victims.

`VmSimProofs` proves in three parts, for any number of frames and pages:

- about `PageTable` alone, whatever frames the algorithm evicts: the types
  (`TableTypes`), `TableInverse` (`TableCorrect`) and `StatsConsistent`
  (`StatsCorrect`). The types are what makes `TableInverse` inductive: the frames
  in use are the ones below `new_frames_counter`;
- about fifo, for any traces: `FifoOrder` (`FifoCorrect`), and with it the table
  and the dirty bits (`FifoDirty`). The invariant `FifoInv` says that the queue
  holds the frames in use in the order in which their pages came in, and
  `Times` that no page came in later than now. The order has to be part of the
  invariant: that the head is the oldest after a fault is a fact about the whole
  queue before it;
- about any algorithm: the dirty bits are exact (`DirtyCorrect`) in every run in
  which `PTTypeOK` holds, that is, in which the victims are frames. For opt and
  aging this hypothesis is checked by TLC only: their victims are computed by
  folds over the frames, and what a fold returns needs an induction.

Assumed are at least one frame, and by `InputsAssumption` that traces are sequences
of loads and stores of pages. `OptIsOptimal` and `AgingEvictsLeast` are only
model-checked, for the same reason.

## Cs1550

The disk is the root block, the other blocks (zero, a directory, or data with
a link) and the bitmap. A handler is a sequence of steps of its thread: look up
and decide (`cs1550_mkdir`, `cs1550_mknod`, `cs1550_write`), find a block
(`Alloc`), mark it (`set_bitmap`), write data blocks (`Link`, `MoreBlocks`,
`LastBlock`), save the root or directory as read in the first step
(`save_root`, `SaveNew`, `SaveSize`). `Remount` kills the process between any
two of them and starts it again. The kernel's inode locks keep two requests off
the same directory or file. A refused request changes nothing and has no step.
`cs1550_read`, `cs1550_getattr` and `Readdir` are operators on the state. The
result of `cs1550_read` is what it returns and all it copies to the caller's
buffer, its loop to the end of the file included.
Names and bytes are members of small sets; blocks hold 2 bytes instead of 504.
`set_bitmap` is one step; in the code it reads and writes a byte, so threads can
lose each other's bits too, which the counterexample does not need.

- `fs_short_writes` (one request at a time, appends of at most one block, four
  blocks, files up to 5 bytes): `NoSharedBlocks`, `UsedBlocksMarked`,
  `ReadsBack`. Four blocks hold a directory, a file of three
  blocks, or two of each, or lose one to a kill. `ReadsBack` reads from every
  offset of every file in every size; the bytes asked for are right, and no more
  are copied if the read goes to the end of the file.
- `fs_long_write` is violated: a write that takes two new blocks leaves the
  second unmarked.
- `Cs1550Threads.cfg` refutes `NoSharedBlocks` for two threads, which are given
  the same block. `Cs1550Overwrite.cfg` refutes `WriteKeepsSize`: a write at the
  beginning of a file cuts the file off. `Cs1550Read.cfg` refutes `ReadFits`: a
  read that ends before the end of the file copies the rest of the file too.
  `Cs1550Names.cfg` refutes `NamesPersist` for two threads: a write to a file saves
  the directory it read before a `mknod` in it, and the new name is lost.

Bounds: `DiskBlocks` (the model ends where the disk is full; `TOTAL_BLOCKS` is
beyond the end of the 5 MB disk that the head of `cs1550.c` makes with `dd`, so that `-ENOSPC` is never returned there),
`Files` no more than a directory holds, `MaxSize`, `Bufs`, and `MaxOverwrite`
(0: the runs append only; `Cs1550Overwrite.cfg` overwrites).

## Xv6Proc

The process table, one record per slot, and for every CPU `c->proc` with the
scheduler's `max_priority` and position in its pass. A step is one critical
section of `ptable.lock` or `tickslock`. Both locks are variables, since the code
keeps them across steps: `ptable.lock` goes from the scheduler through `swtch` to
the process (`Resume`, `WaitAgain`) and back (`sched`), and `sleep` and the timer
take it with `tickslock` in hand. `ticks` is kept as the ticks each sleeper still
waits for. `fork` is two steps, since the child is `EMBRYO` between two critical
sections, and may fail in between. `init` forks and waits only; its exit and its
kill, which panic, are left out.

- `xv6_proc` (three slots, two CPUs, three pids, priorities 50, 60 and the
  refused 201): `RunningExclusive`, `NoLostWakeup`, `ParentAlive`, `BestServed`,
  and no deadlock of the two locks. Three slots hold a process whose parent dies
  first; two CPUs make passes of the scheduler with stale priorities overlap with
  everything else. `MaxPid` ends the run where pids are used up.
- Fairness: strong for the kernel's steps on each CPU, since they wait for a spin
  lock that other CPUs take and release, and `xchg` in a loop gets it in the end;
  strong for the timer, which keeps ticking. System calls are up to the programs.
- `Xv6ProcKill.cfg` refutes `KillsProcesses`: `kill` finds free slots.

`Xv6ProcProofs` proves `OneStackOneCpu` (`RunningExclusive`) and `ParentsWait`
(`ParentAlive`) for any number of slots, CPUs, pids and priorities. The inductive
invariant `IInv` joins them with the types, with `Forking` (each fork under way
owns an `EMBRYO` slot of its own, so that it makes `RUNNABLE` no slot another CPU
runs) and `InitLives` (the process that inherits the children is there). There is
one lemma per action; lemmas on "nothing but the state of this slot changed" carry
the conjuncts that an action leaves alone.

On top of it `SInv` gives `NoWakeupLost` (`NoLostWakeup`) and `TypesKept` (`TypeOK`).
A lost wakeup would be a tick between the test of `sys_sleep` and its `sleep`, so the
invariant says who has `tickslock` there: `Napping` (a process that has tested runs
on the CPU that holds it, with no interrupt in progress), `Ticking` (a tick holds it
on CPU 0); `Ranges` are the bounds of the variables. That the scheduler's choice of
a priority exists rests on the well-foundedness of the naturals. Assumed are a
slot, a CPU 0, and that priorities are integers, naps and pids naturals.

## LazyVm

Frames, page tables and processes of lab4. Sizes are in pages; a frame remembers
what it was last filled with. `fork` and `exec` take one page at a time, so two
processes can run out of frames against each other, and every failure path gives
back what it had. `panic` stops the machine.

`sys_sbrk` sets any size, without a check, as the code does. The fault handler maps a
page wherever the program faults: below `KERNBASE`, whatever the size is, and in the
gap between the kernel's mappings and the devices. `freevm` frees the pages below
`KERNBASE` only; the history variable `lost` collects the frames it leaves in the gap.
Without a frame the handler returns and the access faults again: no step.

- `xv6_vm` (two processes, 15 frames, three user pages and one in the gap, three
  pages a table, sizes 1 and 5): `FramesOwnedOnce`, `NoJunkVisible`, `GuardKept`. A
  program takes seven frames, so that two just fit with one page more, and a third
  page directory, built by `exec`, does not. Size 1 is below the guard page, size 5
  above `KERNBASE`, where `copyuvm` meets a page of the kernel.
- `FramesOwnedOnce`: a frame is free, referred to once, or lost, and nothing is lost
  but what was mapped above `KERNBASE`.
- `GuardKept`, a property of steps: an address space keeps its guard page, `exec`
  makes one, and `fork` hands it on. The exception is in the code: a process that
  shrank below the guard page has children without one, and a child that touches
  the place gets an ordinary page there.
- `LazyVmShrink.cfg` refutes `SbrkDeallocates` and `LazyVmPanic.cfg` refutes
  `NoPanic`.

`LazyVmProofs` proves the three for any number of processes, frames, pages and
entries of a table (`FramesOnce`, `PagesClean`, `GuardStays`). The inductive
invariant `VInv` adds the types and

- `Phases`: what a `fork` or `exec` has built so far agrees with its loop counter, a
  slot without a program has no memory, and a child under construction has one
  parent. Without it a `fork` could give two parents' pages to one slot, or a failed
  `exec` free what it never took;
- `AllClean`: mapped pages and tables are filled as such, in the directory in use
  and in the one being built, since `exec` makes the second the first;
- `Guarded`: in the directory being built, the guard page is there and not the
  user's as soon as the loop has passed it: always in `exec`, in `fork` if the parent
  has one.

In `FramesOwnedOnce` the place of a frame is a kernel stack, or an
entry of one directory. Lemmas say of allocating, mapping, freeing and of the
exchange of directories in `exec` how the places move, and there is one lemma per
action. `kalloc` takes some free frame; nothing depends on which. Assumed are sizes
of at least one and by `BootAssumption` the frames of the first process, without
which `userinit` panics.

## Xv6Log and AtomicDisk

`AtomicDisk` is the promise: system calls write to a volatile image, a commit
makes all of it durable and happens only between system calls, a crash goes back
to the last commit. The promise is for groups of calls that fit the log; the
commit of a larger one ends it (`Break`, `Void`).

`Xv6Log` is `log.c`: `commit` one disk write at a time, a crash
before or after each, recovery by the same `install_trans`, crashes during
recovery, the buffer cache as far as it may drop a buffer that is not `B_DIRTY`.
`log_write` is two steps, since it tests the length of the log before it takes
`log.lock` and appends after. So two calls can pass the test together and make
a transaction of one block more than the log has. `write_log` then writes the block
behind the log (`AfterLog`; `mkfs` puts the inodes there), or waits forever for a
buffer it has locked itself when that block is the one to be logged
(`SelfLocked`, phase `stuck`). One block is written atomically; a disk that tears a
sector is not modelled.

- `xv6_log` (three blocks, two calls, log of three with header, one block a call):
  `AtomicSpec` is the refinement. Durable is the disk with the log replayed if the
  header names blocks; current is what `bread` returns; pending are the blocks in
  the header in memory and the ones on their way there; the promise holds until
  `write_log` leaves the log (`overrun`). `QuiescentIsDurable`; `SleeperWoken` under weak
  fairness of `commit` and of the second part of `log_write` and strong fairness of
  `end_op` for a call that was let in (it is not enabled during a `log_write`, of which
  a call makes finitely many). The log is small enough for the
  second call to wait for space, and two calls that absorb no write outgrow it.
- `Xv6LogFull.cfg` refutes `AdmittedFits`, `Xv6LogOverrun.cfg` refutes `LogHolds`.

`Xv6LogProofs` proves the refinement (`LogIsAtomic`) and `QuiescentDurable` for any
set of blocks and calls and any size of the log. The inductive invariant `Inv` has
the types, `Control` (which phase goes with which header, with which callers, how
far `tail` is), `Data` (where a block's contents are: neither dirty nor locked means
on disk) and, as long as nothing was written behind the log, `Log` (the log holds what
the phase has copied so far). The steps of the refinement
show that only `write_head` moves the durable image, and only reboots and
`log_write` the current one, and that `overrun` comes only with a commit of more blocks
than fit.

## Xv6Fs

Inodes with their references, links, directory entries and blocks, and two
processes in the middle of system calls. A step goes from one point where a
process may block on an inode's lock to the next, so that `iput`, which locks, is
a step of its own with another (`unref`) for the reference it drops after.

- `xv6_fs` (two processes, three inodes, two names, two blocks; one descriptor
  each): `RefsExact`, `LinksCoverNames`, `InUseAllocated`, `BlocksExact`, over
  `creat`, `mkdir`, `open`, `chdir`, `unlink` of file and directory, `link`, `write`,
  `close`. Files in the root and in a directory that comes and goes are what makes
  lookups race with removals.
- `xv6_fs_stuck` is violated, under strong fairness of every step of a system
  call (a sleep lock that is free again and again is got in the end): `create` and
  `unlink` wait for each other.
- `Xv6FsLeak.cfg` refutes `FreedWithLastReference`.

`Xv6FsProofs` proves all five for any finite sets of processes, inodes, names and
blocks and any calls (`TypesKept`, `RefsCounted`, `NamesCovered`, `UsedStays`,
`BlocksCounted`), and `UnlinkFindsLinks`: the inode that `sys_unlink` finds has a
link, so that its `panic("unlink: nlink < 1")` is never reached. The inductive
invariant `FsInv` is needed since each of the five depends on the others and on where
calls are:

- `RefsExact` counts the pointers of processes, and `Shapes` says which pointers a
  call has at each stage, so that an `iput` gives back a reference that is there;
- `Locks`: the inode or directory that a call keeps locked between two steps is
  locked by it, and the entry that `unlink` found is still there;
- `Kinds`: what is behind a pointer is allocated, and of the kind the call goes
  on with; `Blank`: a free inode has no links, entries or blocks;
- `Links`: `LinksCoverNames` alone is not inductive. A call owes an inode a link
  when it has counted one and has not written the name yet (`link`), or has
  removed the name and still counts the link (`unlink`). Names, subdirectories and
  the calls that owe (`Owners`) together are at most `nlink`.

Then `iput` frees an inode only if no name is left, which is `InUseAllocated`. The
counts are cardinalities of finite sets; `CountChange` says how one changes when a
function changes at one argument, and the lemmas about references and links rest on
it. The few facts about cardinalities they use are one hypothesis, `FiniteFacts`,
which `CountsFinite` proves from the library before the theorems use it. Assumed are that the sets are finite (`FsAssumption`) and that a call has a path
(`CallAssumption`).

Calls stop where the code panics (no inode, no block left). The system may stop
in the deadlock above, so deadlock is not an error of `xv6_fs`.

## Xv6Pipe and PipeFifo

`PipeFifo` is a bounded queue of bytes with two ends. A process that starts a write
has its bytes `todo`; `Put` moves the next of them into the queue, and may drop the
rest only when the queue is full (a write that fails). `Xv6Pipe` has the ring
buffer with its unsigned counters, the table of open files and the descriptors,
which `fork`, `dup`, `close` and `exit` share and drop. A step runs while `p->lock`
or `ftable.lock` is held.

- `xv6_pipe` (two processes, two files, two descriptors, a pipe of two bytes,
  counters that wrap at four, writes of three bytes): `FifoSpec` is the
  refinement, the queue being the bytes between the counters and `todo` what is left
  of each write, so that a write that sleeps must go on with the byte it stopped at;
  `FileRefsExact`, `EndsStayOpen`, `SleepersHaveReason`; `ClosedEndReleases` under
  weak fairness of the kernel's steps of each process (a process that is not
  asleep runs). Writes longer than the pipe make the writer sleep; the counters
  wrap many times.

At most one pipe exists: while it does, `kalloc` fails in `sys_pipe`, which also
exercises that path. A killed writer leaves a full pipe without waking readers
(`pipe.c:86`); `SleepersHaveReason`, a property of steps, excepts that one.

`Xv6FileProofs` proves `FileRefsExact` (`RefsCounted`) and `EndsStayOpen`
(`EndsOpen`) for any number of processes, files and descriptors. Its invariant `FInv`
adds `Control` (a free file is blank, `sys_pipe` between its two `filealloc`s has one
blank file to itself, who is in a read or write holds that end) and `EndsInv` (an open
end has one file or one process on its way to close it). `Xv6PipeProofs` proves for
any `PIPESIZE` and any width of the counters that the ring implements the queue
(`RingIsQueue`), `NobodyForgotten` (`SleepersHaveReason`) and the types. `RInv` adds
`RTypes` (the counters are apart by at most `PIPESIZE`), `SleepW` (a writer
sleeps only on a full ring) and `NoneLeft` (outside a write nothing is left to
write, so that the write end closes on no unfinished write); lemmas on the counters, modulo their width, say
that a byte written is the last of the queue and a byte read the first. That
`PIPESIZE` divides the width is assumed (`PipeAssumption`); 512 divides 2^32, and
otherwise the ring would jump when the counters wrap. `TableAssumption` and
`InputAssumption` give finite tables and reads of at least one byte.

## Counterexamples outside the runs

These configurations end in a violation, each the evidence of a finding in
`PROJECT.json` that has no run of its own:

| Configuration | Module | Property | Code |
|---|---|---|---|
| `AptSimMax.cfg` | `MCAptSim` | `AtMostMaxTenants` | `aptsim.c:129` |
| `AptSimInspect.cfg` | `MCAptSim` | `InspectsWithAgent` | `aptsim.c:233` |
| `Cs1550Threads.cfg` | `MCCs1550` | `NoSharedBlocks` | `cs1550.c:177` |
| `Cs1550Overwrite.cfg` | `MCCs1550` | `WriteKeepsSize` | `cs1550.c:826` |
| `Cs1550Read.cfg` | `MCCs1550` | `ReadFits` | `cs1550.c:679` |
| `Cs1550Names.cfg` | `MCCs1550` | `NamesPersist` | `cs1550.c:827` |
| `Xv6ProcKill.cfg` | `Xv6Proc` | `KillsProcesses` | lab3 `proc.c:535` |
| `LazyVmShrink.cfg` | `LazyVm` | `SbrkDeallocates` | lab4 `sysproc.c:54` |
| `LazyVmPanic.cfg` | `LazyVm` | `NoPanic` | lab4 `vm.c:329` |
| `Xv6LogFull.cfg` | `MCXv6Log` | `AdmittedFits` | lab4 `log.c:218` |
| `Xv6LogOverrun.cfg` | `MCXv6Log` | `LogHolds` | lab4 `log.c:218` |
| `Xv6FsLeak.cfg` | `MCXv6Fs` | `FreedWithLastReference` | lab4 `fs.c:338` |

## Only model-checked

- Liveness (`VisitEnds`, `AgentServes`, `BestServed`, `SleeperWoken`,
  `ClosedEndReleases`): TLAPS does not prove it under fairness.
- What recursive definitions and folds compute, which needs induction over data:
  `OptIsOptimal`, `AgingEvictsLeast`, and that opt and aging choose frames, on which
  `DirtyExact` rests for them.
- All of `Cs1550`, about which no proof is written. `ReadsBack` follows chains of blocks
  of any length, so it would need an induction; the others hold for one thread only.

## Not modelled

- FUSE (`fuse-2.7.0`): third-party code, about half the lines of the repository; its
  threads are those of `Cs1550`.
- Drivers, boot and trap entry of xv6: they write to hardware whose behaviour is
  not in the repository.
- User programs of xv6 and the semaphore test programs of `lab1` and
  `proj1_test`: they are callers, and appear as the free choice of calls.
- Parsing of arguments, paths and trace lines, formatting, error codes.
- `.` and `..` in paths, absolute paths, `mknod`, `fstat` and offsets of reads of
  `Xv6Fs`; the LRU order of `bio.c`, and its buffer locks outside `log_write`.
- `Cs1550` on a full disk or in a full directory, where it writes behind its
  arrays or over the bitmap: the bytes matter there, and the model has none.

The hazards in `PROJECT.json` without a property say what is missing for each.
