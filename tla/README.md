# Verification of systems-lab

TLA+ models of three of the systems in this repository: the storage stack of
filesystem-lab, the kernel of minios-x86 (scheduling, pipes, semaphores,
processes, signals) and the TCP connections of userspace-tcpip-stack. TLC checks
them on small instances. TLAPS proves the storage stack, and two facts about
the process table, for every value of the constants.

Paths are relative to `src/projects/filesystem-lab/`,
`src/projects/minios-x86/` or `src/projects/userspace-tcpip-stack/`, whichever
the paragraph is about; sources are in `src/` of the two Rust projects.

## 1. Inventory

### Storage (filesystem-lab)

| Part | State | Operations that change it | Model |
| --- | --- | --- | --- |
| block device (`block.rs`) | contents reads see, contents that survive | write, flush, (power loss, error) | in every storage module |
| journal (`journal_region.rs`, `recovery.rs`, `journal_checkpoint.rs`) | journal reservation, home blocks | publish, replay, checkpoint | `JournalStore` |
| journaled stores (`*_tx.rs`, `transaction_image.rs`) | none of their own | render, collect changed blocks, publish, replay, maybe checkpoint | `JournalStore`, `MetadataRegions` |
| buffer cache (`cache.rs`) | entries clean, dirty, writeback | read, write, write_back, flush, evict | `BufferCache` |
| direct table stores and formatter (`allocation_disk.rs`, `inode_table.rs`, `directory_table.rs`, `format*.rs`) | three table regions, superblock | store, format | `MetadataRegions` |
| namespace operations (`create_tx.rs` … `hard_unlink_tx.rs`) | bitmap, inodes, entries | create, unlink, rename, exchange, overwrite, link, unlink of a link | `FileSystem` |
| file operations (`file_*.rs`, `truncate_tx.rs`) | bitmap, inodes, data | truncate, append, insert, write, copy | `FileSystem` |
| fsck (`fsck.rs`) | none, read only | — | predicates of `FileSystem` |
| tables in memory (`allocation.rs`, `inode.rs`, `directory.rs`) | tables, next identifier | allocate, free, create, attach, insert, … | their use, in `FileSystem` |

An operation loads the tables, computes new ones, renders them into a
`CaptureDevice`, and gives the blocks that changed to the journal as one
transaction. `store_journal_image` writes the reservation from the tail to the
header and flushes: this is the commit. `recover_journal` writes the blocks home
and flushes. `checkpoint_journal` zeroes the reservation and flushes, for the
operations that do so. After any failure the caller runs
`recover_journal_and_checkpoint` (`create_tx.rs:33-35`).

### Kernel (minios-x86)

| Part | State | Operations that change it | Model |
| --- | --- | --- | --- |
| scheduler (`task.c`) | ready ring, blocked list, kill marks | create, block, wake one/all/this, kill, schedule, exit | `Tasks` |
| pipes and descriptors (`pipe.c`, `syscall.c`) | ring buffer, reference counts, descriptor tables | pipe, read, write, close, dup, dup2, inherit, exit | `KernelIPC` |
| semaphores (`sem.c`) | count, waiters | init, wait, post | `KernelIPC` |
| processes and threads (`process.c`) | process table, next pid | launch, fork, exec, thread create and join, exit, wait, waitpid, kill, detach | `KernelProcess` |
| signals and time (`syscall.c`, `timer.c`) | pending sets, handlers, sleep slots | kill, signal, pause, alarm, deliver, sigreturn, sleep, tick | `KernelProcess` |
| shell (`kernel.c`) | the job it runs | pipeline; foreground and background program | `KernelIPC`, `KernelProcess` |

A system call enters through an interrupt gate and runs with interrupts off
until it blocks or returns, so the unit of interleaving is the stretch of a call
between two blocks. The timer interrupt comes only in user mode, in the idle
task and in the shell, which runs in the kernel with interrupts on.

### TCP (userspace-tcpip-stack)

| Part | State | Operations that change it | Model |
| --- | --- | --- | --- |
| connection (`tcp.rs`, `tcp_seq.rs`) | state, sequence variables, buffers, reassembly and retransmission queues | `handle_segment`, `poll_output` | `TCP`, operators over a connection record |
| socket runtime (`socket.rs`) | connection, listener, backlog | connect, listen, accept, read, write, close, abort, dispatch, `step_timers` | `TCP`, actions |
| network (external) | segments in transit | lose, duplicate, delay, reorder | `TCP`, the set `net` |

What is hard about each: power loss or a device error between any two writes;
kills and wakes between the test of a condition and the wait for it; lost,
repeated and late segments. `PROJECT.json` lists the hazards by source line,
with the properties that are about them.

## 2. Modules

**`AtomicStore`** is the promise of the log: the home blocks are one value; it
is replaced as a whole or not at all, and an acknowledged call has replaced it.

**`JournalStore`** is the log. `vhome`/`vjrn` are the contents that reads see,
`dhome`/`djrn` the ones that survive power loss. Every device write and flush
is an action: `PublishBlock`, `PublishFlush`, `LoadEmpty`/`LoadTxn`/
`LoadCorrupt`, `ReplayBlock`, `ReplayFlush`, `ClearBlock`, `ClearFlush`; `IOFail`
ends a call at any of them, `Crash` may come anywhere. `call` says which of the
store, link and recovery calls is running, because they differ in the
checkpoint and in the check of the recovery report. A transaction is a function
from home blocks to contents. `faults` is chosen once: whether a power loss can keep
a part of the unflushed writes, and whether device calls fail. The capacity check is in bytes (`ImageBytes`), as
in the code. Journal blocks are labelled with the image they belong to, which is
what the checksum can tell apart: a mix of two images is not loadable. Two images
may agree in some of their blocks, and the code then loads a mix that happens to
be a complete image; the model treats it as unloadable. Both outcomes lead to the
state before or after the transaction.
`Begin` happens only in state "idle": after a failure the caller recovers first.

**`BufferCache`** is the cache over such a device. `flush()` is several steps
(`FlushBegin`, `FlushBlock`, `FlushEnd`) so that each device call can fail and
power can be lost between them; `write_back` and the others are single device
calls. `latest` and `since` are history: the last contents written per block, and
all contents since the last acknowledged flush. The cache starts over a device
without unflushed writes.

**`MetadataRegions`** has the table regions block by block. `Store` and `Format`
queue their writes, header block last, superblock last of all; `WriteImageBlock`
and `Flush` carry them out. A header block has the checksum of the records, here
the records themselves; `Loads` compares. Journaled stores and recoveries appear
by their outcome, which `JournalStore` justifies: the logged blocks are replaced as
a whole, earlier unflushed writes become durable with them, and `journal` keeps them
unless it is checkpointed. The allocator's store logs its whole region, the other
two only the blocks that differ from what they read (`Logged`); one that has
nothing to log returns at once. `Recover` writes the blocks of the journal over
whatever is in the region by then. If a direct store or a format came in between,
the journal is `outdated`, and the result may be the older table or a mix that does
not load; `revived` records which checksums came back in this way. A reformat keeps the
geometry. The variable `setup` is chosen once: which tables exist, which contents
are stored and which faults happen.

**`FileSystem`** has the operations over the four home regions (bitmap, inodes,
entries, data). An operation's guard is its validation code, its effect the new
regions. `Commit` is the journal's commit point, again justified by
`JournalStore`; `Install` then writes the regions in the order in which the
transactions log them, `Stop` interrupts the replay, with the writes so far kept
or lost, and `Recover` starts it again. Each region is installed in one step and
so are the data blocks of a transaction; `JournalStore` has the finer steps. The
journal's capacity is left out here, which only adds behaviours. A create is put
together by the client: `store_create_metadata_journaled` checks nothing about its
snapshots, so `Create` is built from the checks of the tables' operations. `Fsck`
translates the audits of `fsck.rs`; the graph searches are stated through closed
sets of inodes, without recursion.

**`Tasks`** is `task.c` as operators from a scheduler record to a scheduler
record: the ready ring as a sequence from its head, the current task, the blocked
tasks with their channels in list order, the kill marks. `KernelIPC` and
`KernelProcess` both work on such a record. The two modules share the scheduler
and the exit path and otherwise model disjoint tables.

**`ByteChannel`** is the promise of a pipe: a queue of bytes of bounded length to
which writers append and from which readers take a prefix.

**`KernelIPC`** has one pipe, one semaphore and the shell's two-stage pipeline.
`op` is the call each task is in the middle of; a task that was switched to inside
a call goes on with it before anything else (`ResumeRead`, `ResumeWrite`,
`ResumeSem`). An action is one stretch of a call. `load` is a workload, chosen
once, that says what the programs do. `sem.eaten` and `shell.lost` are history;
they record the two outcomes described in section 5 so that the properties can
except exactly those.

**`KernelProcess`** has the process table, threads, signals, alarms, sleeping and
the shell's jobs. `owner` is a task's process pointer together with the pid it had
when the task was created, so that a reused slot can be told from the old one.
`op` has one more value, "deliver": a task on its way back to user mode runs
`signal_deliver` first; only `sigreturn` goes back without it. `fork` may fail in
`create_task`, after the pid was taken. The shell's launch is one action per store
that others can see, because interrupts are on between them: `ShellPicks`,
`ShellTakesPid`, `ShellClears`, `ShellFills`, `ShellCreatesTask`, and
`ShellStoresTask`, or `ShellReleases` when there was no task. The program can run,
and end, before the record names its task. The fields `unheard` and `stale` of a
record are history: the last signal found no task to wake, and the launch stored a
task that had ended. Time is abstract: at a tick any sleep and any alarm may be due.

**`TCP`** has both ends of one connection. `handle_segment`, `poll_output` and
their helpers are operators that keep the names of the Rust functions; they return
the connection and the segments it sends. The actions are the socket calls,
`Dispatch` of a segment (all of `dispatch_tcp_segment`, with the poll that follows)
and `StepTimers`, which polls a connection with some set of its armed timers
expired. `broken` is history: the connection was reset, given up, aborted or dropped,
and did not end by closing. Payload bytes are numbered in the order in which they were written, which
is what `StreamIntegrity` compares. Sequence numbers are modulo `Mod`. The
congestion window is at each poll any of a set of values of at least one segment: it
restrains when bytes are sent and nothing else.

The `…Proofs` modules, `FileSystemNames` and `FileSystemBlocks` hold the theorems
and lemmas; the `MC` modules hold the sets of the small instances.

## 3. Runs

| Run | Instance | Properties | Distinct states |
| --- | --- | --- | --- |
| `journal` | 3 home blocks, 2 contents, 3 journal blocks; either power loss drops all unflushed writes and device calls fail, or it keeps any subset of them; fairness | `CrashAtomic`, `IdleReadsDurable`, `ReportNeverMismatches`, `NoRollback`, `ImplementsAtomicStore`, `RecoveryCompletes` | 182944 |
| `cache` | 3 blocks, 2 contents, tearing power loss, flush failures | `Coherent`, `CleanIsDurable`, `DurableIsRecent` | 12032 |
| `regions` | regions of 2 blocks: two tables with plain power loss, one table with tearing and errors | `LoadsStored`, `ReturnedIsDurable`, `DurableTablesLoad` | 277411 |
| `fs` | 4 inodes, 2 names, 3 data blocks, 2 contents | `Consistent`, `DirectoryTree`, `PartialInstallRejected`, `NoLeak`, `Isolation` | 135952 |
| `kernel_ipc` | 3 tasks, 2 processes, a pipe of 2 bytes | `TypeOK`, `ListsSound`, `RefsExact`, `NoMissedPipeEvent`, `SemNeverStrands`, `ImplementsByteChannel` | 290432 |
| `kernel_live` | 3 tasks, 1 process, a pipe of 1 byte, fairness | `EveryReadyTaskRuns`, `KilledTaskDies` | 23153 |
| `kernel_process` | 3 tasks, 2 slots, pids 1 to 3, 1 sleep slot | `TypeOK`, `UniquePids`, `AddressSpaceAlive`, `TeardownExact`, `ZombieHasParent`, `WaitReapsOwnChild`, `NoMissedWakeup` | 684428 |
| `tcp` | 8 workloads of up to 4 bytes, up to 2 faults each, fairness | `TypeOK`, `StreamIntegrity`, `ReceiveBounded`, `UnackedIsTracked`, `AckedIsHeld`, `WrittenIsRead`, `HandshakesFinish` | 50051 |
| `journal_repair`, `regions_format`, `kernel_launch`, `tcp_abort` | as above | one each, violated (section 5) | |

What they show, in short.

*Storage.* Whatever is lost or fails, recovery reaches the state before or after
the last transaction, an acknowledged one stays, and callers between calls read
nothing that a power loss would take back. A cache that is retried after failed
flushes and evicted loses nothing that was acknowledged. A table that loads is one
that was stored, and without faults every table of a formatted device loads, except
after the replay of an outdated journal. Every committed state passes fsck; beyond what fsck checks, no
block leaks, directories form a tree, no operation changes another file.

*Kernel.* Under every schedule the two lists of the scheduler hold each task once;
the pipe's reference counts are exact through dup, fork, exit and kill, and it is a
first-in-first-out channel; nobody sleeps through the event it waits for; killed
tasks end and ready tasks run. Exactly the last task of a process tears it down, in
any order of exits, and no task runs in an address space that is gone; the record of
a program that ended before the shell stored its task is the exception. A wait
reaps a child of its own and every zombie has somebody to reap it.

*TCP.* The receiving application gets the bytes written, once and in order, across
losses, duplicates, reordering and a wrap of the sequence numbers. What a sender
regards as acknowledged is held by the receiver; what it has sent and does not
regard so is in its retransmission queue. Nothing wedges: bytes are read unless the
connection breaks, also when either end closes, and handshakes and closes finish or
are given up.

### Bounds

- Three journal blocks hold a transaction of two home blocks, and three home blocks
  make one that is too large, so both sides of the capacity test occur, as do images
  that share the reservation with a longer old one. Two contents tell old from new.
- Regions of two blocks have a header and a tail. With two tables the stored contents
  are three of the four (`stores`), chosen so that a journaled store logs both blocks
  or the header only; with one table they are all four.
- Four inodes give a root, a directory in a directory and a third to move below it,
  or two files with two links. Three data blocks allow a file of two blocks, release
  and reuse, and reach exhaustion. `MaxBatch` bounds the blocks one call supplies,
  `TableWords` is the room for records in the inode table; 17 words are too few for
  everything four inodes can hold, so the table can be full.
- Three tasks give a third party to any two that wait for each other. `MaxTasks`
  bounds the tasks that exist at once per workload, `MaxEnds` the descriptors that
  hold an end. A pipe of two bytes and writes of three wrap the ring and block half
  way. `SemMax` 2 stands for `INT32_MAX` and is reached.
- Two slots and three pids make slots and pids be reused and `next_pid` wrap while an
  old process lives (`PidMax` must exceed the number of slots, as it does in the
  code, or no pid would be free). One sleep slot is contended by two sleepers.
  `Overlap` says whether the shell launches a program while others run. It is FALSE in
  `kernel_process`, because `kernel_launch` shows what happens otherwise. The three
  workloads keep apart what programs do: families of processes and threads; signals,
  stops and sleep; programs of the shell, which fork, wait, pause and set alarms.
- TCP: `Mss` 2 and capacities of 2 or 3 bytes make a write of 3 or 4 span several
  segments and close the window. `Mod` 28 keeps live numbers within half of the
  space (`SpaceAssumption`) and the client's initial number 25 wraps during each
  connection. `MaxRtx` is 1 (12 in the code) and `DupThreshold` 1 (3), so that giving
  up and fast retransmit are reached within the fault budget. The congestion window is
  2 or 5 bytes, below and above the capacity of 3. `MaxOoo` is 1, so that a byte can
  be parked and a segment of two, or a second one, is dropped; in the code
  `MAX_OOO_BYTES` is larger than the largest window and the limit is only reached by
  segments that overlap. A fault is a loss, a
  duplicate, or a timer that expires while segments are in transit. There is one
  incarnation of a connection per end: a SYN that would open another one on the
  server is lost (`DispatchFurther`).

Symmetry is over contents, names, inode identifiers, tasks and processes, which the
specifications only compare for equality; it is not used with liveness properties.

### Fairness

- `journal`: a running call takes its next step (the code is sequential and
  never waits), a stopped client runs recovery again (what `create_tx.rs:33-35`
  asks of callers), and from some point on there are no more faults.
  `RecoveryCompletes` then says that the recovery after a power loss that takes the
  unflushed writes as a whole completes, and so does every recovery that starts with a
  journal that loads. It promises nothing for a journal that does not load: one left
  half published or half cleared by a device error (section 5), or torn.
- `kernel_live`: a call that was resumed goes on (weak fairness). The timer is
  periodic and its interrupt stays pending while interrupts are off, and it is not
  synchronised with the programs, so a task that is in user mode again and again is
  interrupted there at some point (strong fairness of the tick, per task). Nothing
  is assumed of what programs do.
- `tcp`: while segments are in transit to a host, one is dispatched at some point
  (weak fairness of `Dispatch`, which every segment in transit enables; losses are
  bounded by the fault budget); `step_timers` is called again and
  again and the clock passes every deadline; applications accept and read. No
  application is assumed to write or close. The formulas are written out instead of
  using WF of large disjunctions, for TLC's sake.

Deadlock is checked in every run except the two of TCP: there a finished
connection, or one whose applications have nothing left to do, really stops.

## 4. Proofs

| Module | Theorems | Argument |
| --- | --- | --- |
| `JournalStoreProofs` | `TypeCorrect`, `Atomicity`, `Durability`, `IdleReads`, `RetainedJournal`, `ReportsMatch`, `JournalLoads`, `CommitsAreFinal`, `Refinement` | `IInv` |
| `BufferCacheProofs` | `TypeCorrect`, `ReadsLastWrite`, `EvictionIsSafe`, `RetryIsSafe`, `FlushDurable`, `BoundedLoss` | `IInv` |
| `MetadataRegionsProofs` | `TypeCorrect`, `OnlyStoredLoads`, `AcknowledgedIsDurable`, `SkippedIsDurable`, `ReturnsAreDurable`, `FormattedLoads` | `IInv` |
| `FileSystemProofs` (with `FileSystemNames`, `FileSystemBlocks`) | `TypeCorrect`, `AlwaysConsistent`, `NothingLeaks`, `DirectoriesFormTree`, `FilesAreIsolated`, `PartialInstallsRejected` | `IInv` |
| `KernelProcessProofs` | `AllocatedPidIsFresh`, `WaitsReapOwnChild` | operator lemmas |

Assumptions: the named ASSUMEs of each module, and for `JournalStore` also
`FaultModel`: device errors and tearing power losses do not both happen. With both, a
journal whose flush failed can be replayed from the unflushed contents and a power
loss can keep some of the home writes and not the journal; atomicity then fails.
`docs/recovery.md:14` excludes tearing.

*The log.* `CrashAtomic` alone is not inductive: it is about the durable image, and a
flush copies the other one. `IInv` adds what recovery would make of the volatile
image (`VolatileInv`), what each phase has written so far (`PublishInv`, `ReplayInv`,
`ClearInv`), that outside replay the home blocks are durable and the retained journal
has no effect (`HomeClean`, `Settled`), that a store call past its flush is committed
and replays what it logged (`StoreInv`), and for tearing that the two images differ
only where the running loop has written (`TearingInv`). There is one lemma per
action; the lemmas on `Apply`, `Image` and `Loadable` come first.

*The cache.* Every block that is not dirty reads its last contents from the device,
and the last contents are among the recent ones.

*The table regions.* `Written`: the blocks that the running call has passed hold the
new image. `Sums`: the checksum of a header, wherever it has got to, is that of a store
`legit` admits; since a region that loads is determined by its checksum, that gives
`LoadsStored`. `Sound`: without faults, each region either loads or is the one being
written, or has had an outdated journal replayed over it. `Current`: the blocks of a
journal that is not outdated are in its region already, so its replay changes
nothing.

*The file system.* `IInv` says that the committed regions and the ones before them are
good (they pass fsck, leak nothing, form a tree), that the second follows from the
first without touching other files (`Keeps`), that the home regions are the old or the
new ones according to the progress of replay (`Replayed`, `Ordered`), and which regions
each kind of operation may change (`Shape`). Each operation then needs one lemma about
pure regions: good regions go to good regions. `FileSystemNames` has those about
names; acyclicity after a rename is by the set of inodes below the one that moves,
which stays closed because the code refuses a destination in it. `FileSystemBlocks`
has those about blocks and data. `FileSystemProofs` puts them together.

*The process table.* `AllocatePid` takes the first candidate that `process_find` does not
know; the lemmas say that such a least candidate exists and that "not found" means no
used record has it, before and after the wrap. `WaitReapsOwnChild` is about what a
step returns, so it is preserved because of what each action compares at the moment
it reaps, whatever the slot held when the wait began; every other action returns
nothing from a wait.

Some properties are proved and not repeated by a run: the type correctness of the four
storage modules, `AckedDurable`, `RetainedJournalSettled`, `DurableJournalLoads`,
`WritebackIssued`, `FlushIsDurable`.

Only model-checked: everything about liveness (out of the prover's reach), `KernelIPC`,
`TCP`, and of `KernelProcess` all but the two theorems.

## 5. Where the documentation and the code differ

Four runs end in a counterexample:

- `journal_repair`: `checkpoint_journal` zeroes the header block first and stops at
  the first failed write; the rest of the image is then rejected by every later
  recovery. `docs/recovery.md:22,26` say that a failure after commit is repaired by
  running recovery again. The home blocks are complete by then; what is lost is
  the ability to recover and checkpoint.
- `regions_format`: formatting a used device leaves a committed journal in place, and
  recovery writes its blocks over the new tables. `docs/journal-region-format.md:20`
  takes a newly formatted journal to be zeroed and empty.
- `kernel_launch`: the shell launches a program with interrupts on. A program that
  is already running in the background can fork between the shell's search for a
  slot and pid (`process.c:49-63`) and their use; the shell then writes its record
  over that of the child.
- `tcp_abort`: a probe of a closed window is counted like an unanswered segment, so a
  sender gives up a receiver that answers every probe but whose application does not
  read. The comment at `tcp.rs:1836` takes the peer to be unreachable.

Met while modelling, contained in the models, and excepted by name in the properties
where they touch them:

- fsck accepts a create of which only the bitmap is installed;
  `docs/crash-testing.md:31` says any partial installation is rejected. The crash
  tests drop all unflushed writes and do not produce this image; a device error
  during replay does.
- The same replay after a direct store (`store_inode_table` and the like) brings back
  blocks of the older table. Where only some blocks were logged, the region then is a
  mix that does not load. `LoadsStored` and `DurableTablesLoad` except it as
  `revived`.
- A journaled inode or directory store that finds nothing to change returns Ok without
  a flush, although it may have compared with the contents of a store whose flush
  failed. `inode_tx.rs:15` speaks of the "durable inode region".
- `sem_post` wakes one waiter. If that one is killed before it runs, the next waiter
  stays blocked although the count is positive (`sem.c:45-60`, `task.h:88`); this is
  `sem.eaten`. The keyboard's wait has the same shape (`kb.c:112-150,169-188`).
- A pipeline stage that has exited before the shell gives it its pipe ends
  (`process.c:527-537`, `kernel.c:759-772`) never closes them, and its neighbour
  sees no end of stream; this is `shell.lost`.
- `process_launch` stores `process->task` after `create_task` has made the task
  runnable (`process.c:213`). A program that has ended by then leaves a record that names
  a task that is gone (`stale`). An alarm that rings before the store wakes nobody, so
  a program that pauses for it sleeps on until another signal comes (`unheard`).
  `TeardownExact` and `NoMissedWakeup` except these two.
- SIGCONT has the smaller number, so when it and SIGSTOP are both pending the stop
  wins whichever came first (`syscall.c:915-938`).
- A thread that a task creates after it was marked by a kill is not marked and
  survives (`process.c:616-637`, `task.c:260`).
- `pause` and SIGSTOP wake the main task of a process only, and a signal ends a sleep
  early; `PROJECT_STATE.md:239` documents the latter.
- The last acknowledgement of a handshake, when lost, is not sent again: a repeated
  SYN-ACK is ignored in Established. What `tests/test_tcp_loss.rs:10` says of a
  lost ACK, that cumulative acknowledgement recovers it, needs data to follow. In
  CloseWait retransmitted data is not acknowledged again.
- In a simultaneous open the SYN-ACK goes out with sequence number ISS+1 and is not
  tracked for retransmission.
- `tcp_read` returns `Ok(0)` also after a reset and after giving up; its comment
  (`socket.rs:608-609`) reserves that for the peer's FIN.
- A late acknowledgement overwrites the send window with an older one; probes mend
  it.

## 6. Plan

Done: the storage stack with proofs; the kernel's scheduling, pipes, semaphores,
processes and signals; the TCP connection. Next, in this order:

1. `KernelIPC` proofs: `ListsSound` from the operators of `Tasks`, then `RefsExact`.
   `KernelProcess`: `TeardownExact`, from the same lemmas on `Tasks`.
2. The tables in memory (`allocation.rs`, `inode.rs`, `directory.rs`) with their
   error paths and identifier exhaustion, and `journal.rs` with several transactions
   in one log and `crash_prefix`; both against abstract definitions.
3. The geometry arithmetic of the superblock and the framing of the record codecs
   as operators over bounded inputs.
4. Composition of the cache with the log, and `FileSystem` as a client of
   `AtomicStore`.
5. TCP with a second incarnation of a connection, a full backlog, and a proof of
   `UnackedIsTracked`.
6. The virtio queues of mini-hypervisor, and the lifecycle states and generation
   locks of mini-container-runtime.

## 7. Not modelled

The repository has some 256,000 lines in six projects; the models cover about one
percent of them. Most of the rest are protocol and packet codecs of
userspace-tcpip-stack, several hundred files that are pure functions over byte
strings and share no state. They are out of reach of a state-based model and no
attempt is made to raise the share by widening what a definition is said to cover.

In the modelled parts these are left out:

- storage: byte encodings and checksums (a checksum is taken to tell any two images
  apart), the superblock's arithmetic, fsck's audit of the journal's contents,
  transaction identifiers (one transaction per image), `BufferCache::into_inner`,
  reads and their errors where they change nothing, two clients on one device (all
  calls take the device exclusively);
- kernel: memory management, file descriptors of files, file systems, drivers, the
  shell's other commands, user stacks, the context switch itself, more than one
  semaphore or pipe (they do not interact);
- TCP: UDP and the other protocols, several connections, a second incarnation, the
  backlog limit, round-trip estimation (timers may expire at any time), timestamps
  (the socket runtime never enables them), and the control law of the congestion
  window.

`PROJECT.json` lists every part with its status and the reason.
