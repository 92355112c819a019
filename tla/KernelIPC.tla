----------------------------- MODULE KernelIPC -----------------------------
(***************************************************************************)
(* Inter-process communication in miniOS: pipes (pipe.c), the descriptor   *)
(* tables that refer to them (syscall.c), counting semaphores (sem.c) and  *)
(* the shell's two-stage pipeline (kernel.c), on top of the scheduler      *)
(* (task.c) and of process exit and kill (process.c).                      *)
(*                                                                         *)
(* A system call enters through an interrupt gate, so it runs with         *)
(* interrupts disabled until it blocks or returns: each action below is    *)
(* one such stretch of the current task.  A task that is switched to in    *)
(* the middle of a call (op # NoOp) goes on with that call before a timer  *)
(* interrupt can be taken.                                                 *)
(*                                                                         *)
(* One pipe and one semaphore stand for all: they do not interact.  What   *)
(* the programs do is the workload: "pipe" and "kill" (processes and       *)
(* threads share a pipe), "sem" (they share a semaphore), "shell" (the     *)
(* stages of a pipeline).  Processes are killed in all but "pipe".         *)
(***************************************************************************)
EXTENDS Tasks, FiniteSets, FiniteSetsExt

CONSTANTS
    UserTasks,     \* task structures the allocator can hand out
    Procs,         \* slots of the process table
    Idle, Shell,   \* the idle task and the main kernel task
    NoProc,        \* task->process of a task that is not a process's
    PipeSize,      \* PIPE_BUF_SIZE
    Byte,          \* byte values
    Writes,        \* per workload, what programs write in one call
    Reads,         \* how much programs read in one call
    NumFds,        \* MAX_OPEN_FILES
    MaxEnds,       \* bound on the descriptors and streams that hold an end
    MaxTasks,      \* per workload, bound on the user tasks that exist at once
    SemMax,        \* INT32_MAX
    Workloads      \* the workloads considered

ASSUME KernelAssumption ==
    /\ PipeSize \in Nat \ {0} /\ NumFds \in Nat \ {0} /\ SemMax \in Nat \ {0}
    /\ MaxEnds \in Nat
    /\ Idle # Shell /\ {Idle, Shell} \cap UserTasks = {}
    /\ NoProc \notin Procs
    /\ Workloads \subseteq {"pipe", "kill", "sem", "shell"}
    /\ \A w \in Workloads : MaxTasks[w] \in Nat /\ \A d \in Writes[w] : Len(d) > 0
    /\ \A n \in Reads : n \in Nat \ {0}

VARIABLES
    load,      \* the workload
    sched,     \* the scheduler (module Tasks)
    proc,      \* the process of each user task
    op,        \* the call each task is in the middle of
    pipe,      \* the pipe: ring buffer and reference counts
    files,     \* per process: stdin_pipe, stdout_pipe and descriptor table
    zombie,    \* the pipeline's stages in state PROCESS_ZOMBIE
    sem,       \* the semaphore; eaten (history): a woken waiter was killed
    shell,     \* where the shell is in shell_run_pipeline; lost (history):
               \* the ends it gave to a stage that had already exited
    ret        \* the bytes the last step returned to a reader

vars == <<load, sched, proc, op, pipe, files, zombie, sem, shell, ret>>

NoOp == [call |-> "none"]
NoPipe == [live |-> FALSE, buf |-> [i \in 0..(PipeSize - 1) |-> 0],
           read_pos |-> 0, write_pos |-> 0, count |-> 0,
           readers |-> 0, writers |-> 0]
NewPipe == [NoPipe EXCEPT !.live = TRUE, !.readers = 1, !.writers = 1]
NoFiles == [in |-> FALSE, out |-> FALSE, fd |-> [i \in 1..NumFds |-> "none"]]

TasksOf(p) == {t \in LiveTasks(sched) \cap UserTasks : proc[t] = p}
Running(p) == TasksOf(p) # {}
FreeTasks ==
    {t \in UserTasks \ LiveTasks(sched) :
        Cardinality(UserTasks \cap LiveTasks(sched)) < MaxTasks[load]}
FreeProcs == {p \in Procs : ~Running(p) /\ p \notin zombie}

\* The current task is in user mode, or in the idle or shell loop: interrupts
\* are enabled, and it may make a system call if it is a user task.
Interruptible == op[sched.cur] = NoOp
UserMode == Interruptible /\ sched.cur \in UserTasks
Me == sched.cur
MyProc == proc[Me]
MyFiles == files[MyProc]

(***************************************************************************)
(* pipe.c.  A pair io == [s, p] is the scheduler and the pipe while a call *)
(* works on both.  Readers wait on "data" (&p->count), writers on "space"  *)
(* (&p->read_pos).                                                         *)
(***************************************************************************)
IO == [s |-> sched, p |-> pipe]

FreeIfDone(io) ==
    IF io.p.readers = 0 /\ io.p.writers = 0 THEN [io EXCEPT !.p = NoPipe] ELSE io

CloseRead(io) ==
    LET p == [io.p EXCEPT !.readers = IF @ > 0 THEN @ - 1 ELSE 0]
        s == IF p.readers = 0 THEN WakeAll(io.s, "space") ELSE io.s
    IN  FreeIfDone([s |-> s, p |-> p])

\* A mistaken pipe_close_write that does not wake the readers.
CloseWriteSilent(io) ==
    FreeIfDone([io EXCEPT !.p.writers = IF @ > 0 THEN @ - 1 ELSE 0])

CloseWrite(io) ==
    LET p == [io.p EXCEPT !.writers = IF @ > 0 THEN @ - 1 ELSE 0]
        s == IF p.writers = 0 THEN WakeAll(io.s, "data") ELSE io.s
    IN  FreeIfDone([s |-> s, p |-> p])

RefRead(io) == [io EXCEPT !.p.readers = @ + 1]
RefWrite(io) == [io EXCEPT !.p.writers = @ + 1]

CloseEnd(io, end) ==
    IF end = "r" THEN CloseRead(io) ELSE IF end = "w" THEN CloseWrite(io) ELSE io
RefEnd(io, end) ==
    IF end = "r" THEN RefRead(io) ELSE IF end = "w" THEN RefWrite(io) ELSE io

\* The bytes in the pipe, oldest first.
Contents(p) == [i \in 1..p.count |-> p.buf[(p.read_pos + i - 1) % PipeSize]]

\* Mistaken copy loops of pipe_read: read_pos does not wrap, or does not move.
TakeBytesNoWrap(p, n) == [p EXCEPT !.read_pos = @ + n, !.count = @ - n]
TakeBytesStill(p, n) == [p EXCEPT !.count = @ - n]

\* pipe_read's copy loop: n bytes leave the buffer.
TakeBytes(p, n) ==
    [p EXCEPT !.read_pos = (@ + n) % PipeSize, !.count = @ - n]

\* pipe_write's copy loop: the bytes of d enter the buffer.
PutBytes(p, d) ==
    LET offset(i) == (i + PipeSize - p.write_pos) % PipeSize
    IN  [p EXCEPT !.buf = [i \in DOMAIN @ |->
                              IF offset(i) < Len(d) THEN d[offset(i) + 1] ELSE @[i]],
                  !.write_pos = (@ + Len(d)) % PipeSize,
                  !.count = @ + Len(d)]

(***************************************************************************)
(* Task exit.  process_task_exit and thread_on_exit tear the process down  *)
(* when its last task goes: process_finish_exit closes the pipe ends of    *)
(* its standard streams and syscall_close_user_files its descriptors.      *)
(***************************************************************************)
Ends(f) ==
    <<IF f.out THEN "w" ELSE "none", IF f.in THEN "r" ELSE "none">> \o f.fd

FinishExit(io, p) == FoldLeft(CloseEnd, io, Ends(files[p]))

\* The files of the current task's process after an exit that was its last, or
\* was not.
FilesAfter(last) == IF last THEN [files EXCEPT ![MyProc] = NoFiles] ELSE files

\* task_exit of the current task; io is what its call has done so far.  A stage
\* of the shell's pipeline stays a zombie until the shell has waited for it;
\* other processes are taken to be reaped at once (KernelProcess is about
\* zombies).
Exit(io) ==
    LET last == TasksOf(MyProc) = {Me}
        gone == [io EXCEPT !.s = ExitCurrent(@)]
        done == IF last THEN FinishExit(gone, MyProc) ELSE gone
    IN  /\ pipe' = done.p
        /\ sched' = IF last THEN WakeAll(done.s, MyProc) ELSE done.s
        /\ files' = FilesAfter(last)
        /\ zombie' = IF last /\ load = "shell" THEN zombie \cup {MyProc} ELSE zombie
        /\ proc' = [proc EXCEPT ![Me] = NoProc]
        /\ op' = [op EXCEPT ![Me] = NoOp]

\* The call's task goes on in user mode with io and the bytes r returned to it,
\* or waits on chan in the middle of the call c.
Return(io, r) ==
    /\ sched' = io.s /\ pipe' = io.p /\ ret' = r
    /\ op' = [op EXCEPT ![Me] = NoOp]
    /\ UNCHANGED <<proc, files, zombie>>
Wait(io, chan, c) ==
    /\ sched' = BlockCurrent(io.s, chan) /\ pipe' = io.p /\ ret' = <<>>
    /\ op' = [op EXCEPT ![Me] = c]
    /\ UNCHANGED <<proc, files, zombie>>

\* The look at the mark before a block (pipe_block_killable and
\* task_block_killable).
DiesInsteadOfBlock(s) == KillPending(s)

(***************************************************************************)
(* pipe_read and pipe_write from their wait loop on.  A task that is       *)
(* marked for termination does not wait: pipe_block_killable gives back    *)
(* the reference of the call and exits.                                    *)
(***************************************************************************)
ReadLoop(io, n) ==
    IF io.p.count = 0 /\ io.p.writers > 0
    THEN IF DiesInsteadOfBlock(io.s)
         THEN Exit(CloseRead(io)) /\ ret' = <<>>
         ELSE Wait(io, "data", [call |-> "read", n |-> n])
    ELSE LET got == Min({n, io.p.count})
             taken == [io EXCEPT !.p = TakeBytes(@, got)]
             told == IF got > 0 THEN [taken EXCEPT !.s = WakeAll(@, "space")] ELSE taken
         IN  Return(CloseRead(told), SubSeq(Contents(io.p), 1, got))

WriteLoop(io, d) ==
    LET put == IF io.p.readers = 0 THEN 0 ELSE Min({Len(d), PipeSize - io.p.count})
        filled == [io EXCEPT !.p = PutBytes(@, SubSeq(d, 1, put))]
        rest == SubSeq(d, put + 1, Len(d))
        told == IF io.p.readers = 0 THEN io ELSE [filled EXCEPT !.s = WakeAll(@, "data")]
    IN  IF io.p.readers = 0 \/ rest = <<>>
        THEN Return(CloseWrite(told), <<>>)
        ELSE IF DiesInsteadOfBlock(told.s)
             THEN Exit(CloseWrite(told)) /\ ret' = <<>>
             ELSE Wait(told, "space", [call |-> "write", rest |-> rest])

\* sys_read / sys_read_file and sys_write / sys_write_file on a pipe end.
PipeRead ==
    /\ UserMode
    /\ MyFiles.in \/ \E i \in 1..NumFds : MyFiles.fd[i] = "r"
    /\ \E n \in Reads : ReadLoop(RefRead(IO), n)
    /\ UNCHANGED <<load, sem, shell>>

PipeWrite ==
    /\ UserMode
    /\ MyFiles.out \/ \E i \in 1..NumFds : MyFiles.fd[i] = "w"
    /\ \E d \in Writes[load] : WriteLoop(RefWrite(IO), d)
    /\ UNCHANGED <<load, sem, shell>>

\* A mistaken exit from the block that keeps the reference of the call.
ResumeReadLeaks ==
    /\ op[Me].call = "read"
    /\ IF KillPending(sched) THEN Exit(IO) /\ ret' = <<>>
       ELSE ReadLoop(IO, op[Me].n)
    /\ UNCHANGED <<load, sem, shell>>

\* A reader or writer runs again after its block.
ResumeRead ==
    /\ op[Me].call = "read"
    /\ IF KillPending(sched) THEN Exit(CloseRead(IO)) /\ ret' = <<>>
       ELSE ReadLoop(IO, op[Me].n)
    /\ UNCHANGED <<load, sem, shell>>

ResumeWrite ==
    /\ op[Me].call = "write"
    /\ IF KillPending(sched) THEN Exit(CloseWrite(IO)) /\ ret' = <<>>
       ELSE WriteLoop(IO, op[Me].rest)
    /\ UNCHANGED <<load, sem, shell>>

\* How many descriptors and standard streams of processes that have not exited
\* hold an end of the pipe.
EndsHeld(end) ==
    Cardinality({pi \in (Procs \ zombie) \X (1..NumFds) : files[pi[1]].fd[pi[2]] = end})
    + Cardinality({p \in Procs \ zombie : IF end = "r" THEN files[p].in ELSE files[p].out})

\* The number of ends stays within the bound of the model.
RoomFor(n) == EndsHeld("r") + EndsHeld("w") + n <= MaxEnds

(***************************************************************************)
(* Descriptors (syscall.c).                                                *)
(***************************************************************************)
FreeFd(f) == {i \in 1..NumFds : f.fd[i] = "none"}

\* sys_pipe: both ends in the lowest free slots.  With fewer than two free
\* slots it releases what it has made and fails.
SysPipe ==
    /\ UserMode /\ load \in {"pipe", "kill"} /\ ~pipe.live
    /\ Cardinality(FreeFd(MyFiles)) >= 2
    /\ LET r == Min(FreeFd(MyFiles))
           w == Min(FreeFd(MyFiles) \ {r})
       IN  files' = [files EXCEPT ![MyProc].fd[r] = "r", ![MyProc].fd[w] = "w"]
    /\ pipe' = NewPipe /\ ret' = <<>>
    /\ UNCHANGED <<load, sched, proc, op, zombie, sem, shell>>

SysClose(i) ==
    /\ UserMode /\ MyFiles.fd[i] # "none"
    /\ LET io == CloseEnd(IO, MyFiles.fd[i]) IN sched' = io.s /\ pipe' = io.p
    /\ files' = [files EXCEPT ![MyProc].fd[i] = "none"]
    /\ ret' = <<>>
    /\ UNCHANGED <<load, proc, op, zombie, sem, shell>>

\* sys_dup, and sys_dup2 onto another slot: what the slot held is closed first.
SysDup(i, j) ==
    /\ UserMode /\ i # j /\ MyFiles.fd[i] # "none" /\ RoomFor(1)
    /\ LET io == RefEnd(CloseEnd(IO, MyFiles.fd[j]), MyFiles.fd[i])
       IN  sched' = io.s /\ pipe' = io.p
    /\ files' = [files EXCEPT ![MyProc].fd[j] = MyFiles.fd[i]]
    /\ ret' = <<>>
    /\ UNCHANGED <<load, proc, op, zombie, sem, shell>>

\* sys_dup2 onto stdout (a write end) or stdin (a read end).
SysDupStd(i) ==
    /\ UserMode /\ MyFiles.fd[i] # "none" /\ RoomFor(1)
    /\ LET end == MyFiles.fd[i]
           old == IF end = "w" THEN MyFiles.out ELSE MyFiles.in
           io == RefEnd(IF old THEN CloseEnd(IO, end) ELSE IO, end)
       IN  /\ sched' = io.s /\ pipe' = io.p
           /\ files' = IF end = "w" THEN [files EXCEPT ![MyProc].out = TRUE]
                                    ELSE [files EXCEPT ![MyProc].in = TRUE]
    /\ ret' = <<>>
    /\ UNCHANGED <<load, proc, op, zombie, sem, shell>>

(***************************************************************************)
(* Processes and threads, as far as they carry pipe ends and tasks.        *)
(***************************************************************************)

\* process_fork: the child's standard streams and descriptors refer to what
\* the parent's do, each with a reference of its own, before it can run.
SysFork ==
    /\ UserMode /\ load # "shell"
    /\ RoomFor(Len(SelectSeq(Ends(MyFiles), LAMBDA e : e # "none")))
    /\ \E p \in FreeProcs, t \in FreeTasks :
          /\ files' = [files EXCEPT ![p] = MyFiles]
          /\ pipe' = FoldLeft(RefEnd, IO, Ends(MyFiles)).p
          /\ proc' = [proc EXCEPT ![t] = p]
          /\ sched' = CreateTask(sched, t)
    /\ ret' = <<>>
    /\ UNCHANGED <<load, op, zombie, sem, shell>>

\* process_thread_create: one more task that shares the process's descriptors.
SysThreadCreate ==
    /\ UserMode /\ load # "shell"
    /\ \E t \in FreeTasks :
          /\ proc' = [proc EXCEPT ![t] = MyProc]
          /\ sched' = CreateTask(sched, t)
    /\ ret' = <<>>
    /\ UNCHANGED <<load, op, pipe, files, zombie, sem, shell>>

SysExit ==
    /\ UserMode
    /\ Exit(IO)
    /\ ret' = <<>>
    /\ UNCHANGED <<load, sem, shell>>

\* SYS_KILL with SIGKILL, or Ctrl+C in the keyboard interrupt: every task of a
\* running process is marked and woken.
Kill(p) ==
    /\ Interruptible /\ load # "pipe"
    /\ Running(p)
    /\ sched' = KillBlocked(sched, TasksOf(p))
    /\ ret' = <<>>
    /\ UNCHANGED <<load, proc, op, pipe, files, zombie, sem, shell>>

\* A mistaken timer_callback without process_check_kill.
TickUnchecked ==
    /\ Interruptible
    /\ sched' = Schedule(sched)
    /\ ret' = <<>>
    /\ UNCHANGED <<load, proc, op, pipe, files, zombie, sem, shell>>

\* timer_callback: a marked task dies where it is interrupted, otherwise the
\* next task runs.
Tick ==
    /\ Interruptible
    /\ IF KillPending(sched)
       THEN Exit(IO)
       ELSE /\ sched' = Schedule(sched)
            /\ UNCHANGED <<proc, op, pipe, files, zombie>>
    /\ ret' = <<>>
    /\ UNCHANGED <<load, sem, shell>>

\* SYS_YIELD.
SysYield ==
    /\ UserMode
    /\ sched' = Schedule(sched)
    /\ ret' = <<>>
    /\ UNCHANGED <<load, proc, op, pipe, files, zombie, sem, shell>>

(***************************************************************************)
(* sem.c.  Waiters sleep on "sem" (the address of the semaphore).          *)
(***************************************************************************)
SemInit ==
    /\ UserMode /\ load = "sem"
    /\ \E v \in 0..SemMax : sem' = [value |-> v, used |-> TRUE, eaten |-> FALSE]
    /\ sched' = WakeAll(sched, "sem")
    /\ ret' = <<>>
    /\ UNCHANGED <<load, proc, op, pipe, files, zombie, shell>>

\* A mistaken sem_post that wakes a waiter only when the count was zero.
SemPostFromZero ==
    /\ UserMode /\ load = "sem"
    /\ sem.used /\ sem.value # SemMax
    /\ sem' = [sem EXCEPT !.value = @ + 1]
    /\ sched' = IF sem.value = 0 THEN WakeOne(sched, "sem") ELSE sched
    /\ ret' = <<>>
    /\ UNCHANGED <<load, proc, op, pipe, files, zombie, shell>>

SemPost ==
    /\ UserMode /\ load = "sem"
    /\ sem.used /\ sem.value # SemMax
    /\ sem' = [sem EXCEPT !.value = @ + 1]
    /\ sched' = WakeOne(sched, "sem")
    /\ ret' = <<>>
    /\ UNCHANGED <<load, proc, op, pipe, files, zombie, shell>>

\* sem_wait's loop, with task_block_killable in it.
SemLoop ==
    IF sem.value <= 0
    THEN /\ IF DiesInsteadOfBlock(sched)
            THEN Exit(IO) /\ ret' = <<>>
            ELSE Wait(IO, "sem", [call |-> "sem"])
         /\ UNCHANGED sem
    ELSE /\ sem' = [sem EXCEPT !.value = @ - 1]
         /\ Return(IO, <<>>)

SemWait ==
    /\ UserMode /\ load = "sem"
    /\ sem.used
    /\ SemLoop
    /\ UNCHANGED <<load, shell>>

ResumeSem ==
    /\ op[Me].call = "sem"
    /\ IF KillPending(sched)
       THEN Exit(IO) /\ ret' = <<>> /\ sem' = [sem EXCEPT !.eaten = @ \/ sem.value > 0]
       ELSE SemLoop
    /\ UNCHANGED <<load, shell>>

(***************************************************************************)
(* shell_run_pipeline for "stage1 | stage2" (kernel.c).  The shell is a    *)
(* kernel task that runs with interrupts enabled, so a timer tick may come *)
(* between any two of these steps.  pids are the stages spawned and not    *)
(* yet waited for; while at = "wire" the last of them has no pipe end yet. *)
(***************************************************************************)
AtPrompt == [at |-> "prompt", pids |-> <<>>, lost |-> {}]
ShellRuns == Me = Shell /\ op[Shell] = NoOp /\ load = "shell"

ShellCreatesPipe ==
    /\ ShellRuns /\ shell.at = "prompt" /\ ~pipe.live
    /\ pipe' = NewPipe
    /\ shell' = [shell EXCEPT !.at = "spawn"]
    /\ ret' = <<>>
    /\ UNCHANGED <<load, sched, proc, op, files, zombie, sem>>

\* elf_spawn_argv: the stage is a ready task before it has its pipe end.
ShellSpawns ==
    /\ ShellRuns /\ shell.at = "spawn"
    /\ \E p \in FreeProcs, t \in FreeTasks :
          /\ shell' = [shell EXCEPT !.at = "wire", !.pids = Append(@, p)]
          /\ proc' = [proc EXCEPT ![t] = p]
          /\ sched' = CreateTask(sched, t)
    /\ ret' = <<>>
    /\ UNCHANGED <<load, op, pipe, files, zombie, sem>>

\* process_pipe: the end passes from the shell to the process in the slot,
\* whether it still runs or is already a zombie.
ShellWires ==
    /\ ShellRuns /\ shell.at = "wire"
    /\ LET p == Last(shell.pids)
           first == Len(shell.pids) = 1
       IN  /\ files' = IF first THEN [files EXCEPT ![p].out = TRUE]
                                ELSE [files EXCEPT ![p].in = TRUE]
           /\ shell' = [shell EXCEPT !.at = IF first THEN "spawn" ELSE "wait",
                                     !.lost = IF p \notin zombie THEN @
                                              ELSE @ \cup {IF first THEN "w" ELSE "r"}]
    /\ ret' = <<>>
    /\ UNCHANGED <<load, sched, proc, op, pipe, zombie, sem>>

\* elf_spawn_argv fails: the shell closes the ends that no stage owns.
ShellSpawnFails ==
    /\ ShellRuns /\ shell.at = "spawn"
    /\ LET r == CloseRead(IO)
           io == IF shell.pids = <<>> THEN CloseWrite(r) ELSE r
       IN  sched' = io.s /\ pipe' = io.p
    /\ shell' = [shell EXCEPT !.at = "wait"]
    /\ ret' = <<>>
    /\ UNCHANGED <<load, proc, op, files, zombie, sem>>

\* process_wait for each stage in turn; the zombie's slot is released.
ShellWaits ==
    /\ Me = Shell /\ shell.at = "wait"
    /\ IF shell.pids = <<>>
       THEN shell' = [shell EXCEPT !.at = "prompt"] /\ UNCHANGED <<sched, op, files, zombie>>
       ELSE LET p == Head(shell.pids)
            IN  IF p \in zombie
                THEN /\ zombie' = zombie \ {p}
                     /\ files' = [files EXCEPT ![p] = NoFiles]
                     /\ shell' = [shell EXCEPT !.pids = Tail(@)]
                     /\ op' = [op EXCEPT ![Shell] = NoOp]
                     /\ UNCHANGED sched
                ELSE /\ sched' = BlockCurrent(sched, p)
                     /\ op' = [op EXCEPT ![Shell] = [call |-> "wait"]]
                     /\ UNCHANGED <<shell, files, zombie>>
    /\ ret' = <<>>
    /\ UNCHANGED <<load, proc, pipe, sem>>

(***************************************************************************)
(* The specification.                                                      *)
(***************************************************************************)
Init ==
    /\ load \in Workloads
    /\ IF load = "shell"
       THEN /\ sched = InitialTasks(Shell, Idle)
            /\ proc = [t \in UserTasks |-> NoProc]
       ELSE \E t \in UserTasks, p \in Procs :
            \* a background job runs while the shell waits for a key
            /\ sched = [InitialTasks(t, Idle) EXCEPT
                           !.blocked = <<[task |-> Shell, chan |-> "keyboard"]>>]
            /\ proc = [u \in UserTasks |-> IF u = t THEN p ELSE NoProc]
    /\ op = [t \in UserTasks \cup {Idle, Shell} |-> NoOp]
    /\ pipe = NoPipe
    /\ files = [p \in Procs |-> NoFiles]
    /\ zombie = {}
    /\ sem = [value |-> 0, used |-> FALSE, eaten |-> FALSE]
    /\ shell = AtPrompt
    /\ ret = <<>>

Next ==
    \/ PipeRead \/ PipeWrite \/ ResumeRead \/ ResumeWrite
    \/ SysPipe \/ SysFork \/ SysThreadCreate \/ SysExit \/ SysYield
    \/ \E i \in 1..NumFds : SysClose(i) \/ SysDupStd(i)
    \/ \E i, j \in 1..NumFds : SysDup(i, j)
    \/ \E p \in Procs : Kill(p)
    \/ Tick
    \/ SemInit \/ SemPost \/ SemWait \/ ResumeSem
    \/ ShellCreatesPipe \/ ShellSpawns \/ ShellWires \/ ShellSpawnFails
    \/ ShellWaits

Spec == Init /\ [][Next]_vars

\* A call that is running goes on.  The timer interrupt is periodic and is held
\* by the interrupt controller while interrupts are disabled; it is not
\* synchronised with the programs, so a task that is in user mode again and
\* again is interrupted there in the end.
Fairness ==
    /\ WF_vars(ResumeRead) /\ WF_vars(ResumeWrite) /\ WF_vars(ResumeSem)
    /\ WF_vars(ShellWaits)
    /\ \A t \in UserTasks \cup {Idle, Shell} : SF_vars(sched.cur = t /\ Tick)

FairSpec == Spec /\ Fairness

(***************************************************************************)
(* Properties.                                                             *)
(***************************************************************************)
TypeOK ==
    /\ load \in Workloads
    /\ sched.cur \in UserTasks \cup {Idle, Shell}
    /\ LiveTasks(sched) \subseteq UserTasks \cup {Idle, Shell}
    /\ proc \in [UserTasks -> Procs \cup {NoProc}]
    /\ pipe \in [live : BOOLEAN, buf : [0..(PipeSize - 1) -> Byte \cup {0}],
                 read_pos : 0..(PipeSize - 1), write_pos : 0..(PipeSize - 1),
                 count : 0..PipeSize, readers : Nat, writers : Nat]
    /\ files \in [Procs -> [in : BOOLEAN, out : BOOLEAN,
                            fd : [1..NumFds -> {"none", "r", "w"}]]]
    /\ zombie \subseteq Procs
    /\ sem \in [value : 0..SemMax, used : BOOLEAN, eaten : BOOLEAN]

\* The ready list and the blocked list share no task and hold none twice, the
\* current task is ready, the idle task can always run, and only tasks that
\* exist are marked: what task.c's list surgery must preserve however wakes,
\* kills, blocks and exits follow each other.
ListsSound ==
    LET all == sched.ring \o [i \in DOMAIN sched.blocked |-> sched.blocked[i].task]
    IN  /\ Cardinality(ToSet(all)) = Len(all)
        /\ {sched.cur, Idle} \subseteq ReadyTasks(sched)
        /\ sched.killed \subseteq LiveTasks(sched)
        /\ \A t \in UserTasks : (proc[t] # NoProc) = (t \in LiveTasks(sched))

\* The holders of an end: descriptors and streams of processes, calls in flight
\* and, until it has wired the stages, the shell.  An end that the shell gave
\* to a stage that had already exited is held by nobody and never closed.
ShellHolds(end) ==
    IF /\ shell.at \in {"spawn", "wire"}
       /\ Len(shell.pids) <= (IF shell.at = "wire" THEN 1 ELSE 0)
                              + (IF end = "r" THEN 1 ELSE 0)
    THEN 1 ELSE 0
Held(end) ==
    EndsHeld(end) + ShellHolds(end) + (IF end \in shell.lost THEN 1 ELSE 0)
    + Cardinality({t \in UserTasks :
                     op[t].call = IF end = "r" THEN "read" ELSE "write"})

\* The pipe's reference counts are exact across dup, dup2, fork, close, exit of
\* the last thread, and the kill of a task in the middle of a read or write.
\* So the pipe is freed when the last holder goes: not before (a call in
\* flight would use freed memory) and not never (a reader would miss EOF),
\* the ends lost to an early exit excepted.  The shell at its prompt holds no
\* end, so every pipeline's pipe is reclaimed (process.c:133, "Close pipeline
\* endpoints so the peer process sees EOF / broken pipe").
RefsExact == pipe.readers = Held("r") /\ pipe.writers = Held("w")

\* Nobody sleeps through its event: a reader is blocked only while the pipe is
\* empty and has writers, a writer only while it is full and has readers
\* (pipe.h: reads block "while the buffer is empty and at least one writer
\* remains", writes "while the buffer is full and at least one reader remains").
NoMissedPipeEvent ==
    /\ WaitersOn(sched, "data") # {} => pipe.count = 0 /\ pipe.writers > 0
    /\ WaitersOn(sched, "space") # {} => pipe.count = PipeSize /\ pipe.readers > 0

\* The pipe is a first-in-first-out byte channel.
Channel == INSTANCE ByteChannel
              WITH Capacity <- PipeSize, open <- pipe.live, queue <- Contents(pipe)
ImplementsByteChannel == Channel!Spec

\* A task waits on the semaphore only while the count is not positive, unless
\* a task that has already been woken is about to take it, or was killed before
\* it could (sem.h: "P: block until the count is positive, then decrement").
SemNeverStrands ==
    WaitersOn(sched, "sem") # {} /\ sem.value > 0
        => (\E t \in ReadyTasks(sched) : op[t].call = "sem") \/ sem.eaten

\* No ready task starves, although add_ready_task puts a woken task in front of
\* those that already wait for their turn: two tasks that wake each other and
\* block in turn never give way by themselves, the timer makes them.  (A kill
\* turns the timer's switch into an exit, so the claim is for workloads without
\* an endless supply of kills.)
EveryReadyTaskRuns ==
    \A t \in UserTasks \cup {Idle, Shell} :
        load = "pipe" /\ t \in ReadyTasks(sched) ~> sched.cur = t

\* A marked task ends, wherever the kill found it: in user mode, ready, or in
\* the middle of a blocking call (user/killthread.c, "Both tasks must die";
\* PROJECT_STATE.md:75: a task marked kill_pending never waits again).
KilledTaskDies ==
    \A t \in UserTasks : t \in sched.killed ~> t \notin LiveTasks(sched)
=============================================================================
