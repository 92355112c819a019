--------------------------- MODULE KernelProcess ---------------------------
(***************************************************************************)
(* Processes, threads and signals of miniOS (process.c, the signal part of *)
(* syscall.c, timer.c) on top of the scheduler (task.c), with the shell    *)
(* that launches programs (kernel.c).                                      *)
(*                                                                         *)
(* As in KernelIPC a system call runs with interrupts disabled until it    *)
(* blocks or returns.  On every way back to user mode signal_deliver runs: *)
(* a task whose op is "deliver" is on that way.  The shell runs with       *)
(* interrupts enabled.  Time is abstract: at a tick any sleep and any      *)
(* alarm may have reached its deadline.                                    *)
(***************************************************************************)
EXTENDS Tasks, Integers, FiniteSets, FiniteSetsExt

CONSTANTS
    UserTasks,     \* task structures the allocator can hand out
    Idle, Shell,   \* the idle task and the main kernel task
    NoTask,        \* a NULL task pointer
    NumSlots,      \* MAX_PROCESSES
    PidMax,        \* INT32_MAX
    NumSleeps,     \* MAX_SLEEPING_TASKS
    MaxTasks,      \* per workload, bound on the user tasks that exist at once
    Workloads,     \* the workloads considered
    Overlap        \* whether the shell launches while other programs run

ASSUME ProcessAssumption ==
    /\ NumSlots \in Nat \ {0} /\ PidMax \in Nat /\ PidMax > NumSlots
    /\ NumSleeps \in Nat
    /\ Cardinality({Idle, Shell, NoTask}) = 3
    /\ {Idle, Shell, NoTask} \cap UserTasks = {}
    /\ Workloads \subseteq {"family", "signal", "shell"}

VARIABLES
    load,      \* the workload
    sched,     \* the scheduler (module Tasks)
    owner,     \* task->process of a user task: the slot, the pid it had when
               \* the task was created, whether the address space the task
               \* runs in still exists, and whether its on_exit is that of a
               \* main task
    op,        \* the call each task is in the middle of
    table,     \* processes[]
    next_pid,
    sleep,     \* sleeping_tasks[]
    shell,     \* what the shell is doing
    ret        \* what the last step returned from a wait

vars == <<load, sched, owner, op, table, next_pid, sleep, shell, ret>>

Slots == 0..(NumSlots - 1)
SIGALRM == 14
SIGTERM == 15
SIGCHLD == 17
SIGCONT == 18
SIGSTOP == 19
Signals == {SIGALRM, SIGTERM, SIGCHLD, SIGCONT, SIGSTOP}

\* A process record.  A handler is 0 (default), 1 (ignore) or 2 (an address in
\* the program).  The last two are history: the last signal found no task to wake,
\* and the launch stored a task that had ended.
Unused == [state |-> "unused", pid |-> 0, parent |-> 0,
           auto_reap |-> FALSE, task |-> NoTask, threads |-> 0,
           main_exited |-> FALSE, pending |-> {}, handler |-> [g \in Signals |-> 0],
           in_signal |-> FALSE, stopped |-> FALSE, alarm |-> FALSE,
           space |-> FALSE, unheard |-> FALSE, stale |-> FALSE]
NoOwner == [slot |-> -1, pid |-> 0, space |-> FALSE, main |-> FALSE]
MainOf(p, pid) == [slot |-> p, pid |-> pid, space |-> TRUE, main |-> TRUE]
NoOp == [call |-> "none"]
Deliver == [call |-> "deliver"]
NoRet == [asked |-> 0, got |-> 0, parent |-> 0, me |-> 0]
AtPrompt == [at |-> "prompt"]

FreeTasks ==
    {t \in UserTasks \ LiveTasks(sched) :
        Cardinality(UserTasks \cap LiveTasks(sched)) < MaxTasks[load]}

Me == sched.cur
Mine == owner[Me].slot
MyPid == IF Me \in UserTasks THEN table[Mine].pid ELSE 0
Interruptible == op[Me] = NoOp
UserMode == Interruptible /\ Me \in UserTasks

\* The tasks of the process in slot p.
TasksIn(p) == {t \in UserTasks \cap LiveTasks(sched) : owner[t].slot = p}

(***************************************************************************)
(* The process table.  k == [s, tab] is the scheduler and the table while  *)
(* a call works on both.                                                   *)
(***************************************************************************)
K == [s |-> sched, tab |-> table]

Used(tab) == {p \in Slots : tab[p].state # "unused"}

\* process_find; -1 stands for NULL.
Find(tab, pid) ==
    LET hits == {p \in Used(tab) : tab[p].pid = pid}
    IN  IF hits = {} THEN -1 ELSE Min(hits)

\* Mistaken versions of process_allocate_pid: the counter does not wrap, or the
\* number is handed out unchecked.
AllocatePidNoWrap(tab, from) == [pid |-> from, next |-> from + 1]
AllocatePidUnchecked(tab, from) ==
    [pid |-> from, next |-> IF from = PidMax THEN 1 ELSE from + 1]

\* process_allocate_pid: the first number from next_pid on, in a circle, that
\* no used record has, and the number after it.
AllocatePid(tab, from) ==
    LET after(n) == ((from + n - 1) % PidMax) + 1
        tries == {n \in 0..(NumSlots - 1) : Find(tab, after(n)) = -1}
    IN  IF tries = {} THEN [pid |-> -1, next |-> after(NumSlots)]
        ELSE [pid |-> after(Min(tries)), next |-> after(Min(tries) + 1)]

\* process_release.
Release(k, p) == [k EXCEPT !.tab[p] = Unused]

\* process_send_signal to the process in slot p: the main task is woken
\* whatever it waits for.
SignalSlot(k, p, sig) ==
    LET j == [k EXCEPT !.tab[p].pending = @ \cup {sig},
                       !.tab[p].unheard = k.tab[p].task = NoTask]
    IN  [j EXCEPT !.s = WakeTask(@, k.tab[p].task)]
SendSignal(k, pid, sig) ==
    LET p == Find(k.tab, pid) IN IF p = -1 THEN k ELSE SignalSlot(k, p, sig)

(***************************************************************************)
(* Exit.                                                                   *)
(***************************************************************************)

\* A mistaken process_finish_exit that leaves the children alone.
OrphanedNot(tab, p) == tab

\* The children of the process in slot p when it goes: zombies are released,
\* running ones belong to nobody and release themselves.
Orphaned(tab, p) ==
    [c \in DOMAIN tab |->
        IF tab[c].state = "unused" \/ tab[c].parent # tab[p].pid THEN tab[c]
        ELSE IF tab[c].state = "zombie" THEN Unused
        ELSE [tab[c] EXCEPT !.parent = 0, !.auto_reap = TRUE]]

\* A mistaken version that does not tell the waiting siblings in the parent.
NotifyMainOnly(k, p) ==
    IF k.tab[p].parent > 0 THEN SendSignal(k, k.tab[p].parent, SIGCHLD) ELSE k

\* SIGCHLD for the parent's main task, its waitpid_event for all its threads.
Notify(k, p) ==
    LET parent == k.tab[p].parent
        j == SendSignal(k, parent, SIGCHLD)
        q == Find(k.tab, parent)
    IN  IF parent = 0 THEN k
        ELSE IF q = -1 THEN j
        ELSE [j EXCEPT !.s = WakeAll(@, <<"child", q>>)]

\* process_finish_exit: teardown of a process whose last task is gone.
FinishExit(k, p) ==
    LET dead == [k EXCEPT !.tab = [Orphaned(@, p) EXCEPT
                              ![p].space = FALSE, ![p].task = NoTask,
                              ![p].state = "zombie"]]
        told == Notify(dead, p)
        done == [told EXCEPT !.s = WakeAll(@, <<"proc", p>>)]
    IN  IF done.tab[p].auto_reap THEN Release(done, p) ELSE done

\* A mistaken thread_on_exit: the last thread does not finish what the main
\* task has left to it.
ThreadExitForgets(k, p) ==
    [k EXCEPT !.tab[p].threads = @ - 1, !.s = WakeAll(@, <<"threads", p>>)]

\* process_task_exit: the main task leaves the teardown to the last thread.
MainExit(k, p) ==
    IF k.tab[p].threads > 0
    THEN [k EXCEPT !.tab[p].main_exited = TRUE, !.tab[p].task = NoTask]
    ELSE FinishExit(k, p)

\* thread_on_exit.
ThreadExit(k, p) ==
    LET j == [k EXCEPT !.tab[p].threads = IF @ > 0 THEN @ - 1 ELSE 0,
                       !.s = WakeAll(@, <<"threads", p>>)]
    IN  IF j.tab[p].threads = 0 /\ j.tab[p].main_exited
        THEN FinishExit(j, p)
        ELSE j

\* task_exit of the current task.
Exit(k) ==
    LET gone == [k EXCEPT !.s = ExitCurrent(@)]
        done == IF owner[Me].main THEN MainExit(gone, Mine) ELSE ThreadExit(gone, Mine)
    IN  /\ sched' = done.s /\ table' = done.tab
        /\ owner' = [owner EXCEPT ![Me] = NoOwner]
        /\ op' = [op EXCEPT ![Me] = NoOp]

(***************************************************************************)
(* Ways out of a call: back towards user mode, where signal_deliver has    *)
(* something to do only if a signal is pending and no handler runs; or     *)
(* into a wait (task_block_killable), unless the task is to die.           *)
(***************************************************************************)
Back(tab) ==
    IF Me \in UserTasks /\ tab[Mine].pending # {} /\ ~tab[Mine].in_signal
    THEN Deliver ELSE NoOp

Return(k) ==
    /\ sched' = k.s /\ table' = k.tab
    /\ op' = [op EXCEPT ![Me] = Back(k.tab)]
    /\ UNCHANGED owner

Block(k, chan, c) ==
    IF KillPending(k.s) THEN Exit(k)
    ELSE /\ sched' = BlockCurrent(k.s, chan) /\ table' = k.tab
         /\ op' = [op EXCEPT ![Me] = c]
         /\ UNCHANGED owner

\* The end of task_block_killable: a marked task leaves from inside its wait.
Resumed(call, Loop) ==
    /\ op[Me].call = call
    /\ IF KillPending(sched) THEN Exit(K) /\ ret' = NoRet ELSE Loop

(***************************************************************************)
(* process_wait and process_waitpid.                                       *)
(***************************************************************************)
Reap(k, p, asked) ==
    /\ Return(Release(k, p))
    /\ ret' = [asked |-> asked, got |-> k.tab[p].pid,
               parent |-> k.tab[p].parent, me |-> MyPid]
Fail(k) == Return(k) /\ ret' = NoRet

\* A mistaken check that trusts the slot found before the wait.
IsChildStill(p, pid) == table[p].state # "unused"

IsChild(p, pid) ==
    table[p].state # "unused" /\ table[p].pid = pid /\ table[p].parent = MyPid

WaitLoop(p, pid) ==
    IF table[p].state = "running"
    THEN Block(K, <<"proc", p>>, [call |-> "wait", slot |-> p, pid |-> pid]) /\ ret' = NoRet
    ELSE IF IsChild(p, pid) THEN Reap(K, p, pid) ELSE Fail(K)

\* The slot may have been reaped and reused while the task was blocked.
Recheck(p, pid) == IF IsChild(p, pid) THEN WaitLoop(p, pid) ELSE Fail(K)

WaitStart(pid) ==
    LET p == Find(table, pid)
    IN  IF p = -1 \/ ~IsChild(p, pid) THEN Fail(K) ELSE WaitLoop(p, pid)

\* pid -1 stands for any child.
WaitpidLoop(pid, nohang) ==
    LET mine == {p \in Used(table) : table[p].parent = MyPid
                                      /\ (pid = -1 \/ table[p].pid = pid)}
        zombies == {p \in mine : table[p].state = "zombie"}
    IN  IF zombies # {} THEN Reap(K, Min(zombies), IF pid = -1 THEN table[Min(zombies)].pid ELSE pid)
        ELSE IF mine = {} \/ nohang THEN Fail(K)
        ELSE /\ Block(K, <<"child", Mine>>, [call |-> "waitpid", pid |-> pid])
             /\ ret' = NoRet

(***************************************************************************)
(* System calls.                                                           *)
(***************************************************************************)
Family == UserMode /\ load = "family"
Signalling == UserMode /\ load = "signal"
Rest == <<load, next_pid, sleep, shell>>

\* process_fork: the child inherits the dispositions of signals, none pending.
\* When create_task finds no memory the record is released; the pid stays used up.
SysFork ==
    /\ UserMode /\ load \in {"family", "shell"}
    /\ Used(table) # Slots
    /\ LET p == Min(Slots \ Used(table))
           new == AllocatePid(table, next_pid)
           Child(t) == [Unused EXCEPT !.state = "running", !.pid = new.pid, !.parent = MyPid,
                                      !.task = t, !.space = TRUE, !.handler = table[Mine].handler]
       IN  /\ next_pid' = new.next
           /\ \/ \E t \in FreeTasks :
                    /\ sched' = CreateTask(sched, t)
                    /\ table' = [table EXCEPT ![p] = Child(t)]
                    /\ owner' = [owner EXCEPT ![t] = MainOf(p, new.pid)]
              \/ UNCHANGED <<sched, table, owner>>
    /\ op' = [op EXCEPT ![Me] = Back(table)]
    /\ ret' = NoRet
    /\ UNCHANGED <<load, sleep, shell>>

\* process_thread_create.
SysThreadCreate ==
    /\ UserMode /\ load # "shell"
    /\ \E t \in FreeTasks :
          /\ sched' = CreateTask(sched, t)
          /\ owner' = [owner EXCEPT ![t] = [owner[Me] EXCEPT !.space = TRUE, !.main = FALSE]]
    /\ table' = [table EXCEPT ![Mine].threads = @ + 1]
    /\ op' = [op EXCEPT ![Me] = Back(table)]
    /\ ret' = NoRet
    /\ UNCHANGED Rest

SysExit ==
    /\ UserMode
    /\ Exit(K)
    /\ ret' = NoRet
    /\ UNCHANGED Rest

SysWait ==
    /\ Family
    /\ \E pid \in {table[p].pid : p \in Used(table)} : WaitStart(pid)
    /\ UNCHANGED Rest

SysWaitpid ==
    /\ Family
    /\ \E pid \in {-1} \cup {table[p].pid : p \in Used(table)}, nohang \in BOOLEAN :
          WaitpidLoop(pid, nohang)
    /\ UNCHANGED Rest

ResumeWaitpid == Resumed("waitpid", WaitpidLoop(op[Me].pid, FALSE)) /\ UNCHANGED Rest

\* process_thread_join.
JoinLoop ==
    /\ IF table[Mine].threads > 0
       THEN Block(K, <<"threads", Mine>>, [call |-> "join"])
       ELSE Return(K)
    /\ ret' = NoRet

SysThreadJoin == Family /\ JoinLoop /\ UNCHANGED Rest
ResumeJoin == Resumed("join", JoinLoop) /\ UNCHANGED Rest

\* The task goes on in a new address space and the old one is freed, under
\* whoever else runs in it.
Exec ==
    /\ owner' = [t \in UserTasks |->
                    IF owner[t].slot = Mine /\ t # Me THEN [owner[t] EXCEPT !.space = FALSE]
                    ELSE owner[t]]
    /\ table' = [table EXCEPT ![Mine].pending = {}, ![Mine].in_signal = FALSE,
                             ![Mine].handler = [g \in Signals |-> 0]]
    /\ ret' = NoRet
    /\ UNCHANGED <<sched, op, Rest>>

\* process_exec_reset, which refuses while sibling threads run; and a version
\* that does not.
SysExecAlways == Family /\ Exec
SysExec == Family /\ table[Mine].threads = 0 /\ Exec

\* process_kill, or Ctrl+C on a foreground process without a handler.
Kill(p) ==
    /\ Interruptible
    /\ table[p].state = "running"
    /\ Return([K EXCEPT !.s = KillBlocked(@, TasksIn(p))])
    /\ ret' = NoRet
    /\ UNCHANGED Rest

\* SYS_YIELD.
SysYield ==
    /\ UserMode
    /\ sched' = Schedule(sched)
    /\ op' = [op EXCEPT ![Me] = Deliver]
    /\ ret' = NoRet
    /\ UNCHANGED <<owner, table, Rest>>

ResumeWait ==
    /\ Resumed("wait", Recheck(op[Me].slot, op[Me].pid))
    /\ shell' = IF Me = Shell /\ op'[Me] = NoOp THEN AtPrompt ELSE shell
    /\ UNCHANGED <<load, next_pid, sleep>>

(***************************************************************************)
(* Signals, alarms and sleep.                                              *)
(***************************************************************************)

\* sys_kill with a signal other than SIGKILL.
SysSignalTo(p, sig) ==
    /\ Signalling /\ table[p].state # "unused"
    /\ Return(SignalSlot(K, p, sig))
    /\ ret' = NoRet
    /\ UNCHANGED Rest

\* sys_signal: the disposition of SIGTERM.
SysSignal ==
    /\ Signalling
    /\ \E h \in 0..2 : Return([K EXCEPT !.tab[Mine].handler[SIGTERM] = h])
    /\ ret' = NoRet
    /\ UNCHANGED Rest

\* process_pause.
PauseLoop ==
    /\ IF table[Mine].pending = {} THEN Block(K, <<"proc", Mine>>, [call |-> "pause"])
       ELSE Return(K)
    /\ ret' = NoRet

SysPause == UserMode /\ load # "family" /\ PauseLoop /\ UNCHANGED Rest
ResumePause == Resumed("pause", PauseLoop) /\ UNCHANGED Rest

\* sys_alarm: a new deadline, or none.
SysAlarm ==
    /\ UserMode /\ load = "shell"
    /\ \E on \in BOOLEAN : Return([K EXCEPT !.tab[Mine].alarm = on])
    /\ ret' = NoRet
    /\ UNCHANGED Rest

\* signal_deliver, one signal at a time from the lowest number up.  The frame
\* of a handler may not fit the program's stack, which ends the task.
DeliverSignal ==
    /\ op[Me].call = "deliver"
    /\ LET r == table[Mine]
           sig == Min(r.pending)
           k == [K EXCEPT !.tab[Mine].pending = @ \ {sig}]
       IN  IF r.pending = {} \/ r.in_signal
           THEN op' = [op EXCEPT ![Me] = NoOp] /\ UNCHANGED <<sched, owner, table>>
           ELSE IF sig = SIGSTOP
           THEN Block([k EXCEPT !.tab[Mine].stopped = TRUE], <<"stop", Mine>>, [call |-> "stop"])
           ELSE IF \/ sig = SIGCONT /\ r.handler[sig] <= 1
                   \/ sig = SIGCHLD /\ r.handler[sig] = 0
                   \/ r.handler[sig] = 1
           THEN Return(k)
           ELSE \/ Exit(k)
                \/ /\ r.handler[sig] = 2
                   /\ Return([k EXCEPT !.tab[Mine].in_signal = TRUE])
    /\ ret' = NoRet
    /\ UNCHANGED Rest

\* The SIGSTOP loop of signal_deliver after a wake: only SIGCONT ends it.
StopLoop ==
    /\ IF SIGCONT \in table[Mine].pending \/ ~table[Mine].stopped
       THEN /\ op' = [op EXCEPT ![Me] = NoOp]
            /\ table' = [table EXCEPT ![Mine].pending = @ \ {SIGCONT},
                                     ![Mine].stopped = FALSE]
            /\ UNCHANGED <<sched, owner>>
       ELSE Block(K, <<"stop", Mine>>, [call |-> "stop"])
    /\ ret' = NoRet

ResumeStop == Resumed("stop", StopLoop) /\ UNCHANGED Rest

\* sys_sigreturn, which any program may call, in a handler or not; a frame
\* outside the program's stack ends the task.  Alone among the calls it goes
\* back to user mode without signal_deliver.
SysSigreturn ==
    /\ Signalling
    /\ \/ /\ table' = [table EXCEPT ![Mine].in_signal = FALSE]
          /\ UNCHANGED <<sched, owner, op>>
       \/ Exit(K)
    /\ ret' = NoRet
    /\ UNCHANGED Rest

\* timer_sleep.
SysSleep ==
    /\ Signalling
    /\ LET free == {i \in 1..NumSleeps : sleep[i] = NoTask}
       IN  IF KillPending(sched) THEN Exit(K) /\ UNCHANGED sleep
           ELSE IF free = {} THEN Return(K) /\ UNCHANGED sleep
           ELSE /\ sleep' = [sleep EXCEPT ![Min(free)] = Me]
                /\ Block(K, <<"sleep", Min(free)>>, [call |-> "sleep", i |-> Min(free)])
    /\ ret' = NoRet
    /\ UNCHANGED <<load, next_pid, shell>>

\* The slot that a dying sleeper gives back, if it is still its own.
SleepAfterKill(i) == IF sleep[i] = Me THEN [sleep EXCEPT ![i] = NoTask] ELSE sleep

ResumeSleep ==
    /\ op[Me].call = "sleep"
    /\ IF KillPending(sched) THEN Exit(K) /\ sleep' = SleepAfterKill(op[Me].i)
       ELSE Return(K) /\ UNCHANGED sleep
    /\ ret' = NoRet
    /\ UNCHANGED <<load, next_pid, shell>>

\* timer_callback: sleepers whose deadline has come, then the kill of the
\* current task or the alarms and the next task.  A preempted program goes on
\* through signal_deliver.
Tick ==
    /\ Interruptible
    /\ \E due \in SUBSET {i \in 1..NumSleeps : sleep[i] # NoTask},
          late \in SUBSET {p \in Slots : table[p].state = "running" /\ table[p].alarm} :
          LET woken == FoldLeft(LAMBDA sc, i : WakeAll(sc, <<"sleep", i>>), sched,
                                SetToSortSeq(due, <))
              Ring(k, p) == SignalSlot([k EXCEPT !.tab[p].alarm = FALSE], p, SIGALRM)
              rung == FoldLeft(Ring, [K EXCEPT !.s = woken], SetToSortSeq(late, <))
          IN  /\ sleep' = [i \in 1..NumSleeps |-> IF i \in due THEN NoTask ELSE sleep[i]]
              /\ IF KillPending(sched) THEN late = {} /\ Exit([K EXCEPT !.s = woken])
                 ELSE /\ sched' = Schedule(rung.s) /\ table' = rung.tab
                      /\ op' = IF Me \in UserTasks THEN [op EXCEPT ![Me] = Deliver] ELSE op
                      /\ UNCHANGED owner
    /\ ret' = NoRet
    /\ UNCHANGED <<load, next_pid, shell>>

(***************************************************************************)
(* The shell launches a program (elf_spawn_argv, process_launch) and waits *)
(* for it or detaches it.  It runs with interrupts enabled, so a tick may  *)
(* come between any two of these steps: the shell finds a free slot and    *)
(* reads next_pid, writes next_pid back, clears the record, fills it, has  *)
(* create_task make the main task, and only then stores the task in the    *)
(* record.  The program may have run, or ended, by that time.              *)
(***************************************************************************)
ShellAt(where) ==
    Me = Shell /\ op[Shell] = NoOp /\ load = "shell" /\ shell.at = where

ShellPicks ==
    /\ ShellAt("prompt") /\ Used(table) # Slots
    /\ Overlap \/ UserTasks \cap LiveTasks(sched) = {}
    /\ shell' = [at |-> "pid", slot |-> Min(Slots \ Used(table)), pid |-> next_pid, tries |-> 1]
    /\ ret' = NoRet
    /\ UNCHANGED <<load, sched, owner, op, table, next_pid, sleep>>

ShellTakesPid ==
    /\ ShellAt("pid")
    /\ next_pid' = IF shell.pid = PidMax THEN 1 ELSE shell.pid + 1
    /\ shell' = IF Find(table, shell.pid) = -1
                THEN [at |-> "clear", slot |-> shell.slot, pid |-> shell.pid]
                ELSE IF shell.tries < NumSlots
                THEN [shell EXCEPT !.pid = next_pid', !.tries = @ + 1]
                ELSE AtPrompt
    /\ ret' = NoRet
    /\ UNCHANGED <<load, sched, owner, op, table, sleep>>

\* A store of the shell into the record it has picked.
ShellWrites(record, at) ==
    /\ table' = [table EXCEPT ![shell.slot] = record]
    /\ shell' = [shell EXCEPT !.at = at]
    /\ ret' = NoRet
    /\ UNCHANGED <<load, sched, owner, op, next_pid, sleep>>

ShellClears == ShellAt("clear") /\ ShellWrites(Unused, "fill")

ShellFills ==
    /\ ShellAt("fill")
    /\ ShellWrites([table[shell.slot] EXCEPT !.state = "running", !.pid = shell.pid, !.parent = MyPid,
                                             !.space = TRUE], "create")

ShellCreatesTask ==
    /\ ShellAt("create")
    /\ \/ \E t \in FreeTasks :
             /\ sched' = CreateTask(sched, t)
             /\ owner' = [owner EXCEPT ![t] = MainOf(shell.slot, shell.pid)]
             /\ shell' = [at |-> "store", slot |-> shell.slot, pid |-> shell.pid, task |-> t]
       \/ /\ shell' = [at |-> "store", slot |-> shell.slot, pid |-> shell.pid, task |-> NoTask]
          /\ UNCHANGED <<sched, owner>>
    /\ ret' = NoRet
    /\ UNCHANGED <<load, op, table, next_pid, sleep>>

\* The test that follows is of the value that create_task returned.
ShellStoresTask ==
    /\ ShellAt("store")
    /\ table' = [table EXCEPT
                    ![shell.slot].task = shell.task,
                    ![shell.slot].stale =
                        shell.task \notin {t \in TasksIn(shell.slot) : owner[t].main} \cup {NoTask}]
    /\ shell' = [at |-> IF shell.task = NoTask THEN "release" ELSE "launched",
                 slot |-> shell.slot, pid |-> shell.pid]
    /\ ret' = NoRet
    /\ UNCHANGED <<load, sched, owner, op, next_pid, sleep>>

ShellReleases ==
    /\ ShellAt("release")
    /\ table' = Release(K, shell.slot).tab
    /\ shell' = AtPrompt
    /\ ret' = NoRet
    /\ UNCHANGED <<load, sched, owner, op, next_pid, sleep>>

ShellWaits ==
    /\ ShellAt("launched")
    /\ WaitStart(shell.pid)
    /\ shell' = IF op'[Me] = NoOp THEN AtPrompt ELSE shell
    /\ UNCHANGED <<load, next_pid, sleep>>

\* process_detach, for a job in the background.
ShellDetaches ==
    /\ ShellAt("launched")
    /\ LET p == Find(table, shell.pid)
       IN  table' = IF p = -1 THEN table
                    ELSE IF table[p].state = "zombie" THEN Release(K, p).tab
                    ELSE [table EXCEPT ![p].parent = 0, ![p].auto_reap = TRUE]
    /\ shell' = AtPrompt
    /\ ret' = NoRet
    /\ UNCHANGED <<load, sched, owner, op, next_pid, sleep>>

(***************************************************************************)
(* The specification.                                                      *)
(***************************************************************************)
Init ==
    /\ load \in Workloads
    /\ IF load = "shell"
       THEN /\ sched = InitialTasks(Shell, Idle)
            /\ owner = [t \in UserTasks |-> NoOwner]
            /\ table = [p \in Slots |-> Unused]
            /\ next_pid = 1
       ELSE \E t \in UserTasks :
            \* a job in the background, the shell waits for a key
            /\ sched = [InitialTasks(t, Idle) EXCEPT
                           !.blocked = <<[task |-> Shell, chan |-> <<"keyboard", 0>>]>>]
            /\ owner = [u \in UserTasks |->
                           IF u = t THEN MainOf(0, 1) ELSE NoOwner]
            /\ table = [p \in Slots |->
                           IF p = 0 THEN [Unused EXCEPT !.state = "running", !.pid = 1,
                                             !.auto_reap = TRUE, !.task = t, !.space = TRUE]
                           ELSE Unused]
            /\ next_pid = 2
    /\ op = [t \in UserTasks \cup {Idle, Shell} |-> NoOp]
    /\ sleep = [i \in 1..NumSleeps |-> NoTask]
    /\ shell = AtPrompt
    /\ ret = NoRet

Next ==
    \/ SysFork \/ SysThreadCreate \/ SysExit \/ SysWait \/ SysWaitpid \/ SysThreadJoin
    \/ SysExec \/ SysYield \/ SysSignal \/ SysPause \/ SysAlarm \/ SysSigreturn \/ SysSleep
    \/ \E p \in Slots : Kill(p) \/ SysSignalTo(p, SIGTERM)
                       \/ SysSignalTo(p, SIGSTOP) \/ SysSignalTo(p, SIGCONT)
    \/ ResumeWait \/ ResumeWaitpid \/ ResumeJoin \/ ResumePause \/ ResumeStop
    \/ ResumeSleep \/ DeliverSignal \/ Tick
    \/ ShellPicks \/ ShellTakesPid \/ ShellClears \/ ShellFills \/ ShellCreatesTask
    \/ ShellStoresTask \/ ShellReleases \/ ShellWaits \/ ShellDetaches

Spec == Init /\ [][Next]_vars

(***************************************************************************)
(* Properties.                                                             *)
(***************************************************************************)
AllTasks == UserTasks \cup {Idle, Shell}

TypeOK ==
    /\ load \in Workloads
    /\ sched.cur \in AllTasks /\ LiveTasks(sched) \subseteq AllTasks
    /\ owner \in [UserTasks -> [slot : Slots \cup {-1}, pid : 0..PidMax, space : BOOLEAN,
                              main : BOOLEAN]]
    /\ \A p \in Slots :
          /\ table[p].state \in {"unused", "running", "zombie"}
          /\ table[p].pid \in 0..PidMax /\ table[p].parent \in 0..PidMax
          /\ table[p].threads \in 0..Cardinality(UserTasks)
          /\ table[p].pending \subseteq Signals
          /\ table[p].task \in UserTasks \cup {NoTask}
    /\ next_pid \in 1..PidMax
    /\ sleep \in [1..NumSleeps -> UserTasks \cup {NoTask}]

\* Two processes never have one pid, also after the counter has wrapped
\* (process.c:45, "Return the next positive pid without overflowing int32_t or
\* colliding with a process that is still live").
UniquePids ==
    \A p, q \in Used(table) : table[p].pid = table[q].pid => p = q

\* While a task exists its process record is its own, is running, and has the
\* address space the task runs in: neither exit nor exec of a sibling, nor a
\* wait that releases the record, pulls it away (process.h:79-84, process.c:305-314).
AddressSpaceAlive ==
    \A p \in Slots : \A t \in TasksIn(p) :
        /\ table[p].state = "running" /\ table[p].space
        /\ table[p].pid = owner[t].pid /\ owner[t].space

\* The launch of the program in slot p that process_launch has not completed:
\* its record is running without a task, or does not name its task.
Launching(p, steps) == shell.at \in steps /\ shell.slot = p

\* A process is running exactly as long as it has tasks, the count of its
\* threads is exact, and the record names the main task as long as it lives: no
\* exit order of main task and threads leaves a process that nobody finishes.
\* While it is launched a process has no task yet, or one that its record does
\* not name; and the record of a program that ended before process_launch
\* stored its task (process.c:213) keeps the name of a task that is gone.
TeardownExact ==
    \A p \in Slots :
        LET main == {t \in TasksIn(p) : owner[t].main} IN
        /\ \/ (table[p].state = "running") = (TasksIn(p) # {})
           \/ TasksIn(p) = {} /\ Launching(p, {"create", "release"})
           \/ TasksIn(p) = {} /\ Launching(p, {"store"}) /\ shell.task = NoTask
        /\ table[p].threads = Cardinality(TasksIn(p) \ main)
        /\ \/ {table[p].task} \ {NoTask} = main
           \/ Launching(p, {"store"}) \/ table[p].stale

\* A zombie has a parent that can reap it: a running process, or the shell
\* that has launched it and has not yet waited for it or detached it.
ZombieHasParent ==
    \A p \in Used(table) : table[p].state = "zombie" =>
        \/ \E q \in Slots : table[q].state = "running" /\ table[q].pid = table[p].parent
        \/ Launching(p, {"store", "launched"}) /\ shell.pid = table[p].pid /\ table[p].parent = 0

\* process_wait and process_waitpid release the record of the child that was
\* asked for, and only to its parent.
WaitReapsOwnChild == ret.asked = ret.got /\ ret.parent = ret.me

\* What the task is blocked in, if it is.
BlockedIn(t, call) == t \in BlockedTasks(sched) /\ op[t].call = call
ChildrenOf(t, pid) ==
    {p \in Used(table) : /\ table[p].parent = (IF t = Shell THEN 0 ELSE owner[t].pid)
                          /\ (pid = -1 \/ table[p].pid = pid)}

\* Nobody sleeps through what it waits for: no wait for a child that has exited
\* or that somebody else has reaped, no pause() of a main task with a signal
\* pending, no SIGSTOP with SIGCONT pending, no join without a thread.  And a
\* sleeper has its slot, so its deadline will wake it: a killed sleeper whose
\* slot has passed on does not take it from its new owner.  Only the signal that
\* comes before process_launch has stored the task (process.c:213) wakes nobody.
NoMissedWakeup ==
    /\ \A t \in UserTasks \cup {Shell} :
          BlockedIn(t, "wait") \/ BlockedIn(t, "waitpid") =>
              /\ ChildrenOf(t, op[t].pid) # {}
              /\ \A p \in ChildrenOf(t, op[t].pid) : table[p].state = "running"
    /\ \A t \in UserTasks :
          LET r == table[owner[t].slot]
          IN  /\ BlockedIn(t, "pause") /\ r.task = t => r.pending = {} \/ r.unheard
              /\ BlockedIn(t, "stop") /\ r.task = t => SIGCONT \notin r.pending \/ r.unheard
              /\ BlockedIn(t, "join") => r.threads > 0
              /\ BlockedIn(t, "sleep") => sleep[op[t].i] = t
=============================================================================
