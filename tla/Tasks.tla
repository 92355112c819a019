------------------------------- MODULE Tasks -------------------------------
(***************************************************************************)
(* The task scheduler of miniOS (projects/minios-x86/task.c): one CPU, a   *)
(* circular list of ready tasks, one list of blocked tasks, and the kill   *)
(* mark of every task.  Its whole state is a record                        *)
(*                                                                         *)
(*   ring     the circular ready list, read from ready_queue onwards;      *)
(*   cur      current_task, a member of ring;                              *)
(*   blocked  blocked_tasks with each task's wait_channel, oldest first;   *)
(*   killed   the tasks whose kill_pending is set.                         *)
(*                                                                         *)
(* and every function of task.c that changes it is an operator from the    *)
(* record before the call to the record after it.  The kernel runs them    *)
(* with interrupts disabled, so a handler composes them in one step.       *)
(***************************************************************************)
EXTENDS Naturals, Sequences, SequencesExt

\* previous->next of a removal and the round robin of schedule(): the task
\* after t in the circular list.
NextOf(s, t) ==
    LET i == CHOOSE j \in DOMAIN s.ring : s.ring[j] = t
    IN  s.ring[(i % Len(s.ring)) + 1]

\* The circular list without t.  When t was ready_queue, its successor is the
\* new ready_queue, which is where the remaining sequence begins.
RingWithout(s, t) == SelectSeq(s.ring, LAMBDA u : u # t)

\* add_ready_task for each task of ts in turn: every one is linked directly
\* behind ready_queue, so the last one added stands first.  The list is never
\* empty: the idle task neither blocks nor exits.
AddReady(s, ts) ==
    [s EXCEPT !.ring = <<Head(@)>> \o Reverse(ts) \o Tail(@)]

\* create_task: a fresh task, not marked for termination, joins the ready list.
CreateTask(s, t) ==
    [AddReady(s, <<t>>) EXCEPT !.killed = @ \ {t}]

\* task_block_current: the current task moves to the tail of the blocked list
\* and the next one runs.  A task alone in the ready list cannot block.
BlockCurrent(s, chan) ==
    IF Len(s.ring) = 1 THEN s
    ELSE [s EXCEPT !.ring = RingWithout(s, s.cur),
                   !.blocked = Append(@, [task |-> s.cur, chan |-> chan]),
                   !.cur = NextOf(s, s.cur)]

\* Unlink the blocked entries with Test, oldest first, into the ready list.
WakeIf(s, Test(_)) ==
    LET woken == SelectSeq(s.blocked, Test)
    IN  AddReady([s EXCEPT !.blocked = SelectSeq(@, LAMBDA b : ~Test(b))],
                 [i \in DOMAIN woken |-> woken[i].task])

\* task_wake_all: every waiter of a channel.
WakeAll(s, chan) == WakeIf(s, LAMBDA b : b.chan = chan)

\* task_wake_one: the oldest waiter of a channel.
WakeOne(s, chan) ==
    LET i == SelectInSeq(s.blocked, LAMBDA b : b.chan = chan)
    IN  IF i = 0 THEN s ELSE WakeIf(s, LAMBDA b : b = s.blocked[i])

\* task_wake_task: one given task, whatever it waits for.
WakeTask(s, t) == WakeIf(s, LAMBDA b : b.task = t)

\* A mistaken task_kill_blocked that links the tasks into the ready list and
\* leaves them in the blocked list.
KillBlockedLinked(s, ts) ==
    LET hit == SelectSeq(s.blocked, LAMBDA b : b.task \in ts)
    IN  AddReady([s EXCEPT !.killed = @ \cup ts], [i \in DOMAIN hit |-> hit[i].task])

\* task_kill_blocked: mark every task of a process (the set ts), ready or
\* blocked, and wake the blocked ones so that they leave from their wait.
KillBlocked(s, ts) ==
    WakeIf([s EXCEPT !.killed = @ \cup ts], LAMBDA b : b.task \in ts)

\* task_kill_pending: the mark of the current task.
KillPending(s) == s.cur \in s.killed

\* A mistaken schedule that always takes the front of the ready list.
ScheduleFront(s) == [s EXCEPT !.cur = Head(s.ring)]

\* schedule: round robin to the next ready task.
Schedule(s) == [s EXCEPT !.cur = NextOf(s, s.cur)]

\* task_exit up to its on_exit callback: the current task leaves the ready
\* list for good and the next one is current.  The exiting task's structure is
\* freed by the next schedule() or task_exit(), nothing refers to it again.
ExitCurrent(s) ==
    [s EXCEPT !.ring = RingWithout(s, s.cur),
              !.cur = NextOf(s, s.cur),
              !.killed = @ \ {s.cur}]

\* The tasks that exist, and those that wait on a channel.
ReadyTasks(s) == ToSet(s.ring)
BlockedTasks(s) == {s.blocked[i].task : i \in DOMAIN s.blocked}
LiveTasks(s) == ReadyTasks(s) \cup BlockedTasks(s)
WaitersOn(s, chan) ==
    {s.blocked[i].task : i \in {j \in DOMAIN s.blocked : s.blocked[j].chan = chan}}

\* tasking_init: the main kernel task is current and idle_task_runner is ready.
InitialTasks(main, idle) ==
    [ring |-> <<main, idle>>, cur |-> main, blocked |-> <<>>, killed |-> {}]
=============================================================================
