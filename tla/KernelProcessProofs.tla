------------------------ MODULE KernelProcessProofs ------------------------
(***************************************************************************)
(* What holds of the process table of miniOS whatever its size: a pid that *)
(* is handed out is nobody's, and a wait releases the caller's own child.  *)
(***************************************************************************)
EXTENDS KernelProcess, TLAPS, WellFoundedInduction

\* A set of slots or of tries has a least element.
LEMMA MinIsMember ==
  ASSUME NEW S, S \subseteq Nat, S # {}
  PROVE  Min(S) \in S /\ \A y \in S : Min(S) <= y
<1> DEFINE R == {ss \in Nat \X Nat : ss[1] < ss[2]}
<1>1. IsWellFoundedOn(R, Nat)
  BY NatLessThanWellFounded DEF OpToRel
<1>2. \A x, y \in Nat : y < x => <<y, x>> \in R
  OBVIOUS
<1> HIDE DEF R
<1>3. PICK x \in S : \A y \in S : ~ (<<y, x>> \in R)
  BY <1>1, WFMin
<1>4. ASSUME NEW y \in S PROVE x <= y
  <2>1. ~ (y < x)
    BY <1>2, <1>3
  <2> QED
    BY <2>1
<1> QED
  BY <1>4, Zenon DEF Min

LEMMA UsedSlots ==
  ASSUME NEW tab
  PROVE  Used(tab) \subseteq Nat
BY ProcessAssumption DEF Used, Slots

\* process_find returns NULL only if no used record has the pid.
LEMMA NotFound ==
  ASSUME NEW tab, NEW pid, Find(tab, pid) = -1
  PROVE  \A p \in Used(tab) : tab[p].pid # pid
<1> DEFINE hits == {p \in Used(tab) : tab[p].pid = pid}
<1>1. hits \subseteq Nat
  BY UsedSlots
<1>2. hits = {}
  <2> SUFFICES ASSUME hits # {} PROVE FALSE
    OBVIOUS
  <2>1. Min(hits) \in Nat
    BY <1>1, MinIsMember
  <2>2. Find(tab, pid) = Min(hits)
    BY DEF Find
  <2> QED
    BY <2>1, <2>2
<1> QED
  BY <1>2

\* process_allocate_pid hands out a positive pid that no used record has, also
\* when the counter has wrapped, and leaves the counter in range.
THEOREM AllocatedPidIsFresh ==
  ASSUME NEW tab, NEW from \in 1..PidMax
  PROVE  LET new == AllocatePid(tab, from) IN
         /\ new.next \in 1..PidMax
         /\ new.pid # -1 => new.pid \in 1..PidMax /\ \A p \in Used(tab) : tab[p].pid # new.pid
<1> DEFINE after(n) == ((from + n - 1) % PidMax) + 1
           tries == {n \in 0..(NumSlots - 1) : Find(tab, after(n)) = -1}
           new == AllocatePid(tab, from)
<1>1. PidMax \in Nat \ {0} /\ NumSlots \in Nat \ {0}
  BY ProcessAssumption
<1>2. \A n \in Nat : after(n) \in 1..PidMax
  BY <1>1
<1>3. CASE tries = {}
  <2>1. new = [pid |-> -1, next |-> after(NumSlots)]
    BY <1>3 DEF AllocatePid
  <2> QED
    BY <1>1, <1>2, <2>1
<1>4. CASE tries # {}
  <2>1. new = [pid |-> after(Min(tries)), next |-> after(Min(tries) + 1)]
    BY <1>4 DEF AllocatePid
  <2>2. tries \subseteq Nat /\ \A n \in tries : Find(tab, after(n)) = -1
    BY <1>1
  <2>3. Min(tries) \in tries
    <3> HIDE DEF tries
    <3> QED
      BY <1>4, <2>2, MinIsMember
  <2> DEFINE least == Min(tries)
             pid == after(least)
  <2>4. least \in Nat /\ Find(tab, pid) = -1
    <3> HIDE DEF tries, after
    <3> QED
      BY <2>2, <2>3
  <2>5. new = [pid |-> pid, next |-> after(least + 1)]
    BY <2>1
  <2> HIDE DEF tries, least, new
  <2>6. pid \in 1..PidMax /\ after(least + 1) \in 1..PidMax
    <3> HIDE DEF after
    <3>1. least + 1 \in Nat
      BY <2>4
    <3> QED
      BY <1>2, <2>4, <3>1
  <2> HIDE DEF pid, after
  <2>7. \A p \in Used(tab) : tab[p].pid # pid
    BY <2>4, NotFound
  <2> QED
    BY <2>5, <2>6, <2>7 DEF new
<1> QED
  BY <1>3, <1>4

-----------------------------------------------------------------------------
\* The record that a wait releases.

LEMMA NothingReturned == ret' = NoRet => WaitReapsOwnChild'
BY DEF WaitReapsOwnChild, NoRet

LEMMA ReapOwn ==
  ASSUME NEW p, NEW asked, Reap(K, p, asked), table[p].pid = asked, table[p].parent = MyPid
  PROVE  WaitReapsOwnChild'
BY DEF Reap, K, WaitReapsOwnChild

LEMMA FailReturnsNothing == Fail(K) => WaitReapsOwnChild'
BY NothingReturned DEF Fail

LEMMA WaitLoopReaps ==
  ASSUME NEW p, NEW pid, WaitLoop(p, pid)
  PROVE  WaitReapsOwnChild'
<1>1. CASE table[p].state = "running"
  BY <1>1, NothingReturned DEF WaitLoop
<1>2. CASE table[p].state # "running" /\ IsChild(p, pid)
  <2>1. Reap(K, p, pid)
    BY <1>2 DEF WaitLoop
  <2> QED
    BY <1>2, <2>1, ReapOwn DEF IsChild
<1>3. CASE table[p].state # "running" /\ ~IsChild(p, pid)
  BY <1>3, FailReturnsNothing DEF WaitLoop
<1> QED
  BY <1>1, <1>2, <1>3

LEMMA WaitStartReaps ==
  ASSUME NEW pid, WaitStart(pid)
  PROVE  WaitReapsOwnChild'
BY WaitLoopReaps, FailReturnsNothing DEF WaitStart

LEMMA WaitpidReaps ==
  ASSUME NEW pid, NEW nohang, WaitpidLoop(pid, nohang)
  PROVE  WaitReapsOwnChild'
<1> DEFINE mine == {p \in Used(table) : table[p].parent = MyPid
                                      /\ (pid = -1 \/ table[p].pid = pid)}
           zombies == {p \in mine : table[p].state = "zombie"}
           asked == IF pid = -1 THEN table[Min(zombies)].pid ELSE pid
<1>1. CASE zombies # {}
  <2>1. Reap(K, Min(zombies), asked)
    BY <1>1 DEF WaitpidLoop
  <2>2. /\ zombies \subseteq Nat
        /\ \A p \in zombies : table[p].parent = MyPid /\ (pid = -1 \/ table[p].pid = pid)
    BY UsedSlots
  <2>3. Min(zombies) \in zombies
    <3> HIDE DEF zombies
    <3> QED
      BY <1>1, <2>2, MinIsMember
  <2>4. table[Min(zombies)].pid = asked /\ table[Min(zombies)].parent = MyPid
    <3> HIDE DEF zombies
    <3> QED
      BY <2>2, <2>3
  <2> HIDE DEF zombies, asked
  <2> QED
    BY <2>1, <2>4, ReapOwn
<1>2. CASE zombies = {}
  BY <1>2, NothingReturned, FailReturnsNothing DEF WaitpidLoop
<1> QED
  BY <1>1, <1>2

\* Every other call returns nothing from a wait.
LEMMA OtherCalls ==
  ASSUME \/ SysFork \/ SysThreadCreate \/ SysExit \/ SysThreadJoin \/ SysExec \/ SysYield
         \/ SysSignal \/ SysPause \/ SysAlarm \/ SysSigreturn \/ SysSleep
         \/ \E p \in Slots : Kill(p) \/ SysSignalTo(p, SIGTERM)
                             \/ SysSignalTo(p, SIGSTOP) \/ SysSignalTo(p, SIGCONT)
         \/ ResumeJoin \/ ResumePause \/ ResumeStop \/ ResumeSleep \/ DeliverSignal \/ Tick
         \/ ShellPicks \/ ShellTakesPid \/ ShellClears \/ ShellFills \/ ShellCreatesTask
         \/ ShellStoresTask \/ ShellReleases \/ ShellDetaches
  PROVE  WaitReapsOwnChild'
<1>1. CASE SysFork \/ SysThreadCreate \/ SysExit \/ SysExec \/ SysYield
  BY <1>1, NothingReturned DEF SysFork, SysThreadCreate, SysExit, SysExec, Exec, SysYield
<1>2. CASE SysSignal \/ SysAlarm \/ SysSigreturn \/ SysSleep
  BY <1>2, NothingReturned DEF SysSignal, SysAlarm, SysSigreturn, SysSleep
<1>3. CASE SysThreadJoin \/ SysPause
  BY <1>3, NothingReturned DEF SysThreadJoin, JoinLoop, SysPause, PauseLoop
<1>4. CASE ResumeJoin \/ ResumePause \/ ResumeStop \/ ResumeSleep
  BY <1>4, NothingReturned
     DEF ResumeJoin, ResumePause, ResumeStop, ResumeSleep, Resumed, JoinLoop, PauseLoop, StopLoop
<1>5. CASE \E p \in Slots : Kill(p) \/ SysSignalTo(p, SIGTERM)
                              \/ SysSignalTo(p, SIGSTOP) \/ SysSignalTo(p, SIGCONT)
  BY <1>5, NothingReturned DEF Kill, SysSignalTo
<1>6. CASE DeliverSignal
  BY <1>6, NothingReturned DEF DeliverSignal
<1>7. CASE Tick
  BY <1>7, NothingReturned DEF Tick
<1>8. CASE ShellPicks \/ ShellTakesPid \/ ShellClears \/ ShellFills
  BY <1>8, NothingReturned DEF ShellPicks, ShellTakesPid, ShellClears, ShellFills, ShellWrites
<1>9. CASE ShellCreatesTask \/ ShellStoresTask \/ ShellReleases \/ ShellDetaches
  BY <1>9, NothingReturned DEF ShellCreatesTask, ShellStoresTask, ShellReleases, ShellDetaches
<1> QED
  BY <1>1, <1>2, <1>3, <1>4, <1>5, <1>6, <1>7, <1>8, <1>9

\* process_wait and process_waitpid release the record of the child that was
\* asked for and only to its parent, whoever reaped or reused the slot while
\* the caller was blocked.
THEOREM WaitsReapOwnChild == Spec => []WaitReapsOwnChild
<1>1. Init => WaitReapsOwnChild
  <2>1. Init => ret = NoRet
    BY Zenon DEF Init
  <2> QED
    BY <2>1 DEF NoRet, WaitReapsOwnChild
<1>2. WaitReapsOwnChild /\ [Next]_vars => WaitReapsOwnChild'
  <2> SUFFICES ASSUME WaitReapsOwnChild, [Next]_vars PROVE WaitReapsOwnChild'
    OBVIOUS
  <2>1. CASE SysWait
    BY <2>1, WaitStartReaps DEF SysWait
  <2>2. CASE SysWaitpid
    BY <2>2, WaitpidReaps DEF SysWaitpid
  <2>3. CASE ResumeWait
    <3>1. CASE ret' = NoRet
      BY <3>1, NothingReturned
    <3>2. CASE Recheck(op[Me].slot, op[Me].pid)
      BY <3>2, WaitLoopReaps, FailReturnsNothing DEF Recheck
    <3> QED
      BY <2>3, <3>1, <3>2 DEF ResumeWait, Resumed
  <2>4. CASE ResumeWaitpid
    <3>1. CASE ret' = NoRet
      BY <3>1, NothingReturned
    <3>2. CASE WaitpidLoop(op[Me].pid, FALSE)
      BY <3>2, WaitpidReaps
    <3> QED
      BY <2>4, <3>1, <3>2 DEF ResumeWaitpid, Resumed
  <2>5. CASE ShellWaits
    BY <2>5, WaitStartReaps DEF ShellWaits
  <2>6. CASE UNCHANGED vars
    BY <2>6 DEF vars, WaitReapsOwnChild
  <2> QED
    BY <2>1, <2>2, <2>3, <2>4, <2>5, <2>6, OtherCalls DEF Next
<1> QED
  BY <1>1, <1>2, PTL DEF Spec
=============================================================================
