----------------------------- MODULE ProcProofs -----------------------------
(***************************************************************************)
(* Proofs about Proc for every table size, pid bound and clock width.      *)
(*                                                                         *)
(* proc_schedule is shown once, by lemma ScheduleStep, to change a slot    *)
(* only as SlotStep allows; every system call is then its own edit of the  *)
(* table followed by such a step.                                          *)
(* The action properties, about slots that are released and sleepers that  *)
(* wake, rest on what a handler leaves to proc_schedule (HandedOver).      *)
(***************************************************************************)
EXTENDS Proc, TLAPS

\* What proc_schedule may do to one slot: collect a zombie that is ready for it,
\* let it be, or make a task that does not wait for a child runnable or running.
SlotStep(a, b) ==
  \/ /\ a.state = "ZOMBIE" /\ a.reap_ready /\ b = Unused
  \/ /\ b.kind = a.kind /\ b.pid = a.pid /\ b.parent_pid = a.parent_pid
     /\ b.wait_target_pid = a.wait_target_pid /\ b.reap_ready = a.reap_ready
     /\ \/ /\ b.state = a.state /\ a.state # "RUNNING"
           /\ b.block_reason = a.block_reason /\ b.wake_tick = a.wake_tick
        \/ /\ a.state \in {"RUNNABLE", "RUNNING", "SLEEPING", "BLOCKED"}
           /\ a.state = "BLOCKED" => a.block_reason # "WAITPID"
           /\ b.state \in {"RUNNABLE", "RUNNING"}

\* The idle task exists, can always run and is never anybody's child.
IdleReady(ts) == /\ idle_task \in Slots
                 /\ ts[idle_task].kind = "KERNEL"
                 /\ ts[idle_task].state \in {"RUNNABLE", "RUNNING"}

\* The only slot that may be RUNNING when proc_schedule is called is the current one.
OnlyCurrent(ts) == \A s \in Slots : ts[s].state = "RUNNING" => s = current_task

\* Setting the state of a task keeps it well typed.
LEMMA StateChange ==
  ASSUME NEW t \in Task, NEW st \in States
  PROVE  [t EXCEPT !.state = st] \in Task
BY DEF Task

\* Each stage of proc_schedule yields a table, and steps every slot.
LEMMA DescheduleStage ==
  ASSUME NEW ts \in [Slots -> Task], current_task \in Slots, OnlyCurrent(ts)
  PROVE  /\ Deschedule(ts) \in [Slots -> Task]
         /\ \A s \in Slots :
              /\ Deschedule(ts)[s].state # "RUNNING"
              /\ Deschedule(ts)[s] = ts[s] \/ (s = current_task /\ ts[s].state = "RUNNING"
                   /\ Deschedule(ts)[s] = [ts[s] EXCEPT !.state = "RUNNABLE"])
<1>1. ASSUME NEW s \in Slots
      PROVE  /\ Deschedule(ts)[s] \in Task
             /\ Deschedule(ts)[s].state # "RUNNING"
             /\ Deschedule(ts)[s] = ts[s] \/ (s = current_task /\ ts[s].state = "RUNNING"
                  /\ Deschedule(ts)[s] = [ts[s] EXCEPT !.state = "RUNNABLE"])
  <2>1. CASE s = current_task
    <3>1. [ts[s] EXCEPT !.state = "RUNNABLE"] \in Task /\ ts[s] \in Task
      BY StateChange DEF States
    <3>2. /\ Deschedule(ts)[s] = IF ts[s].state = "RUNNING"
                                  THEN [ts[s] EXCEPT !.state = "RUNNABLE"] ELSE ts[s]
          /\ [ts[s] EXCEPT !.state = "RUNNABLE"].state = "RUNNABLE"
      BY <2>1 DEF Deschedule, Task, NoTask, Slots
    <3> QED BY <2>1, <3>1, <3>2
  <2>2. CASE s # current_task
    BY <2>2 DEF Deschedule, OnlyCurrent
  <2> QED BY <2>1, <2>2
<1>2. DOMAIN Deschedule(ts) = Slots /\ Deschedule(ts) = [s \in Slots |-> Deschedule(ts)[s]]
  BY DEF Deschedule
<1> QED BY <1>1, <1>2

\* A cleared wake_tick is a value of the counter.
LEMMA ZeroTick == 0 \in 0 .. TickWrap - 1
BY TickAssumption DEF TickAssumption, TickWrap

\* proc_wake_sleepers keeps the table well typed.
LEMMA WakeStage ==
  ASSUME NEW ts \in [Slots -> Task], NEW now
  PROVE  WakeSleepers(ts, now) \in [Slots -> Task]
<1> SUFFICES ASSUME NEW s \in Slots PROVE WakeSleepers(ts, now)[s] \in Task
  BY Zenon DEF WakeSleepers
<1> QED BY ZeroTick DEF WakeSleepers, Task, States

\* Completing blocked tasks keeps the table well typed.
LEMMA CompleteStage ==
  ASSUME NEW ts \in [Slots -> Task], NEW done
  PROVE  CompleteBlocked(ts, done) \in [Slots -> Task]
<1> SUFFICES ASSUME NEW s \in Slots PROVE CompleteBlocked(ts, done)[s] \in Task
  BY Zenon DEF CompleteBlocked
<1> QED BY Zenon DEF CompleteBlocked, Task, States

\* task_reset leaves a well-typed slot.
LEMMA UnusedIsTask == Unused \in Task
BY ZeroTick, TableAssumption DEF TableAssumption, Unused, Task, States, AnyChild

\* Collecting zombies keeps the table well typed and releases only zombies that
\* are ready for it, never the current task.
LEMMA CollectStage ==
  ASSUME NEW ts \in [Slots -> Task]
  PROVE  CollectReapable(ts) \in [Slots -> Task]
BY UnusedIsTask DEF CollectReapable

\* proc_schedule steps every slot, leaves exactly the task it picked RUNNING,
\* keeps the idle task and drops the pointer to init only if it collected init.
LEMMA ScheduleStep ==
  ASSUME NEW ts \in [Slots -> Task], NEW now, current_task \in Slots,
         OnlyCurrent(ts), IdleReady(ts), Schedule(ts, now),
         init_task \in Slots \cup {NoTask}
  PROVE  /\ tasks' \in [Slots -> Task]
         /\ current_task' \in Slots
         /\ \A s \in Slots : tasks'[s].state = "RUNNING" <=> s = current_task'
         /\ \A s \in Slots : SlotStep(ts[s], tasks'[s])
         /\ \A s \in Slots : s # current_task /\ tasks'[s].state = "ZOMBIE" => ~tasks'[s].reap_ready
         /\ ts[current_task].state # "UNUSED" => tasks'[current_task].state # "UNUSED"
         /\ current_task' = idle_task =>
              \A s \in Slots : tasks'[s].state = "RUNNABLE" => s = idle_task
         /\ idle_task' = idle_task
         /\ init_task' = Pointer(init_task, tasks')
<1> DEFINE off == Deschedule(ts)
           awake == WakeSleepers(off, now)
<1>1. PICK done \in SUBSET DeviceBlocked(awake), next \in Slots :
        /\ PickNext(CollectReapable(CompleteBlocked(awake, done)), next)
        /\ Activate(CollectReapable(CompleteBlocked(awake, done)), next)
        /\ idle_task' = Pointer(idle_task, CollectReapable(CompleteBlocked(awake, done)))
        /\ init_task' = Pointer(init_task, CollectReapable(CompleteBlocked(awake, done)))
  BY DEF Schedule
<1> DEFINE ready == CompleteBlocked(awake, done)
           swept == CollectReapable(ready)
<1>2. /\ off \in [Slots -> Task] /\ awake \in [Slots -> Task]
      /\ ready \in [Slots -> Task] /\ swept \in [Slots -> Task]
  BY DescheduleStage, WakeStage, CompleteStage, CollectStage
<1>3. ASSUME NEW s \in Slots
      PROVE  off[s].state # "RUNNING" /\ SlotStep(ts[s], off[s])
  <2>1. CASE off[s] = ts[s]
    BY <1>2, <2>1, DescheduleStage, Zenon DEF SlotStep
  <2>2. CASE s = current_task /\ ts[s].state = "RUNNING" /\ off[s] = [ts[s] EXCEPT !.state = "RUNNABLE"]
    BY <1>2, <2>2 DEF SlotStep, Task
  <2> QED BY <2>1, <2>2, DescheduleStage
<1>4. ASSUME NEW s \in Slots
      PROVE  awake[s].state # "RUNNING" /\ SlotStep(ts[s], awake[s])
  <2>1. CASE off[s].state = "SLEEPING" /\ ~Before(now, off[s].wake_tick)
    <3>1. awake[s] = [off[s] EXCEPT !.state = "RUNNABLE", !.wake_tick = 0]
      BY <2>1, Zenon DEF WakeSleepers
    <3> QED BY <1>2, <1>3, <2>1, <3>1 DEF SlotStep, Task, Unused
  <2>2. CASE ~(off[s].state = "SLEEPING" /\ ~Before(now, off[s].wake_tick))
    BY <1>3, <2>2, Zenon DEF WakeSleepers
  <2> QED BY <2>1, <2>2
<1>5. ASSUME NEW s \in Slots
      PROVE  ready[s].state # "RUNNING" /\ SlotStep(ts[s], ready[s])
  <2>1. CASE s \in done
    <3>1. ready[s] = [awake[s] EXCEPT !.state = "RUNNABLE", !.block_reason = "NONE"]
      BY <2>1 DEF CompleteBlocked
    <3>2. awake[s].state = "BLOCKED" /\ awake[s].block_reason # "WAITPID"
      BY <2>1, ReasonAssumption DEF DeviceBlocked, ReasonAssumption
    <3> QED BY <1>2, <1>4, <3>1, <3>2 DEF SlotStep, Task, Unused
  <2>2. CASE s \notin done
    BY <1>4, <2>2 DEF CompleteBlocked
  <2> QED BY <2>1, <2>2
<1>6. ASSUME NEW s \in Slots
      PROVE  swept[s].state # "RUNNING" /\ SlotStep(ts[s], swept[s])
  <2>1. CASE s # current_task /\ ready[s].state = "ZOMBIE" /\ ready[s].reap_ready
    <3>1. swept[s] = Unused
      BY <2>1 DEF CollectReapable
    <3>2. ready[s] # Unused
      BY <2>1 DEF Unused
    <3>3. ts[s].state = "ZOMBIE"
      BY <1>5, <2>1, <3>2 DEF SlotStep
    <3>4. ts[s].reap_ready
      BY <1>5, <2>1, <3>2, Zenon DEF SlotStep
    <3>5. swept[s].state # "RUNNING"
      BY <3>1 DEF Unused
    <3> QED BY <3>1, <3>3, <3>4, <3>5, Zenon DEF SlotStep
  <2>2. CASE ~(s # current_task /\ ready[s].state = "ZOMBIE" /\ ready[s].reap_ready)
    BY <1>5, <2>2 DEF CollectReapable
  <2> QED BY <2>1, <2>2
<1>7. swept[idle_task].state = "RUNNABLE"
  BY <1>6, <1>2 DEF IdleReady, SlotStep
<1>8. swept[next].state = "RUNNABLE"
  BY <1>1, <1>7 DEF PickNext, IdleReady, NoTask, Slots
<1>9. /\ tasks' = [swept EXCEPT ![next].state = "RUNNING"]
      /\ current_task' = next
  BY <1>1 DEF Activate
<1>10. tasks' \in [Slots -> Task]
  <2>1. [swept[next] EXCEPT !.state = "RUNNING"] \in Task
    <3> HIDE DEF swept
    <3> QED BY <1>2, StateChange, Zenon DEF States
  <2> QED BY <1>2, <1>9, <2>1
<1>11. ASSUME NEW s \in Slots
       PROVE  /\ tasks'[s].state = "RUNNING" <=> s = next
              /\ SlotStep(ts[s], tasks'[s])
              /\ tasks'[s].state = "UNUSED" <=> swept[s].state = "UNUSED"
  <2>1. CASE s = next
    <3>1. tasks'[s] = [swept[s] EXCEPT !.state = "RUNNING"]
      BY <1>2, <1>9, <2>1
    <3> QED BY <1>2, <1>6, <1>8, <2>1, <3>1 DEF SlotStep, Task, Unused
  <2>2. CASE s # next
    <3>1. tasks'[s] = swept[s]
      BY <1>2, <1>9, <2>2
    <3> QED BY <1>6, <2>2, <3>1
  <2> QED BY <2>1, <2>2
<1>12. idle_task' = idle_task
  BY <1>1, <1>7 DEF Pointer
<1>13. init_task' = Pointer(init_task, tasks')
  BY <1>1, <1>11 DEF Pointer
<1>14. ASSUME NEW s \in Slots, s # current_task, tasks'[s].state = "ZOMBIE"
       PROVE  ~tasks'[s].reap_ready
  <2>1. tasks'[s] = swept[s]
    BY <1>2, <1>9, <1>11, <1>14
  <2>2. swept[s] # Unused
    BY <1>14, <2>1 DEF Unused
  <2>3. swept[s] = ready[s]
    BY <1>14, <2>2 DEF CollectReapable
  <2> QED BY <1>14, <2>1, <2>2, <2>3, Zenon DEF CollectReapable
<1>15. ASSUME ts[current_task].state # "UNUSED"
       PROVE  tasks'[current_task].state # "UNUSED"
  <2>1. off[current_task].state # "UNUSED"
    BY <1>2, <1>15 DEF Deschedule, Task
  <2>2. awake[current_task].state # "UNUSED"
    BY <1>2, <2>1, Zenon DEF WakeSleepers, Task
  <2>3. ready[current_task].state # "UNUSED"
    <3>1. /\ awake[current_task] \in Task
          /\ \/ ready[current_task] = awake[current_task]
             \/ ready[current_task] =
                  [awake[current_task] EXCEPT !.state = "RUNNABLE", !.block_reason = "NONE"]
      BY <1>2, Zenon DEF CompleteBlocked
    <3> HIDE DEF ready, awake
    <3> QED BY <2>2, <3>1, Zenon DEF Task
  <2>4. swept[current_task].state # "UNUSED"
    BY <2>3 DEF CollectReapable
  <2> QED BY <1>11, <2>4
<1>16. ASSUME next = idle_task, NEW s \in Slots, tasks'[s].state = "RUNNABLE"
       PROVE  s = idle_task
  <2> SUFFICES ASSUME s # idle_task PROVE FALSE
    OBVIOUS
  <2>1. tasks'[s] = swept[s]
    BY <1>2, <1>9, <1>16
  <2> HIDE DEF swept
  <2>2. PickNext(swept, next)
    BY <1>1 DEF swept
  <2> QED BY <1>16, <2>1, <2>2 DEF PickNext
<1> QED BY <1>9, <1>10, <1>11, <1>12, <1>13, <1>14, <1>15, <1>16

-----------------------------------------------------------------------------
(* The invariants as predicates on a table, and proc_schedule preserves them *)

PidsIn(ts) == \A s, t \in Slots :
                ts[s].state # "UNUSED" =>
                  /\ ts[s].pid \in 1 .. next_pid - 1
                  /\ ts[t].state # "UNUSED" /\ ts[s].pid = ts[t].pid => s = t

\* PidsIn depends only on the pids of the slots in use.
LEMMA PidsSame ==
  ASSUME NEW a, NEW b, PidsIn(a),
         \A s \in Slots : (b[s].state # "UNUSED" => a[s].state # "UNUSED") /\ b[s].pid = a[s].pid
  PROVE  PidsIn(b)
BY DEF PidsIn

ParentsIn(ts) == \A s \in Slots :
                   ts[s].state # "UNUSED" /\ ts[s].parent_pid # 0 =>
                     \E p \in Slots : /\ Live(ts, p) /\ ts[p].kind = "USER"
                                      /\ ts[p].pid = ts[s].parent_pid

WaitersIn(ts) ==
  \A p \in Slots : ts[p].state = "BLOCKED" /\ ts[p].block_reason = "WAITPID" =>
    \E c \in Slots : Live(ts, c) /\ WaitMatches(ts, p, c, ts[p].wait_target_pid)

MissedIn(ts) == \A p, c \in Slots : p # init_task /\ Waits(ts, p, c) => ts[c].state # "ZOMBIE"

ReapIn(ts) == \A s \in Slots : ts[s].reap_ready => ts[s].state = "ZOMBIE"

SettledIn(ts, settled) ==
  \A s \in Slots : ts[s].reap_ready /\ ts[s].parent_pid # 0 => ts[s].pid \in settled

InitIn(ts) == init_task # NoTask => ts[init_task].state # "UNUSED" /\ ts[init_task].kind = "USER"

Family(ts) == PidsIn(ts) /\ ParentsIn(ts) /\ WaitersIn(ts) /\ MissedIn(ts)
              /\ ReapIn(ts) /\ InitIn(ts)

\* A slot that is in use after a step was in use before it, as the same task
\* with the same parent; a live one stays live.
LEMMA SlotFacts ==
  ASSUME NEW a \in Task, NEW b \in Task, SlotStep(a, b)
  PROVE  /\ b.state # "UNUSED" => /\ a.state # "UNUSED"
                                  /\ b.pid = a.pid /\ b.parent_pid = a.parent_pid
                                  /\ b.kind = a.kind
                                  /\ b.wait_target_pid = a.wait_target_pid
                                  /\ b.reap_ready = a.reap_ready
         /\ a.state \notin {"UNUSED", "ZOMBIE"} => b.state \notin {"UNUSED", "ZOMBIE"}
         /\ b.state = "ZOMBIE" => a.state = "ZOMBIE"
         /\ b.state = "BLOCKED" => a.state = "BLOCKED" /\ b.block_reason = a.block_reason
         /\ a.state = "BLOCKED" /\ a.block_reason = "WAITPID" => b.state = "BLOCKED"
         /\ b.state = "SLEEPING" => a.state = "SLEEPING" /\ b.wake_tick = a.wake_tick
BY DEF SlotStep, Unused, Task

\* A scheduling step of a slot makes no other task ready to be collected.
LEMMA SlotReap ==
  ASSUME NEW a \in Task, NEW b \in Task, SlotStep(a, b)
  PROVE  /\ b.reap_ready => /\ a.reap_ready /\ a.pid = b.pid /\ a.parent_pid = b.parent_pid
                            /\ a.state = "ZOMBIE" => b.state = "ZOMBIE"
         /\ a.state # "UNUSED" /\ b.state = "UNUSED" => a.state = "ZOMBIE" /\ a.reap_ready
<1>1. CASE a.state = "ZOMBIE" /\ a.reap_ready /\ b = Unused
  <2>1. b.reap_ready = FALSE
    BY <1>1 DEF Unused
  <2> QED BY <1>1, <2>1
<1>2. CASE ~(a.state = "ZOMBIE" /\ a.reap_ready /\ b = Unused)
  <2>1. /\ b.pid = a.pid /\ b.parent_pid = a.parent_pid /\ b.reap_ready = a.reap_ready
        /\ a.state = "ZOMBIE" => b.state = "ZOMBIE"
        /\ b.state = "UNUSED" => a.state = "UNUSED"
    BY <1>2 DEF SlotStep
  <2> QED BY <2>1
<1> QED BY <1>1, <1>2

\* The relations between parents and children survive a scheduling step.
LEMMA FamilyStep ==
  ASSUME NEW ts \in [Slots -> Task], NEW us \in [Slots -> Task], Family(ts),
         \A s \in Slots : SlotStep(ts[s], us[s])
  PROVE  PidsIn(us) /\ ParentsIn(us) /\ WaitersIn(us) /\ MissedIn(us) /\ ReapIn(us)
<1>1. PidsIn(us)
  BY SlotFacts DEF Family, PidsIn
<1>2. ParentsIn(us)
  <2> SUFFICES ASSUME NEW s \in Slots, us[s].state # "UNUSED", us[s].parent_pid # 0
               PROVE  \E p \in Slots : /\ Live(us, p) /\ us[p].kind = "USER"
                                       /\ us[p].pid = us[s].parent_pid
    BY DEF ParentsIn
  <2>1. ts[s].state # "UNUSED" /\ ts[s].parent_pid = us[s].parent_pid
    BY SlotFacts
  <2>2. PICK p \in Slots : /\ Live(ts, p) /\ ts[p].kind = "USER"
                           /\ ts[p].pid = ts[s].parent_pid
    BY <2>1 DEF Family, ParentsIn
  <2> QED BY <2>1, <2>2, SlotFacts DEF Live
<1>3. WaitersIn(us)
  <2> SUFFICES ASSUME NEW p \in Slots, us[p].state = "BLOCKED", us[p].block_reason = "WAITPID"
               PROVE  \E c \in Slots : Live(us, c) /\ WaitMatches(us, p, c, us[p].wait_target_pid)
    BY DEF WaitersIn
  <2>1. /\ ts[p].state = "BLOCKED" /\ ts[p].block_reason = "WAITPID"
        /\ us[p].wait_target_pid = ts[p].wait_target_pid /\ us[p].pid = ts[p].pid
    BY SlotFacts
  <2>2. PICK c \in Slots : Live(ts, c) /\ WaitMatches(ts, p, c, ts[p].wait_target_pid)
    BY <2>1 DEF Family, WaitersIn
  <2> QED BY <2>1, <2>2, SlotFacts DEF Live, WaitMatches
<1>4. MissedIn(us)
  BY SlotFacts DEF Family, MissedIn, Waits, WaitMatches
<1>5. ReapIn(us)
  BY SlotReap DEF Family, ReapIn
<1> QED BY <1>1, <1>2, <1>3, <1>4, <1>5

\* What proc_schedule makes of a table that satisfies the invariants.
LEMMA ScheduleKeeps ==
  ASSUME NEW ts \in [Slots -> Task], NEW now, current_task \in Slots,
         init_task \in Slots \cup {NoTask}, ts[current_task].state # "UNUSED",
         OnlyCurrent(ts), IdleReady(ts), Family(ts), Schedule(ts, now), next_pid' = next_pid
  PROVE  /\ tasks' \in [Slots -> Task] /\ current_task' \in Slots
         /\ idle_task' \in Slots /\ init_task' \in Slots \cup {NoTask}
         /\ IdleReady(tasks)' /\ CurrentRuns' /\ IdleIsLast' /\ Family(tasks)' /\ OneUncollected'
<1> DEFINE us == tasks'
<1>1. /\ us \in [Slots -> Task] /\ current_task' \in Slots
      /\ \A s \in Slots : us[s].state = "RUNNING" <=> s = current_task'
      /\ \A s \in Slots : SlotStep(ts[s], us[s])
      /\ \A s \in Slots : s # current_task /\ us[s].state = "ZOMBIE" => ~us[s].reap_ready
      /\ current_task' = idle_task =>
              \A s \in Slots : us[s].state = "RUNNABLE" => s = idle_task
      /\ idle_task' = idle_task
      /\ init_task' = Pointer(init_task, us)
  BY ScheduleStep
<1> HIDE DEF us
<1>2. PidsIn(us) /\ ParentsIn(us) /\ WaitersIn(us) /\ MissedIn(us) /\ ReapIn(us)
  BY <1>1, FamilyStep
<1>3. IdleReady(tasks)'
  <2>1. us[idle_task].kind = "KERNEL" /\ us[idle_task].state \in {"RUNNABLE", "RUNNING"}
    BY <1>1 DEF IdleReady, SlotStep
  <2> QED BY <1>1, <2>1 DEF IdleReady, us
<1>4. CurrentRuns' /\ IdleIsLast'
  BY <1>1 DEF CurrentRuns, IdleIsLast, us
<1>5. init_task' \in Slots \cup {NoTask}
  BY <1>1 DEF Pointer
<1>6. OneUncollected'
  <2> SUFFICES ASSUME NEW s \in Slots, us[s].reap_ready PROVE s = current_task
    BY DEF OneUncollected, us
  <2>1. us[s].state = "ZOMBIE"
    BY <1>2 DEF ReapIn
  <2> QED BY <1>1, <2>1
<1>7. Family(tasks)'
  <2>1. PidsIn(tasks)'
    BY <1>2 DEF PidsIn, us
  <2>2. ParentsIn(tasks)' /\ WaitersIn(tasks)' /\ ReapIn(tasks)'
    BY <1>2 DEF ParentsIn, WaitersIn, ReapIn, Live, WaitMatches, us
  <2>3. MissedIn(tasks)'
    <3> SUFFICES ASSUME NEW p \in Slots, NEW c \in Slots, p # init_task', Waits(us, p, c)
                 PROVE  us[c].state # "ZOMBIE"
      BY DEF MissedIn, Waits, WaitMatches, us
    <3>1. p # init_task
      BY <1>1 DEF Pointer, Waits
    <3> QED BY <1>2, <3>1 DEF MissedIn
  <2>4. InitIn(tasks)'
    <3> SUFFICES ASSUME init_task' # NoTask
                 PROVE  us[init_task'].state # "UNUSED" /\ us[init_task'].kind = "USER"
      BY DEF InitIn, us
    <3>1. init_task' = init_task /\ init_task \in Slots /\ us[init_task].state # "UNUSED"
      BY <1>1 DEF Pointer
    <3>2. ts[init_task].kind = "USER"
      BY <3>1 DEF Family, InitIn
    <3> QED BY <1>1, <3>1, <3>2, SlotFacts
  <2> QED BY <2>1, <2>2, <2>3, <2>4 DEF Family
<1> QED BY <1>1, <1>3, <1>4, <1>5, <1>6, <1>7 DEF us, IdleReady

-----------------------------------------------------------------------------
(* The inductive invariant *)

\* Until the first task is entered every task created at boot is runnable.
Booting == current_task = NoTask => \A s \in Slots : tasks[s].state \in {"UNUSED", "RUNNABLE"}

Inv == /\ TypeOK
       /\ IdleReady(tasks)
       /\ Booting
       /\ CurrentRuns
       /\ IdleIsLast
       /\ Family(tasks)
       /\ SettledIn(tasks, reported \cup reportFailed)
       /\ OneUncollected

\* What the invariant says of the table, one operator at a time.
LEMMA InvParts ==
  Inv => /\ TypeOK /\ IdleReady(tasks) /\ PidsIn(tasks) /\ ParentsIn(tasks) /\ WaitersIn(tasks)
         /\ MissedIn(tasks) /\ ReapIn(tasks) /\ InitIn(tasks)
         /\ SettledIn(tasks, reported \cup reportFailed)
BY DEF Inv, Family

\* Sums on the tick counter stay in its range.
LEMMA TickInRange ==
  ASSUME tick_count \in 0 .. TickWrap - 1, NEW n \in 1 .. HalfRange
  PROVE  TickSum(tick_count, n) \in 0 .. TickWrap - 1
BY TickAssumption DEF TickAssumption, TickSum, TickWrap

\* A single tick is within the range the clock comparison can tell apart.
LEMMA OneTick == 1 \in 1 .. HalfRange
BY TickAssumption DEF TickAssumption

\* A handler that edits the table into ts and calls proc_schedule.
LEMMA HandlerKeepsInv ==
  ASSUME Inv, NEW ts \in [Slots -> Task], NEW now, current_task \in Slots,
         ts[current_task].state # "UNUSED",
         OnlyCurrent(ts), IdleReady(ts), Family(ts), Schedule(ts, now), next_pid' = next_pid,
         tick_count' \in 0 .. TickWrap - 1, hardware_tick_seen' \in BOOLEAN,
         reported' \subseteq Pids, reportedAgain' \subseteq Pids, reportFailed' \subseteq Pids,
         SettledIn(ts, (reported \cup reportFailed)')
  PROVE  Inv'
<1>1. /\ tasks' \in [Slots -> Task] /\ current_task' \in Slots
      /\ idle_task' \in Slots /\ init_task' \in Slots \cup {NoTask}
      /\ IdleReady(tasks)' /\ CurrentRuns' /\ IdleIsLast' /\ Family(tasks)' /\ OneUncollected'
  BY ScheduleKeeps DEF Inv, TypeOK
<1>2. TypeOK'
  BY <1>1 DEF Inv, TypeOK
<1>3. Booting'
  BY <1>1 DEF Booting, NoTask, Slots
<1>4. SettledIn(tasks, reported \cup reportFailed)'
  <2>1. \A s \in Slots : SlotStep(ts[s], tasks'[s])
    BY ScheduleStep DEF Inv, TypeOK
  <2>2. ASSUME NEW s \in Slots, tasks'[s].reap_ready, tasks'[s].parent_pid # 0
        PROVE  tasks'[s].pid \in (reported \cup reportFailed)'
    <3>1. ts[s].reap_ready /\ ts[s].pid = tasks'[s].pid /\ ts[s].parent_pid = tasks'[s].parent_pid
      BY <1>1, <2>1, <2>2, SlotReap
    <3> QED BY <2>2, <3>1 DEF SettledIn
  <2> QED BY <2>2 DEF SettledIn
<1> QED BY <1>1, <1>2, <1>3, <1>4 DEF Inv

\* What the invariant says of the table a handler that edits nothing passes on.
LEMMA RunningTable ==
  ASSUME Inv, current_task # NoTask
  PROVE  /\ current_task \in Slots /\ tasks \in [Slots -> Task]
         /\ tasks[current_task].state = "RUNNING" /\ OnlyCurrent(tasks)
         /\ UserRunning => current_task # idle_task
BY DEF Inv, TypeOK, CurrentRuns, OnlyCurrent, IdleReady, UserRunning

\* A call that only changes how the calling user task waits.
LEMMA WaitingTable ==
  ASSUME Inv, UserRunning, NEW rec \in Task,
         rec.state \in {"SLEEPING", "BLOCKED"},
         rec.kind = tasks[current_task].kind, rec.pid = tasks[current_task].pid,
         rec.parent_pid = tasks[current_task].parent_pid,
         rec.reap_ready = tasks[current_task].reap_ready,
         rec.state = "BLOCKED" /\ rec.block_reason = "WAITPID" =>
           /\ \E c \in Slots : Live(tasks, c) /\ WaitMatches(tasks, current_task, c, rec.wait_target_pid)
           /\ \A c \in Slots : WaitMatches(tasks, current_task, c, rec.wait_target_pid)
                                => tasks[c].state # "ZOMBIE"
  PROVE  LET ts == [tasks EXCEPT ![current_task] = rec]
         IN  /\ ts \in [Slots -> Task] /\ ts[current_task].state # "UNUSED"
             /\ OnlyCurrent(ts) /\ IdleReady(ts) /\ Family(ts)
             /\ SettledIn(ts, reported \cup reportFailed)
<1> DEFINE ts == [tasks EXCEPT ![current_task] = rec]
<1>1. /\ current_task \in Slots /\ tasks \in [Slots -> Task]
      /\ tasks[current_task].state = "RUNNING" /\ OnlyCurrent(tasks)
      /\ current_task # idle_task
  BY RunningTable DEF UserRunning
<1>2. /\ ts \in [Slots -> Task] /\ ts[current_task] = rec
      /\ \A s \in Slots : s # current_task => ts[s] = tasks[s]
  BY <1>1
<1> HIDE DEF ts
<1>3. OnlyCurrent(ts) /\ IdleReady(ts)
  BY <1>1, <1>2 DEF OnlyCurrent, IdleReady, Inv
<1>4. \A s \in Slots : /\ ts[s].pid = tasks[s].pid /\ ts[s].parent_pid = tasks[s].parent_pid
                       /\ ts[s].kind = tasks[s].kind /\ ts[s].reap_ready = tasks[s].reap_ready
                       /\ ts[s].state = "UNUSED" <=> tasks[s].state = "UNUSED"
                       /\ ts[s].state = "ZOMBIE" <=> tasks[s].state = "ZOMBIE"
  BY <1>1, <1>2
<1>5. PidsIn(ts) /\ ParentsIn(ts) /\ InitIn(ts)
  <2>1. PidsIn(ts)
    BY <1>4, InvParts DEF PidsIn
  <2>2. ParentsIn(ts)
    BY <1>4, InvParts DEF ParentsIn, Live
  <2>3. InitIn(ts)
    BY <1>4, InvParts DEF InitIn, TypeOK
  <2> QED BY <2>1, <2>2, <2>3
<1>6. ReapIn(ts) /\ SettledIn(ts, reported \cup reportFailed)
  BY <1>4, InvParts, Zenon DEF ReapIn, SettledIn
<1>7. WaitersIn(ts)
  <2> SUFFICES ASSUME NEW p \in Slots, ts[p].state = "BLOCKED", ts[p].block_reason = "WAITPID"
               PROVE  \E c \in Slots : Live(ts, c) /\ WaitMatches(ts, p, c, ts[p].wait_target_pid)
    BY DEF WaitersIn
  <2>1. PICK c \in Slots : Live(tasks, c) /\ WaitMatches(tasks, p, c, ts[p].wait_target_pid)
    BY <1>2, InvParts DEF WaitersIn
  <2> QED BY <1>4, <2>1 DEF Live, WaitMatches
<1>8. MissedIn(ts)
  <2> SUFFICES ASSUME NEW p \in Slots, NEW c \in Slots, p # init_task, Waits(ts, p, c)
               PROVE  ts[c].state # "ZOMBIE"
    BY DEF MissedIn
  <2>1. WaitMatches(tasks, p, c, ts[p].wait_target_pid)
    BY <1>4 DEF Waits, WaitMatches
  <2>2. CASE p = current_task
    BY <1>2, <1>4, <2>1, <2>2 DEF Waits
  <2>3. CASE p # current_task
    <3>1. Waits(tasks, p, c)
      BY <1>2, <2>1, <2>3 DEF Waits
    <3> QED BY <1>4, <3>1, InvParts DEF MissedIn
  <2> QED BY <2>2, <2>3
<1> QED BY <1>2, <1>3, <1>5, <1>6, <1>7, <1>8 DEF Family, ts

-----------------------------------------------------------------------------
(* The initial state and the actions *)

\* A task as created at boot or by fork is well typed.
LEMMA BootTaskIsTask ==
  ASSUME NEW kind \in {"KERNEL", "USER"}, NEW pid \in 0 .. MaxPid
  PROVE  BootTask(kind, pid) \in Task
BY UnusedIsTask, Zenon DEF BootTask, Unused, Task, States

\* The table that proc_init and proc_start_boot_tasks build satisfies the invariant.
LEMMA InitInv == Init => Inv
<1>0. SUFFICES ASSUME NEW initLoaded \in BOOLEAN,
                    tasks = BootTable(initLoaded),
                    current_task = NoTask,
                    idle_task = 0,
                    init_task = (IF initLoaded THEN 1 ELSE NoTask),
                    next_pid = (IF initLoaded THEN 3 ELSE 2) + Workers,
                    tick_count = 0, hardware_tick_seen = FALSE,
                    reported = {}, reportedAgain = {}, reportFailed = {}
             PROVE  Inv
  BY Zenon DEF Init
<1> DEFINE booted == 1 + (IF initLoaded THEN 1 ELSE 0) + Workers
<1>1. /\ booted \in Nat /\ booted <= MAX_TASKS /\ booted <= MaxPid /\ next_pid = booted + 1
      /\ MAX_TASKS \in Nat /\ MaxPid \in Nat /\ booted >= 1
      /\ initLoaded => booted >= 2
  BY <1>0, TableAssumption DEF TableAssumption
<1>2. \A s \in Slots :
        tasks[s] = IF s < booted
                     THEN BootTask(IF initLoaded /\ s = 1 THEN "USER" ELSE "KERNEL", s + 1)
                     ELSE Unused
  BY <1>0 DEF BootTable
<1> HIDE DEF booted
<1>4. ASSUME NEW s \in Slots
      PROVE  /\ tasks[s] \in Task /\ tasks[s].parent_pid = 0 /\ tasks[s].reap_ready = FALSE
             /\ tasks[s].state = (IF s < booted THEN "RUNNABLE" ELSE "UNUSED")
             /\ s < booted => tasks[s].pid = s + 1
             /\ s < booted /\ s # 1 => tasks[s].kind = "KERNEL"
             /\ s < booted /\ s = 1 /\ initLoaded => tasks[s].kind = "USER"
  <2>1. CASE s < booted
    <3>1. s + 1 \in 0 .. MaxPid
      BY <1>1, <2>1 DEF Slots
    <3> DEFINE kind == IF initLoaded /\ s = 1 THEN "USER" ELSE "KERNEL"
    <3>2. kind \in {"KERNEL", "USER"} /\ tasks[s] = BootTask(kind, s + 1)
      BY <1>2, <2>1
    <3> HIDE DEF kind
    <3>3. tasks[s] \in Task
      BY <3>1, <3>2, BootTaskIsTask
    <3>4. /\ tasks[s].state = "RUNNABLE" /\ tasks[s].kind = kind /\ tasks[s].pid = s + 1
          /\ tasks[s].parent_pid = 0 /\ tasks[s].reap_ready = FALSE
      BY <3>2 DEF BootTask, Unused
    <3> QED BY <2>1, <3>3, <3>4 DEF kind
  <2>2. CASE ~(s < booted)
    BY <1>2, <2>2, UnusedIsTask DEF Unused
  <2> QED BY <2>1, <2>2, Zenon
<1>5. tasks \in [Slots -> Task]
  <2>1. tasks = [s \in Slots |-> tasks[s]]
    BY <1>0 DEF BootTable
  <2> QED BY <1>4, <2>1, Zenon
<1>6. 0 \in Slots /\ (initLoaded => 1 \in Slots)
  BY <1>1 DEF Slots
<1>7. TypeOK
  <2>1. init_task \in Slots \cup {NoTask} /\ next_pid \in 1 .. MaxPid + 1
    BY <1>0, <1>1, <1>6
  <2> QED BY <1>0, <1>5, <1>6, <2>1, ZeroTick, Zenon DEF TypeOK
<1>8. IdleReady(tasks) /\ InitIn(tasks)
  <2>1. IdleReady(tasks)
    <3>1. 0 \in Slots /\ 0 < booted
      BY <1>1, <1>6
    <3>2. tasks[0].state = "RUNNABLE"
      BY <1>4, <3>1, Zenon
    <3>3. tasks[0].kind = "KERNEL"
      BY <1>4, <3>1, 0 # 1, Zenon
    <3> QED BY <1>0, <3>1, <3>2, <3>3 DEF IdleReady
  <2>2. CASE initLoaded
    <3>1. init_task = 1 /\ 1 \in Slots /\ 1 < booted
      BY <1>0, <1>1, <1>6, <2>2
    <3>2. tasks[1].state = "RUNNABLE" /\ tasks[1].kind = "USER"
      BY <1>4, <2>2, <3>1, Zenon
    <3> QED BY <2>1, <3>1, <3>2 DEF InitIn
  <2>3. CASE ~initLoaded
    BY <1>0, <2>1, <2>3 DEF InitIn
  <2> QED BY <2>2, <2>3
<1>9. Booting /\ CurrentRuns /\ IdleIsLast
  BY <1>0, <1>4, Zenon DEF Booting, CurrentRuns, IdleIsLast
<1>10. PidsIn(tasks)
  <2> SUFFICES ASSUME NEW s \in Slots, NEW t \in Slots, tasks[s].state # "UNUSED"
               PROVE  /\ tasks[s].pid \in 1 .. next_pid - 1
                      /\ tasks[t].state # "UNUSED" /\ tasks[s].pid = tasks[t].pid => s = t
    BY DEF PidsIn
  <2>1. s < booted /\ tasks[s].pid = s + 1 /\ s \in Nat /\ t \in Nat
    <3>1. s < booted
      BY <1>4, Zenon
    <3>2. tasks[s].pid = s + 1
      BY <1>4, <3>1, Zenon
    <3> QED BY <1>1, <3>1, <3>2 DEF Slots
  <2>2. tasks[t].state # "UNUSED" => tasks[t].pid = t + 1
    BY <1>4, Zenon
  <2> QED BY <1>1, <2>1, <2>2
<1>11. ParentsIn(tasks) /\ WaitersIn(tasks) /\ MissedIn(tasks)
  BY <1>4, Zenon DEF ParentsIn, WaitersIn, MissedIn, Waits
<1>12. ReapIn(tasks) /\ SettledIn(tasks, reported \cup reportFailed) /\ OneUncollected
  BY <1>4, Zenon DEF ReapIn, SettledIn, OneUncollected
<1> QED BY <1>7, <1>8, <1>9, <1>10, <1>11, <1>12 DEF Inv, Family

\* The timer interrupt preserves the invariant.
LEMMA TimerInv == Inv /\ TimerInterrupt => Inv'
<1> SUFFICES ASSUME Inv, TimerInterrupt PROVE Inv'
  OBVIOUS
<1>1. TickSum(tick_count, 1) \in 0 .. TickWrap - 1
  BY OneTick, TickInRange DEF Inv, TypeOK
<1>2. /\ Schedule(tasks, TickSum(tick_count, 1)) /\ current_task # NoTask
      /\ UNCHANGED <<next_pid, reported, reportedAgain, reportFailed>>
      /\ tick_count' \in 0 .. TickWrap - 1 /\ hardware_tick_seen' \in BOOLEAN
  BY <1>1 DEF TimerInterrupt, history
<1>3. /\ current_task \in Slots /\ tasks \in [Slots -> Task]
      /\ tasks[current_task].state # "UNUSED" /\ OnlyCurrent(tasks)
  BY <1>2, RunningTable
<1> QED BY <1>2, <1>3, HandlerKeepsInv, Zenon DEF Inv, TypeOK

\* A system call that ends in proc_schedule leaves the clock in range.
LEMMA SyscallClock ==
  ASSUME Inv, NEW ts, SyscallSchedule(ts)
  PROVE  /\ Schedule(ts, EnsuredTick)
         /\ tick_count' \in 0 .. TickWrap - 1 /\ hardware_tick_seen' \in BOOLEAN
BY OneTick, TickInRange DEF SyscallSchedule, EnsuredTick, Inv, TypeOK

\* yield preserves the invariant.
LEMMA YieldInv == Inv /\ Yield => Inv'
<1> SUFFICES ASSUME Inv, Yield PROVE Inv'
  OBVIOUS
<1>1. /\ SyscallSchedule(tasks) /\ current_task # NoTask
      /\ UNCHANGED <<next_pid, reported, reportedAgain, reportFailed>>
  BY DEF Yield, history
<1>2. /\ current_task \in Slots /\ tasks \in [Slots -> Task]
      /\ tasks[current_task].state # "UNUSED" /\ OnlyCurrent(tasks)
  BY <1>1, RunningTable
<1> QED BY <1>1, <1>2, SyscallClock, HandlerKeepsInv DEF Inv, TypeOK

\* Sleep, BlockOn and WaitpidBlock: the caller waits, as rec says.
LEMMA WaitingInv ==
  ASSUME Inv, UserRunning, NEW rec \in Task,
         rec.state \in {"SLEEPING", "BLOCKED"},
         rec.kind = tasks[current_task].kind, rec.pid = tasks[current_task].pid,
         rec.parent_pid = tasks[current_task].parent_pid,
         rec.reap_ready = tasks[current_task].reap_ready,
         rec.state = "BLOCKED" /\ rec.block_reason = "WAITPID" =>
           /\ \E c \in Slots : Live(tasks, c) /\ WaitMatches(tasks, current_task, c, rec.wait_target_pid)
           /\ \A c \in Slots : WaitMatches(tasks, current_task, c, rec.wait_target_pid)
                                => tasks[c].state # "ZOMBIE",
         SyscallSchedule([tasks EXCEPT ![current_task] = rec]),
         UNCHANGED <<next_pid, history>>
  PROVE  Inv'
<1> DEFINE ts == [tasks EXCEPT ![current_task] = rec]
<1>1. /\ ts \in [Slots -> Task] /\ ts[current_task].state # "UNUSED"
      /\ OnlyCurrent(ts) /\ IdleReady(ts) /\ Family(ts)
      /\ SettledIn(ts, reported \cup reportFailed)
  BY WaitingTable
<1>2. current_task \in Slots
  BY RunningTable DEF UserRunning
<1>3. SyscallSchedule(ts) /\ UNCHANGED <<next_pid, reported, reportedAgain, reportFailed>>
  BY DEF history
<1> HIDE DEF ts
<1> QED BY <1>1, <1>2, <1>3, SyscallClock, HandlerKeepsInv, Zenon DEF Inv, TypeOK

\* sleep preserves the invariant.
LEMMA SleepInv == ASSUME NEW ticks \in SleepTicks PROVE Inv /\ Sleep(ticks) => Inv'
<1> SUFFICES ASSUME Inv, Sleep(ticks) PROVE Inv'
  OBVIOUS
<1> DEFINE rec == [tasks[current_task] EXCEPT !.wake_tick = TickSum(tick_count, ticks),
                                              !.state = "SLEEPING"]
<1>1. /\ UserRunning /\ current_task \in Slots /\ tasks[current_task] \in Task
  BY RunningTable DEF Sleep, UserRunning
<1>2. TickSum(tick_count, ticks) \in 0 .. TickWrap - 1
  BY TickInRange, TickAssumption DEF TickAssumption, Inv, TypeOK
<1>3. /\ rec \in Task /\ rec.state = "SLEEPING"
      /\ rec.kind = tasks[current_task].kind /\ rec.pid = tasks[current_task].pid
      /\ rec.parent_pid = tasks[current_task].parent_pid
      /\ rec.reap_ready = tasks[current_task].reap_ready
  BY <1>1, <1>2, Zenon DEF Task, States
<1>4. SyscallSchedule([tasks EXCEPT ![current_task] = rec]) /\ UNCHANGED <<next_pid, history>>
  BY Zenon DEF Sleep
<1> HIDE DEF rec
<1> QED BY <1>1, <1>3, <1>4, WaitingInv

\* Blocking in read, write or ping4 preserves the invariant.
LEMMA BlockOnInv == ASSUME NEW reason \in DeviceReasons PROVE Inv /\ BlockOn(reason) => Inv'
<1> SUFFICES ASSUME Inv, BlockOn(reason) PROVE Inv'
  OBVIOUS
<1> DEFINE rec == [tasks[current_task] EXCEPT !.block_reason = reason, !.state = "BLOCKED"]
<1>1. /\ UserRunning /\ current_task \in Slots /\ tasks[current_task] \in Task
  BY RunningTable DEF BlockOn, UserRunning
<1>2. /\ rec \in Task /\ rec.state = "BLOCKED" /\ rec.block_reason = reason
      /\ rec.kind = tasks[current_task].kind /\ rec.pid = tasks[current_task].pid
      /\ rec.parent_pid = tasks[current_task].parent_pid
      /\ rec.reap_ready = tasks[current_task].reap_ready
  BY <1>1, Zenon DEF Task, States
<1>3. SyscallSchedule([tasks EXCEPT ![current_task] = rec]) /\ UNCHANGED <<next_pid, history>>
  BY Zenon DEF BlockOn
<1>4. reason # "WAITPID"
  BY ReasonAssumption DEF ReasonAssumption
<1> HIDE DEF rec
<1> QED BY <1>1, <1>2, <1>3, <1>4, WaitingInv

\* Blocking in waitpid preserves the invariant: the caller has a matching child
\* and none of them is a zombie.
LEMMA WaitpidBlockInv ==
  ASSUME NEW target \in Pids \cup {AnyChild} PROVE Inv /\ WaitpidBlock(target) => Inv'
<1> SUFFICES ASSUME Inv, WaitpidBlock(target) PROVE Inv'
  OBVIOUS
<1> DEFINE rec == [tasks[current_task] EXCEPT !.wait_target_pid = target,
                                              !.block_reason = "WAITPID", !.state = "BLOCKED"]
<1>1. /\ UserRunning /\ current_task \in Slots /\ tasks[current_task] \in Task
  BY RunningTable DEF WaitpidBlock, UserRunning
<1>2. /\ rec \in Task /\ rec.state = "BLOCKED" /\ rec.wait_target_pid = target
      /\ rec.kind = tasks[current_task].kind /\ rec.pid = tasks[current_task].pid
      /\ rec.parent_pid = tasks[current_task].parent_pid
      /\ rec.reap_ready = tasks[current_task].reap_ready
  BY <1>1, Zenon DEF Task, States
<1>3. SyscallSchedule([tasks EXCEPT ![current_task] = rec]) /\ UNCHANGED <<next_pid, history>>
  BY Zenon DEF WaitpidBlock
<1>4. \A c \in Slots : WaitMatches(tasks, current_task, c, target) => tasks[c].state # "ZOMBIE"
  <2>1. FindZombieChild(current_task, target, NoTask)
    BY DEF WaitpidBlock
  <2> QED BY <2>1 DEF FindZombieChild, IsFirst, NoTask, Slots
<1>5. \E c \in Slots : Live(tasks, c) /\ WaitMatches(tasks, current_task, c, target)
  <2>1. PICK c \in Slots : WaitMatches(tasks, current_task, c, target)
    BY DEF WaitpidBlock
  <2> QED BY <1>4, <2>1 DEF Live, WaitMatches
<1> HIDE DEF rec
<1> QED BY <1>1, <1>2, <1>3, <1>4, <1>5, WaitingInv

\* Entering the first task establishes the running half of the invariant.
LEMMA EnterInitialTaskInv == Inv /\ EnterInitialTask => Inv'
<1> SUFFICES ASSUME Inv, EnterInitialTask PROVE Inv'
  OBVIOUS
<1>1. PICK next \in Slots : PickNext(tasks, next) /\ Activate(tasks, next)
  BY DEF EnterInitialTask
<1>2. /\ tasks \in [Slots -> Task] /\ current_task = NoTask
      /\ \A s \in Slots : tasks[s].state \in {"UNUSED", "RUNNABLE"}
      /\ tasks' = [tasks EXCEPT ![next].state = "RUNNING"] /\ current_task' = next
      /\ UNCHANGED <<idle_task, init_task, next_pid, tick_count, hardware_tick_seen,
                     reported, reportedAgain, reportFailed>>
  BY <1>1 DEF EnterInitialTask, Activate, Inv, TypeOK, Booting, clock, history
<1>3. tasks[next].state = "RUNNABLE"
  BY <1>1, <1>2 DEF PickNext, Inv, IdleReady, NoTask, Slots
<1>4. [tasks[next] EXCEPT !.state = "RUNNING"] \in Task
  BY <1>2, StateChange, Zenon DEF States
<1>5. /\ tasks' \in [Slots -> Task]
      /\ tasks'[next] = [tasks[next] EXCEPT !.state = "RUNNING"]
      /\ \A s \in Slots : s # next => tasks'[s] = tasks[s]
  BY <1>2, <1>4
<1>6. \A s \in Slots : SlotStep(tasks[s], tasks'[s])
  <2>1. SlotStep(tasks[next], tasks'[next])
    BY <1>2, <1>3, <1>5 DEF SlotStep, Task
  <2>2. ASSUME NEW s \in Slots, s # next PROVE SlotStep(tasks[s], tasks'[s])
    BY <1>2, <1>5, <2>2 DEF SlotStep
  <2> QED BY <2>1, <2>2
<1> DEFINE us == tasks'
<1> HIDE DEF us
<1>7. PidsIn(us) /\ ParentsIn(us) /\ WaitersIn(us) /\ MissedIn(us) /\ ReapIn(us)
  BY <1>2, <1>5, <1>6, FamilyStep, Zenon DEF Inv, us
<1>8. /\ us \in [Slots -> Task] /\ us[next].state = "RUNNING"
      /\ \A s \in Slots : /\ us[s].state # "ZOMBIE"
                          /\ us[s].state = "RUNNING" <=> s = next
                          /\ us[s].state = "RUNNABLE" => tasks[s].state = "RUNNABLE"
                          /\ us[s].kind = tasks[s].kind
                          /\ us[s].state = "UNUSED" <=> tasks[s].state = "UNUSED"
  <2>1. us[next].state = "RUNNING" /\ us[next].kind = tasks[next].kind
    BY <1>2, <1>5 DEF us, Task
  <2> QED BY <1>2, <1>3, <1>5, <2>1 DEF us
<1>9. TypeOK' /\ Booting'
  BY <1>2, <1>5 DEF Inv, TypeOK, Booting, NoTask, Slots
<1>10. IdleReady(tasks)'
  <2>1. idle_task \in Slots /\ us[idle_task].kind = "KERNEL" /\ us[idle_task].state \in {"RUNNABLE", "RUNNING"}
    BY <1>2, <1>3, <1>5, <1>8 DEF Inv, IdleReady, us
  <2> QED BY <1>2, <2>1 DEF IdleReady, us
<1>11. CurrentRuns' /\ IdleIsLast'
  <2>1. CurrentRuns'
    BY <1>2, <1>8 DEF CurrentRuns, us
  <2>2. ASSUME next = idle_task, NEW s \in Slots, us[s].state = "RUNNABLE" PROVE s = idle_task
    <3> SUFFICES ASSUME s # idle_task PROVE FALSE
      OBVIOUS
    <3>1. tasks[s].state = "RUNNABLE"
      BY <1>8, <2>2
    <3> QED BY <1>1, <2>2, <3>1 DEF PickNext
  <2> QED BY <1>2, <2>1, <2>2 DEF IdleIsLast, us
<1>12. OneUncollected' /\ SettledIn(tasks, reported \cup reportFailed)'
  <2>1. \A s \in Slots : ~us[s].reap_ready
    BY <1>7, <1>8, Zenon DEF ReapIn
  <2> QED BY <2>1, Zenon DEF OneUncollected, SettledIn, us
<1>13. InitIn(tasks)'
  BY <1>2, <1>8 DEF Inv, TypeOK, Family, InitIn, us
<1>14. Family(tasks)'
  BY <1>2, <1>7, <1>13 DEF Family, PidsIn, ParentsIn, WaitersIn, MissedIn, ReapIn, Live, Waits, WaitMatches, us
<1> QED BY <1>9, <1>10, <1>11, <1>12, <1>14 DEF Inv

\* Fork and WaitpidCollect replace one slot d that holds no live task.
LEMMA ReplacedTable ==
  ASSUME Inv, UserRunning, NEW d \in Slots, ~Live(tasks, d), NEW rec \in Task,
         tasks' = [tasks EXCEPT ![d] = rec],
         rec.state \in {"UNUSED", "RUNNABLE"}, rec.reap_ready = FALSE,
         rec.state = "RUNNABLE" => rec.parent_pid = tasks[current_task].pid,
         UNCHANGED <<current_task, idle_task, clock>>,
         init_task' = Pointer(init_task, tasks'),
         next_pid' \in 1 .. MaxPid + 1, reported' \subseteq Pids,
         reportedAgain' \subseteq Pids, reportFailed' \subseteq Pids,
         reported \subseteq reported', reportFailed \subseteq reportFailed',
         PidsIn(tasks)', rec.state = "RUNNABLE" => init_task # d
  PROVE  Inv'
<1> DEFINE us == tasks'
<1>1. /\ current_task \in Slots /\ tasks \in [Slots -> Task]
      /\ tasks[current_task].state = "RUNNING" /\ current_task # idle_task
      /\ tasks[current_task].kind = "USER"
      /\ d # current_task /\ d # idle_task
  BY RunningTable DEF UserRunning, Live, Inv, IdleReady
<1>2. /\ us \in [Slots -> Task] /\ us[d] = rec
      /\ \A s \in Slots : s # d => us[s] = tasks[s]
  BY <1>1
<1> HIDE DEF us
<1>3. TypeOK'
  <2>1. init_task' \in Slots \cup {NoTask}
    BY Zenon DEF Pointer, Inv, TypeOK
  <2> QED BY <1>2, <2>1 DEF Inv, TypeOK, clock, us
<1>4. IdleReady(tasks)' /\ Booting' /\ CurrentRuns' /\ IdleIsLast'
  <2>1. IdleReady(tasks)'
    BY <1>1, <1>2 DEF Inv, IdleReady, us
  <2>2. Booting' /\ IdleIsLast'
    BY <1>1 DEF Booting, IdleIsLast, NoTask, Slots
  <2>3. CurrentRuns'
    BY <1>1, <1>2 DEF Inv, CurrentRuns, NoTask, Slots, us
  <2> QED BY <2>1, <2>2, <2>3, Zenon
<1>5. ReapIn(tasks)' /\ OneUncollected' /\ SettledIn(tasks, reported \cup reportFailed)'
  <2>1. ASSUME NEW s \in Slots, us[s].reap_ready PROVE s # d /\ us[s] = tasks[s]
    BY <1>2, <2>1
  <2>2. ReapIn(tasks)'
    BY <2>1, InvParts, Zenon DEF ReapIn, us
  <2>3. OneUncollected'
    BY <2>1, Zenon DEF Inv, OneUncollected, us
  <2>4. ASSUME NEW s \in Slots, us[s].reap_ready, us[s].parent_pid # 0
        PROVE  us[s].pid \in (reported \cup reportFailed)'
    <3>1. tasks[s].pid \in reported \cup reportFailed
      BY <2>1, <2>4, InvParts, Zenon DEF SettledIn
    <3> QED BY <2>1, <2>4, <3>1
  <2>5. SettledIn(tasks, reported \cup reportFailed)'
    BY <2>4, Zenon DEF SettledIn, us
  <2> QED BY <2>2, <2>3, <2>5
<1>6. ParentsIn(us)
  <2> SUFFICES ASSUME NEW s \in Slots, us[s].state # "UNUSED", us[s].parent_pid # 0
               PROVE  \E p \in Slots : /\ Live(us, p) /\ us[p].kind = "USER"
                                       /\ us[p].pid = us[s].parent_pid
    BY DEF ParentsIn
  <2>1. CASE s = d
    BY <1>1, <1>2, <2>1 DEF Live
  <2>2. CASE s # d
    <3>1. PICK p \in Slots : /\ Live(tasks, p) /\ tasks[p].kind = "USER"
                             /\ tasks[p].pid = tasks[s].parent_pid
      BY <1>2, <2>2, InvParts DEF ParentsIn
    <3> QED BY <1>2, <2>2, <3>1 DEF Live
  <2> QED BY <2>1, <2>2
<1>7. WaitersIn(us)
  <2> SUFFICES ASSUME NEW p \in Slots, us[p].state = "BLOCKED", us[p].block_reason = "WAITPID"
               PROVE  \E c \in Slots : Live(us, c) /\ WaitMatches(us, p, c, us[p].wait_target_pid)
    BY DEF WaitersIn
  <2>1. p # d
    BY <1>2
  <2>2. PICK c \in Slots : Live(tasks, c) /\ WaitMatches(tasks, p, c, tasks[p].wait_target_pid)
    BY <1>2, <2>1, InvParts DEF WaitersIn
  <2> QED BY <1>2, <2>1, <2>2 DEF Live, WaitMatches
<1>8. \A p, c \in Slots : p # init_task' /\ Waits(us, p, c) => us[c].state # "ZOMBIE"
  <2> SUFFICES ASSUME NEW p \in Slots, NEW c \in Slots, p # init_task', Waits(us, p, c),
                      us[c].state = "ZOMBIE"
               PROVE  FALSE
    BY Zenon
  <2>1. p # d /\ c # d
    BY <1>2 DEF Waits
  <2>2. Waits(tasks, p, c) /\ tasks[c].state = "ZOMBIE"
    BY <1>2, <2>1 DEF Waits, WaitMatches
  <2>3. p # init_task
    BY <1>2, <2>1 DEF Pointer, Waits, us
  <2> QED BY <2>2, <2>3, InvParts, Zenon DEF MissedIn
<1>9. InitIn(tasks)'
  <2> SUFFICES ASSUME init_task' # NoTask
               PROVE  us[init_task'].state # "UNUSED" /\ us[init_task'].kind = "USER"
    BY DEF InitIn, us
  <2>1. init_task' = init_task /\ init_task \in Slots /\ us[init_task].state # "UNUSED"
    BY DEF Pointer, Inv, TypeOK, us
  <2>2. init_task # d
    BY <1>2, <2>1
  <2> QED BY <1>2, <2>1, <2>2, InvParts DEF InitIn
<1>10. Family(tasks)'
  BY <1>5, <1>6, <1>7, <1>8, <1>9, Zenon DEF Family, ParentsIn, WaitersIn, MissedIn, Live, Waits, WaitMatches, us
<1> QED BY <1>3, <1>4, <1>5, <1>10 DEF Inv

\* fork preserves the invariant.
LEMMA ForkInv == Inv /\ Fork => Inv'
<1> SUFFICES ASSUME Inv, Fork PROVE Inv'
  OBVIOUS
<1> DEFINE rec == [BootTask("USER", next_pid) EXCEPT !.parent_pid = tasks[current_task].pid]
<1>1. PICK child \in Slots : FindUnused(tasks, child) /\ tasks' = [tasks EXCEPT ![child] = rec]
  BY Zenon DEF Fork
<1>2. /\ UserRunning /\ current_task \in Slots /\ tasks \in [Slots -> Task]
      /\ next_pid <= MaxPid /\ next_pid' = next_pid + 1 /\ next_pid \in 1 .. MaxPid
      /\ next_pid \in Nat /\ MaxPid \in Nat
      /\ UNCHANGED <<current_task, idle_task, init_task, clock, reported, reportedAgain, reportFailed>>
  BY RunningTable, TableAssumption DEF TableAssumption, Fork, UserRunning, Inv, TypeOK, history
<1>3. tasks[child].state = "UNUSED"
  BY <1>1 DEF FindUnused, IsFirst, NoTask, Slots
<1>4. /\ rec \in Task /\ rec.state = "RUNNABLE" /\ rec.reap_ready = FALSE
      /\ rec.pid = next_pid /\ rec.parent_pid = tasks[current_task].pid
  <2>1. BootTask("USER", next_pid) \in Task
    BY <1>2, BootTaskIsTask
  <2>2. tasks[current_task].pid \in 0 .. MaxPid
    BY <1>2 DEF Task
  <2>3. rec \in Task
    BY <2>1, <2>2 DEF Task
  <2> QED BY <2>3 DEF BootTask, Unused
<1> HIDE DEF rec
<1>5. /\ tasks'[child] = rec
      /\ \A s \in Slots : s # child => tasks'[s] = tasks[s]
  BY <1>1, <1>2
<1>6. PidsIn(tasks)'
  <2> SUFFICES ASSUME NEW s \in Slots, NEW t \in Slots, tasks'[s].state # "UNUSED"
               PROVE  /\ tasks'[s].pid \in 1 .. next_pid' - 1
                      /\ tasks'[t].state # "UNUSED" /\ tasks'[s].pid = tasks'[t].pid => s = t
    BY DEF PidsIn
  <2>1. \A r \in Slots : tasks'[r].state # "UNUSED" /\ r # child => tasks'[r].pid \in 1 .. next_pid - 1
    BY <1>5, InvParts DEF PidsIn
  <2>2. tasks'[child].pid = next_pid
    BY <1>4, <1>5
  <2>3. tasks'[s].pid \in 1 .. next_pid' - 1
    BY <1>2, <2>1, <2>2
  <2>4. ASSUME tasks'[t].state # "UNUSED", tasks'[s].pid = tasks'[t].pid PROVE s = t
    <3>1. CASE s = child \/ t = child
      BY <1>2, <2>1, <2>2, <2>4, <3>1
    <3>2. CASE s # child /\ t # child
      BY <1>5, <2>4, <3>2, InvParts DEF PidsIn
    <3> QED BY <3>1, <3>2
  <2> QED BY <2>3, <2>4
<1>7. init_task # child
  BY <1>3, InvParts DEF InitIn, NoTask, Slots
<1>8. init_task' = Pointer(init_task, tasks')
  BY <1>2, <1>5, <1>7, InvParts DEF Pointer, InitIn, NoTask, Slots
<1>9. next_pid' \in 1 .. MaxPid + 1
  BY <1>2
<1> QED BY <1>1, <1>2, <1>3, <1>4, <1>6, <1>7, <1>8, <1>9, ReplacedTable, Zenon DEF Live, Inv, TypeOK

\* A waitpid that finds a zombie preserves the invariant.
LEMMA WaitpidCollectInv ==
  ASSUME NEW target \in Pids \cup {AnyChild} PROVE Inv /\ WaitpidCollect(target) => Inv'
<1> SUFFICES ASSUME Inv, WaitpidCollect(target) PROVE Inv'
  OBVIOUS
<1>1. PICK child \in Slots : /\ FindZombieChild(current_task, target, child)
                             /\ tasks' = [tasks EXCEPT ![child] = Unused]
                             /\ Report({tasks[child].pid})
  BY Zenon DEF WaitpidCollect
<1>2. /\ UserRunning /\ current_task \in Slots /\ tasks \in [Slots -> Task]
      /\ UNCHANGED <<current_task, next_pid, clock, reportFailed>>
      /\ idle_task' = Pointer(idle_task, tasks') /\ init_task' = Pointer(init_task, tasks')
  BY RunningTable DEF WaitpidCollect, UserRunning
<1>3. tasks[child].state = "ZOMBIE"
  BY <1>1 DEF FindZombieChild, IsFirst, NoTask, Slots
<1>4. Unused \in Task /\ Unused.state = "UNUSED" /\ Unused.reap_ready = FALSE
  BY UnusedIsTask DEF Unused
<1>5. /\ tasks'[child] = Unused
      /\ \A s \in Slots : s # child => tasks'[s] = tasks[s]
  BY <1>1, <1>2
<1>6. idle_task' = idle_task
  BY <1>2, <1>3, <1>5, InvParts, Zenon DEF Pointer, IdleReady
<1>7. PidsIn(tasks)'
  <2> SUFFICES ASSUME NEW s \in Slots, NEW t \in Slots, tasks'[s].state # "UNUSED"
               PROVE  /\ tasks'[s].pid \in 1 .. next_pid - 1
                      /\ tasks'[t].state # "UNUSED" /\ tasks'[s].pid = tasks'[t].pid => s = t
    BY <1>2 DEF PidsIn
  <2>1. s # child /\ tasks'[s] = tasks[s] /\ (tasks'[t].state # "UNUSED" => tasks'[t] = tasks[t])
    BY <1>4, <1>5
  <2> QED BY <2>1, InvParts DEF PidsIn
<1>8. tasks[child].pid \in Pids
  BY <1>3, TableAssumption, InvParts DEF TableAssumption, PidsIn, TypeOK, Pids
<1>9. /\ reported' \subseteq Pids /\ reportedAgain' \subseteq Pids /\ reported \subseteq reported'
  BY <1>1, <1>8 DEF Report, Inv, TypeOK
<1>10. next_pid' \in 1 .. MaxPid + 1 /\ reportFailed' \subseteq Pids
  BY <1>2 DEF Inv, TypeOK
<1> QED BY <1>1, <1>2, <1>3, <1>4, <1>6, <1>7, <1>9, <1>10, ReplacedTable, Zenon DEF Live

-----------------------------------------------------------------------------
(* exit *)

\* The children of the exiting task, and no other task, get a new parent: init,
\* which is alive and not the task that exits, or nobody.
LEMMA Reparented ==
  ASSUME Inv, UserRunning
  PROVE  LET r == ReparentChildren(tasks, current_task)
         IN  /\ r \in [Slots -> Task]
             /\ \A s \in Slots :
                  /\ r[s].state = tasks[s].state /\ r[s].kind = tasks[s].kind
                  /\ r[s].pid = tasks[s].pid /\ r[s].block_reason = tasks[s].block_reason
                  /\ r[s].wait_target_pid = tasks[s].wait_target_pid
                  /\ r[s].reap_ready => tasks[s].reap_ready
                                       \/ (tasks[s].state = "ZOMBIE" /\ r[s].parent_pid = 0)
                  /\ \/ r[s].parent_pid = 0
                     \/ /\ r[s].parent_pid = tasks[s].parent_pid
                        /\ tasks[s].state # "UNUSED" => tasks[s].parent_pid # tasks[current_task].pid
                     \/ /\ init_task \in Slots /\ init_task # current_task
                        /\ Live(tasks, init_task) /\ r[s].parent_pid = tasks[init_task].pid
                        /\ tasks[s].parent_pid = tasks[current_task].pid
                  /\ tasks[s].parent_pid # tasks[current_task].pid =>
                       r[s].parent_pid = tasks[s].parent_pid
<1> DEFINE r == ReparentChildren(tasks, current_task)
           heir == IF /\ init_task # NoTask /\ init_task # current_task
                      /\ tasks[init_task].state \notin {"UNUSED", "ZOMBIE"}
                     THEN tasks[init_task].pid ELSE 0
<1>1. /\ current_task \in Slots /\ tasks \in [Slots -> Task]
      /\ init_task \in Slots \cup {NoTask}
  BY RunningTable DEF UserRunning, Inv, TypeOK
<1>2. heir \in 0 .. MaxPid
  BY <1>1, TableAssumption DEF TableAssumption, Task
<1>3. \/ heir = 0
      \/ /\ init_task \in Slots /\ init_task # current_task
         /\ Live(tasks, init_task) /\ heir = tasks[init_task].pid
  BY <1>1 DEF Live
<1>4. r = [s \in Slots |->
             IF tasks[s].state # "UNUSED" /\ tasks[s].parent_pid = tasks[current_task].pid
               THEN [tasks[s] EXCEPT !.parent_pid = heir,
                                     !.reap_ready = @ \/ (heir = 0 /\ tasks[s].state = "ZOMBIE")]
               ELSE tasks[s]]
  BY DEF ReparentChildren
<1> HIDE DEF heir, r
<1>5. ASSUME NEW s \in Slots, tasks[s].state # "UNUSED",
             tasks[s].parent_pid = tasks[current_task].pid
      PROVE  /\ r[s] \in Task
             /\ r[s].state = tasks[s].state /\ r[s].kind = tasks[s].kind
             /\ r[s].pid = tasks[s].pid /\ r[s].block_reason = tasks[s].block_reason
             /\ r[s].wait_target_pid = tasks[s].wait_target_pid
             /\ r[s].parent_pid = heir
             /\ r[s].reap_ready => tasks[s].reap_ready \/ (tasks[s].state = "ZOMBIE" /\ heir = 0)
  <2>1. r[s] = [tasks[s] EXCEPT !.parent_pid = heir,
                                !.reap_ready = @ \/ (heir = 0 /\ tasks[s].state = "ZOMBIE")]
    BY <1>4, <1>5, Zenon
  <2>2. tasks[s] \in Task
    BY <1>1
  <2>3. r[s].reap_ready = (tasks[s].reap_ready \/ (heir = 0 /\ tasks[s].state = "ZOMBIE"))
    BY <2>1, <2>2 DEF Task
  <2>4. r[s] \in Task
    BY <1>2, <2>1, <2>2, Zenon DEF Task
  <2>5. /\ r[s].state = tasks[s].state /\ r[s].kind = tasks[s].kind
        /\ r[s].pid = tasks[s].pid /\ r[s].block_reason = tasks[s].block_reason
        /\ r[s].wait_target_pid = tasks[s].wait_target_pid
        /\ r[s].parent_pid = heir
    BY <2>1, <2>2 DEF Task
  <2> QED BY <2>3, <2>4, <2>5, Zenon
<1>6. ASSUME NEW s \in Slots,
             ~(tasks[s].state # "UNUSED" /\ tasks[s].parent_pid = tasks[current_task].pid)
      PROVE  r[s] = tasks[s]
  BY <1>4, <1>6, Zenon
<1>7. r \in [Slots -> Task]
  <2>1. \A s \in Slots : r[s] \in Task
    BY <1>1, <1>5, <1>6
  <2>2. r = [s \in Slots |-> r[s]]
    BY <1>4, Zenon
  <2> QED BY <2>1, <2>2
<1>8. ASSUME NEW s \in Slots
      PROVE  /\ r[s].state = tasks[s].state /\ r[s].kind = tasks[s].kind
             /\ r[s].pid = tasks[s].pid /\ r[s].block_reason = tasks[s].block_reason
             /\ r[s].wait_target_pid = tasks[s].wait_target_pid
             /\ r[s].reap_ready => tasks[s].reap_ready
                                  \/ (tasks[s].state = "ZOMBIE" /\ r[s].parent_pid = 0)
             /\ \/ r[s].parent_pid = 0
                \/ /\ r[s].parent_pid = tasks[s].parent_pid
                   /\ tasks[s].state # "UNUSED" => tasks[s].parent_pid # tasks[current_task].pid
                \/ /\ init_task \in Slots /\ init_task # current_task
                   /\ Live(tasks, init_task) /\ r[s].parent_pid = tasks[init_task].pid
                   /\ tasks[s].parent_pid = tasks[current_task].pid
             /\ tasks[s].parent_pid # tasks[current_task].pid =>
                  r[s].parent_pid = tasks[s].parent_pid
  <2>1. CASE tasks[s].state # "UNUSED" /\ tasks[s].parent_pid = tasks[current_task].pid
    BY <1>3, <1>5, <2>1, Zenon
  <2>2. CASE ~(tasks[s].state # "UNUSED" /\ tasks[s].parent_pid = tasks[current_task].pid)
    <3>1. r[s] = tasks[s]
      BY <1>6, <2>2
    <3> QED BY <2>2, <3>1
  <2> QED BY <2>1, <2>2, Zenon
<1> QED BY <1>7, <1>8, Zenon DEF r

Dead == Zombie(ReparentChildren(tasks, current_task), current_task)

\* The table once the exiting task is a zombie and its children have moved.
LEMMA DeadTable ==
  ASSUME Inv, UserRunning
  PROVE  /\ Dead \in [Slots -> Task]
         /\ Dead[current_task].state = "ZOMBIE"
         /\ Dead[current_task].reap_ready => Dead[current_task].parent_pid = 0
         /\ \A s \in Slots :
              /\ Dead[s].kind = tasks[s].kind /\ Dead[s].pid = tasks[s].pid
              /\ Dead[s].parent_pid = ReparentChildren(tasks, current_task)[s].parent_pid
              /\ s # current_task => Dead[s] = ReparentChildren(tasks, current_task)[s]
<1> DEFINE r == ReparentChildren(tasks, current_task)
           orphan == r[current_task].parent_pid = 0
           z == [r[current_task] EXCEPT !.state = "ZOMBIE", !.wait_target_pid = AnyChild,
                                        !.block_reason = "NONE", !.reap_ready = orphan]
<1>1. /\ r \in [Slots -> Task] /\ current_task \in Slots
      /\ \A s \in Slots : r[s].kind = tasks[s].kind /\ r[s].pid = tasks[s].pid
  BY Reparented, RunningTable DEF UserRunning
<1>2. Dead = [r EXCEPT ![current_task] = z]
  BY DEF Dead, Zombie
<1> HIDE DEF r
<1>3. /\ z \in Task /\ z.state = "ZOMBIE" /\ z.kind = r[current_task].kind
      /\ z.pid = r[current_task].pid /\ z.parent_pid = r[current_task].parent_pid
      /\ z.reap_ready = orphan
  <2>1. orphan \in BOOLEAN
    OBVIOUS
  <2>2. r[current_task] \in Task
    BY <1>1
  <2> HIDE DEF orphan
  <2> QED BY <2>1, <2>2, Zenon DEF Task, States
<1>4. z.reap_ready => z.parent_pid = 0
  BY <1>3, Zenon
<1> HIDE DEF z
<1>5. /\ Dead \in [Slots -> Task] /\ Dead[current_task] = z
      /\ \A s \in Slots : s # current_task => Dead[s] = r[s]
  BY <1>1, <1>2, <1>3
<1>6. Dead[current_task].reap_ready => Dead[current_task].parent_pid = 0
  BY <1>4, <1>5, Zenon
<1>7. \A s \in Slots : /\ Dead[s].kind = tasks[s].kind /\ Dead[s].pid = tasks[s].pid
                       /\ Dead[s].parent_pid = r[s].parent_pid
  BY <1>1, <1>3, <1>5
<1> QED BY <1>3, <1>5, <1>6, <1>7 DEF r

\* The parent that the exiting task names is found when there is one, and is
\* told of the exit when it waits for it.
LEMMA DeadFamily ==
  ASSUME Inv, UserRunning
  PROVE  PidsIn(Dead) /\ ParentsIn(Dead)
<1> DEFINE r == ReparentChildren(tasks, current_task)
<1>1. /\ current_task \in Slots /\ tasks[current_task].state = "RUNNING"
      /\ \A s \in Slots :
           /\ Dead[s].state # "UNUSED" <=> tasks[s].state # "UNUSED"
           /\ Dead[s].pid = tasks[s].pid /\ Dead[s].kind = tasks[s].kind
           /\ s # current_task /\ Live(tasks, s) => Live(Dead, s)
  BY DeadTable, Reparented, RunningTable DEF UserRunning, Live
<1>2. PidsIn(Dead)
  BY <1>1, InvParts, PidsSame
<1>3. ASSUME NEW s \in Slots, Dead[s].state # "UNUSED", Dead[s].parent_pid # 0
      PROVE  \E p \in Slots : /\ Live(Dead, p) /\ Dead[p].kind = "USER"
                              /\ Dead[p].pid = Dead[s].parent_pid
  <2>1. Dead[s].parent_pid = r[s].parent_pid
    BY DeadTable
  <2> HIDE DEF r
  <2>2. \/ /\ r[s].parent_pid = tasks[s].parent_pid
           /\ tasks[s].parent_pid # tasks[current_task].pid
        \/ /\ init_task \in Slots /\ init_task # current_task
           /\ Live(tasks, init_task) /\ r[s].parent_pid = tasks[init_task].pid
    BY <1>1, <1>3, <2>1, Reparented, Zenon DEF r
  <2>3. CASE r[s].parent_pid = tasks[s].parent_pid /\ tasks[s].parent_pid # tasks[current_task].pid
    <3>1. PICK p \in Slots : /\ Live(tasks, p) /\ tasks[p].kind = "USER"
                             /\ tasks[p].pid = tasks[s].parent_pid
      BY <1>1, <1>3, <2>1, <2>3, InvParts, Zenon DEF ParentsIn
    <3> QED BY <1>1, <2>1, <2>3, <3>1, Zenon
  <2>4. CASE /\ init_task \in Slots /\ init_task # current_task
             /\ Live(tasks, init_task) /\ r[s].parent_pid = tasks[init_task].pid
    <3>1. tasks[init_task].kind = "USER"
      BY <2>4, InvParts DEF InitIn, NoTask, Slots
    <3> QED BY <1>1, <2>1, <2>4, <3>1
  <2> QED BY <2>2, <2>3, <2>4
<1>4. ParentsIn(Dead)
  BY <1>3 DEF ParentsIn
<1> QED BY <1>2, <1>4

\* What proc_notify_parent_exit changes: a parent that waits is made runnable
\* and the zombie is ready to be collected, or nothing changes.
LEMMA Notified ==
  ASSUME Inv, UserRunning, NEW parent \in Slots \cup {NoTask},
         FindByPid(Dead, Dead[current_task].parent_pid, parent)
  PROVE  LET fin == NotifyParentExit(Dead, parent, current_task)
         IN  /\ fin \in [Slots -> Task]
             /\ Dead[current_task].parent_pid # 0 =>
                  parent \in Slots /\ Dead[parent].pid = Dead[current_task].parent_pid
                  /\ Dead[parent].state # "UNUSED"
             /\ fin[current_task].state = "ZOMBIE"
             /\ \A s \in Slots : /\ fin[s].pid = Dead[s].pid /\ fin[s].kind = Dead[s].kind
                                 /\ fin[s].parent_pid = Dead[s].parent_pid
                                 /\ fin[s] = Dead[s] \/ s = current_task
                                      \/ (/\ s = parent /\ Waits(Dead, parent, current_task)
                                          /\ Dead[s].state = "BLOCKED" /\ fin[s].state = "RUNNABLE"
                                          /\ fin[s].reap_ready = Dead[s].reap_ready)
             /\ Waits(Dead, parent, current_task) => fin[parent].state = "RUNNABLE"
             /\ ~Waits(Dead, parent, current_task) /\ fin[current_task].reap_ready =>
                  Dead[current_task].parent_pid = 0
<1> DEFINE fin == NotifyParentExit(Dead, parent, current_task)
<1>1. /\ Dead \in [Slots -> Task] /\ Dead[current_task].state = "ZOMBIE"
      /\ current_task \in Slots /\ NoTask \notin Slots
      /\ Dead[current_task].reap_ready => Dead[current_task].parent_pid = 0
  <2>1. NoTask \notin Slots
    BY DEF NoTask, Slots
  <2>2. current_task # NoTask
    BY DEF UserRunning
  <2> QED BY <2>1, <2>2, DeadTable, RunningTable
<1>2. ASSUME Dead[current_task].parent_pid # 0
      PROVE  parent \in Slots /\ Dead[parent].pid = Dead[current_task].parent_pid
             /\ Dead[parent].state # "UNUSED"
  <2>1. PICK p \in Slots : Live(Dead, p) /\ Dead[p].pid = Dead[current_task].parent_pid
    BY <1>1, <1>2, DeadFamily DEF ParentsIn
  <2> QED BY <1>2, <2>1 DEF FindByPid, IsFirst, Live
<1>3. CASE parent = NoTask
  <2>1. Dead[current_task].parent_pid = 0
    BY <1>1, <1>2, <1>3
  <2>2. ~Waits(Dead, parent, current_task)
    BY <1>3 DEF Waits
  <2> DEFINE rec == [Dead[current_task] EXCEPT !.parent_pid = 0, !.reap_ready = TRUE]
  <2>3. fin = [Dead EXCEPT ![current_task] = rec]
    BY <1>3, Zenon DEF NotifyParentExit
  <2>4. /\ rec \in Task /\ rec.state = "ZOMBIE" /\ rec.pid = Dead[current_task].pid
        /\ rec.kind = Dead[current_task].kind /\ rec.parent_pid = 0
    <3>1. Dead[current_task] \in Task /\ Dead[current_task].state = "ZOMBIE" /\ 0 \in 0 .. MaxPid
      BY <1>1, TableAssumption DEF TableAssumption
    <3> QED BY <3>1, Zenon DEF Task
  <2> HIDE DEF rec, fin
  <2>5. /\ fin \in [Slots -> Task] /\ fin[current_task] = rec
        /\ \A s \in Slots : s # current_task => fin[s] = Dead[s]
    BY <1>1, <2>3, <2>4
  <2> QED BY <1>1, <2>1, <2>2, <2>4, <2>5 DEF fin
<1>4. CASE parent # NoTask /\ Waits(Dead, parent, current_task)
  <2> DEFINE up == [Dead[parent] EXCEPT !.wait_target_pid = AnyChild,
                                        !.block_reason = "NONE", !.state = "RUNNABLE"]
             rec == [Dead[current_task] EXCEPT !.reap_ready = TRUE]
  <2>1. /\ parent \in Slots /\ parent # current_task /\ Dead[parent].state = "BLOCKED"
    BY <1>1, <1>4 DEF Waits
  <2>2. fin = [Dead EXCEPT ![parent] = up, ![current_task] = rec]
    BY <1>1, <1>4, <2>1, Zenon DEF NotifyParentExit, FinishBlockedWait
  <2>3. /\ up \in Task /\ up.state = "RUNNABLE" /\ up.pid = Dead[parent].pid
        /\ up.kind = Dead[parent].kind /\ up.parent_pid = Dead[parent].parent_pid
        /\ up.reap_ready = Dead[parent].reap_ready
    BY <1>1, <2>1, Zenon DEF Task, States, AnyChild
  <2>4. /\ rec \in Task /\ rec.state = "ZOMBIE" /\ rec.pid = Dead[current_task].pid
        /\ rec.kind = Dead[current_task].kind
        /\ rec.parent_pid = Dead[current_task].parent_pid
    BY <1>1, Zenon DEF Task
  <2> HIDE DEF up, rec, fin
  <2>5. /\ fin \in [Slots -> Task] /\ fin[current_task] = rec /\ fin[parent] = up
        /\ \A s \in Slots : s # current_task /\ s # parent => fin[s] = Dead[s]
    BY <1>1, <2>1, <2>2, <2>3, <2>4
  <2>6. ASSUME NEW s \in Slots
        PROVE  /\ fin[s].pid = Dead[s].pid /\ fin[s].kind = Dead[s].kind
               /\ fin[s].parent_pid = Dead[s].parent_pid
               /\ fin[s] = Dead[s] \/ s = current_task
                    \/ (/\ s = parent /\ Waits(Dead, parent, current_task)
                        /\ Dead[s].state = "BLOCKED" /\ fin[s].state = "RUNNABLE"
                        /\ fin[s].reap_ready = Dead[s].reap_ready)
    BY <1>4, <2>1, <2>3, <2>4, <2>5
  <2> QED BY <1>2, <1>4, <2>3, <2>4, <2>5, <2>6, Zenon DEF fin
<1>5. CASE parent # NoTask /\ ~Waits(Dead, parent, current_task)
  <2>1. fin = Dead
    BY <1>5 DEF NotifyParentExit
  <2> HIDE DEF fin
  <2>2. fin[current_task].reap_ready => Dead[current_task].parent_pid = 0
    BY <1>1, <2>1, Zenon
  <2> QED BY <1>1, <1>2, <1>5, <2>1, <2>2 DEF fin
<1> QED BY <1>3, <1>4, <1>5, Zenon

\* exit preserves the invariant: reparenting, the zombie, the parent it may wake
\* and the scheduling step, in that order.
LEMMA ExitInv == Inv /\ Exit => Inv'
<1> SUFFICES ASSUME Inv, Exit PROVE Inv'
  OBVIOUS
<1> DEFINE told(p) == IF Waits(Dead, p, current_task) THEN {Dead[current_task].pid} ELSE {}
<1>1. PICK parent \in Slots \cup {NoTask}, copied \in BOOLEAN :
        /\ FindByPid(Dead, Dead[current_task].parent_pid, parent)
        /\ SyscallSchedule(NotifyParentExit(Dead, parent, current_task))
        /\ Report(IF copied THEN told(parent) ELSE {})
        /\ reportFailed' = reportFailed \cup (IF copied THEN {} ELSE told(parent))
  BY DEF Exit, Dead
<1> DEFINE r == ReparentChildren(tasks, current_task)
           fin == NotifyParentExit(Dead, parent, current_task)
<1>2. /\ UserRunning /\ next_pid' = next_pid
      /\ current_task \in Slots /\ tasks \in [Slots -> Task]
      /\ tasks[current_task].state = "RUNNING" /\ OnlyCurrent(tasks)
      /\ current_task # idle_task /\ NoTask \notin Slots
  BY RunningTable DEF Exit, UserRunning, NoTask, Slots
<1>3. /\ fin \in [Slots -> Task]
      /\ Dead[current_task].parent_pid # 0 =>
           parent \in Slots /\ Dead[parent].pid = Dead[current_task].parent_pid
           /\ Dead[parent].state # "UNUSED"
      /\ fin[current_task].state = "ZOMBIE"
      /\ \A s \in Slots : /\ fin[s].pid = Dead[s].pid /\ fin[s].kind = Dead[s].kind
                          /\ fin[s].parent_pid = Dead[s].parent_pid
                          /\ fin[s] = Dead[s] \/ s = current_task
                               \/ (/\ s = parent /\ Waits(Dead, parent, current_task)
                                   /\ Dead[s].state = "BLOCKED" /\ fin[s].state = "RUNNABLE"
                                   /\ fin[s].reap_ready = Dead[s].reap_ready)
      /\ Waits(Dead, parent, current_task) => fin[parent].state = "RUNNABLE"
      /\ ~Waits(Dead, parent, current_task) /\ fin[current_task].reap_ready =>
           Dead[current_task].parent_pid = 0
  BY <1>1, <1>2, Notified, Zenon
<1>4. /\ SyscallSchedule(fin)
      /\ \A s \in Slots :
           /\ Dead[s].kind = tasks[s].kind /\ Dead[s].pid = tasks[s].pid
           /\ Dead[s].parent_pid = r[s].parent_pid
           /\ s # current_task => Dead[s] = r[s]
  BY <1>1, <1>2, DeadTable, Zenon
<1> HIDE DEF fin, told, r
<1>5. \A s \in Slots :
        /\ r[s].state = tasks[s].state /\ r[s].block_reason = tasks[s].block_reason
        /\ r[s].wait_target_pid = tasks[s].wait_target_pid
        /\ r[s].reap_ready => tasks[s].reap_ready
                             \/ (tasks[s].state = "ZOMBIE" /\ r[s].parent_pid = 0)
        /\ \/ r[s].parent_pid = 0
           \/ /\ r[s].parent_pid = tasks[s].parent_pid
              /\ tasks[s].state # "UNUSED" => tasks[s].parent_pid # tasks[current_task].pid
           \/ /\ init_task \in Slots /\ init_task # current_task
              /\ Live(tasks, init_task) /\ r[s].parent_pid = tasks[init_task].pid
              /\ tasks[s].parent_pid = tasks[current_task].pid
        /\ tasks[s].parent_pid # tasks[current_task].pid => r[s].parent_pid = tasks[s].parent_pid
  BY <1>2, Reparented, Zenon DEF r
\* Every slot but the current one keeps its state, unless it is the parent that is woken.
<1>6. ASSUME NEW s \in Slots, s # current_task
      PROVE  \/ fin[s] = r[s]
             \/ /\ s = parent /\ Waits(Dead, parent, current_task)
                /\ tasks[s].state = "BLOCKED" /\ fin[s].state = "RUNNABLE"
                /\ fin[s].reap_ready = r[s].reap_ready
  <2>1. Dead[s] = r[s] /\ r[s].state = tasks[s].state
    BY <1>4, <1>5, <1>6
  <2> QED BY <1>3, <1>6, <2>1, Zenon
<1>7. \A s \in Slots : /\ fin[s].pid = tasks[s].pid /\ fin[s].kind = tasks[s].kind
                       /\ fin[s].parent_pid = r[s].parent_pid
                       /\ fin[s].state = "UNUSED" <=> tasks[s].state = "UNUSED"
                       /\ fin[s].state # "RUNNING"
                       /\ Live(tasks, s) /\ s # current_task => Live(fin, s)
                       /\ fin[s].state = "ZOMBIE" => s = current_task \/ tasks[s].state = "ZOMBIE"
  <2> SUFFICES ASSUME NEW s \in Slots
               PROVE  /\ fin[s].pid = tasks[s].pid /\ fin[s].kind = tasks[s].kind
                      /\ fin[s].parent_pid = r[s].parent_pid
                      /\ fin[s].state = "UNUSED" <=> tasks[s].state = "UNUSED"
                      /\ fin[s].state # "RUNNING"
                      /\ Live(tasks, s) /\ s # current_task => Live(fin, s)
                      /\ fin[s].state = "ZOMBIE" => s = current_task \/ tasks[s].state = "ZOMBIE"
    OBVIOUS
  <2>1. /\ fin[s].pid = tasks[s].pid /\ fin[s].kind = tasks[s].kind
        /\ fin[s].parent_pid = r[s].parent_pid
    BY <1>3, <1>4, Zenon
  <2>2. CASE s = current_task
    BY <1>2, <1>3, <2>1, <2>2, Zenon DEF Live
  <2>3. CASE s # current_task
    <3>1. tasks[s].state # "RUNNING" /\ r[s].state = tasks[s].state
      BY <1>2, <1>5, <2>3 DEF OnlyCurrent
    <3>2. \/ fin[s].state = tasks[s].state
          \/ tasks[s].state = "BLOCKED" /\ fin[s].state = "RUNNABLE"
      BY <1>6, <2>3, <3>1
    <3> QED BY <2>1, <2>3, <3>1, <3>2 DEF Live
  <2> QED BY <2>2, <2>3, Zenon
<1>8. OnlyCurrent(fin) /\ IdleReady(fin)
  <2>1. OnlyCurrent(fin)
    BY <1>7 DEF OnlyCurrent
  <2>2. fin[idle_task].state \in {"RUNNABLE", "RUNNING"}
    BY <1>2, <1>5, <1>6, InvParts, Zenon DEF IdleReady
  <2> QED BY <1>7, <2>1, <2>2, InvParts, Zenon DEF IdleReady
<1>9. PidsIn(fin) /\ InitIn(fin)
  BY <1>7, InvParts, Zenon DEF PidsIn, InitIn, TypeOK
<1>10. ParentsIn(fin)
  <2> SUFFICES ASSUME NEW s \in Slots, fin[s].state # "UNUSED", fin[s].parent_pid # 0
               PROVE  \E p \in Slots : /\ Live(fin, p) /\ fin[p].kind = "USER"
                                       /\ fin[p].pid = fin[s].parent_pid
    BY DEF ParentsIn
  <2>1. Dead[s].state # "UNUSED" /\ Dead[s].parent_pid = fin[s].parent_pid
    BY <1>2, <1>3, <1>4, <1>5, <1>7, DeadTable, Zenon
  <2>2. PICK p \in Slots : /\ Live(Dead, p) /\ Dead[p].kind = "USER"
                           /\ Dead[p].pid = Dead[s].parent_pid
    BY <1>2, <2>1, DeadFamily, Zenon DEF ParentsIn
  <2>3. p # current_task
    BY <1>2, <2>2, DeadTable DEF Live
  <2>4. Live(tasks, p)
    BY <1>4, <1>5, <2>2, <2>3 DEF Live
  <2>5. Live(fin, p)
    BY <1>7, <2>3, <2>4
  <2>6. fin[p].kind = "USER" /\ fin[p].pid = fin[s].parent_pid
    BY <1>4, <1>7, <2>1, <2>2
  <2> QED BY <2>5, <2>6
\* A parent still waiting in fin does not wait for the exiting task.
<1>11. ASSUME NEW p \in Slots, fin[p].state = "BLOCKED", fin[p].block_reason = "WAITPID"
       PROVE  /\ p # current_task /\ fin[p] = r[p]
              /\ tasks[p].state = "BLOCKED" /\ tasks[p].block_reason = "WAITPID"
              /\ fin[p].wait_target_pid = tasks[p].wait_target_pid
              /\ tasks[p].pid # 0 /\ tasks[p].pid # tasks[current_task].pid
              /\ ~WaitMatches(fin, p, current_task, fin[p].wait_target_pid)
  <2>1. p # current_task /\ fin[p] = r[p]
    BY <1>3, <1>6, <1>11
  <2>2. /\ tasks[p].state = "BLOCKED" /\ tasks[p].block_reason = "WAITPID"
        /\ fin[p].wait_target_pid = tasks[p].wait_target_pid
    BY <1>5, <1>11, <2>1
  <2>3. tasks[p].pid # 0 /\ tasks[p].pid # tasks[current_task].pid
    <3>1. tasks[p].state # "UNUSED" /\ tasks[current_task].state # "UNUSED"
      BY <1>2, <2>2
    <3>2. PidsIn(tasks)
      BY InvParts
    <3>3. tasks[p].pid \in 1 .. next_pid - 1
      BY <3>1, <3>2 DEF PidsIn
    <3> QED BY <1>2, <2>1, <3>1, <3>2, <3>3 DEF PidsIn
  <2>4. ASSUME WaitMatches(fin, p, current_task, fin[p].wait_target_pid) PROVE FALSE
    <3>1. Dead[current_task].parent_pid = tasks[p].pid /\ Dead[p] = fin[p]
      <4>1. Dead[p] = fin[p]
        BY <1>4, <2>1
      <4>2. fin[current_task].parent_pid = fin[p].pid
        BY <2>4 DEF WaitMatches
      <4> QED BY <1>2, <1>4, <1>7, <4>1, <4>2, Zenon
    <3>2. parent \in Slots /\ tasks[parent].pid = tasks[p].pid /\ Dead[parent].state # "UNUSED"
      BY <1>3, <1>4, <2>3, <3>1
    <3>3. tasks[parent].state # "UNUSED"
      BY <1>2, <1>4, <1>5, <3>2
    <3>4. parent = p
      BY <2>2, <3>2, <3>3, InvParts, Zenon DEF PidsIn
    <3>5. WaitMatches(Dead, p, current_task, Dead[p].wait_target_pid)
      BY <1>2, <1>3, <2>4, <3>1, DeadTable DEF WaitMatches
    <3>6. Waits(Dead, parent, current_task)
      BY <1>2, <1>11, <3>1, <3>4, <3>5, Zenon DEF Waits
    <3> QED BY <1>3, <1>11, <3>4, <3>6
  <2> QED BY <2>1, <2>2, <2>3, <2>4
<1>12. WaitersIn(fin)
  <2> SUFFICES ASSUME NEW p \in Slots, fin[p].state = "BLOCKED", fin[p].block_reason = "WAITPID"
               PROVE  \E c \in Slots : Live(fin, c) /\ WaitMatches(fin, p, c, fin[p].wait_target_pid)
    BY Zenon DEF WaitersIn
  <2>1. PICK c \in Slots : Live(tasks, c) /\ WaitMatches(tasks, p, c, tasks[p].wait_target_pid)
    BY <1>11, InvParts, Zenon DEF WaitersIn
  <2>2. r[c].parent_pid = tasks[c].parent_pid
    BY <1>5, <1>11, <2>1 DEF WaitMatches
  <2>3. WaitMatches(fin, p, c, fin[p].wait_target_pid)
    BY <1>7, <1>11, <2>1, <2>2, Zenon DEF WaitMatches
  <2>4. c # current_task
    BY <1>11, <2>3
  <2> QED BY <1>7, <2>1, <2>3, <2>4, Zenon
<1>13. MissedIn(fin)
  <2> SUFFICES ASSUME NEW p \in Slots, NEW c \in Slots, p # init_task, Waits(fin, p, c),
                      fin[c].state = "ZOMBIE"
               PROVE  FALSE
    BY DEF MissedIn
  <2>1. fin[p].state = "BLOCKED" /\ fin[p].block_reason = "WAITPID"
    BY DEF Waits
  <2>2. c # current_task /\ tasks[c].state = "ZOMBIE"
    BY <1>7, <1>11, <2>1, Zenon DEF Waits
  <2>3. r[c].parent_pid = tasks[p].pid
    BY <1>7 DEF Waits, WaitMatches
  <2>4. r[c].parent_pid = tasks[c].parent_pid
    <3> SUFFICES ASSUME r[c].parent_pid # tasks[c].parent_pid PROVE FALSE
      OBVIOUS
    <3>1. init_task \in Slots /\ Live(tasks, init_task) /\ tasks[init_task].pid = tasks[p].pid
      BY <1>5, <1>11, <2>1, <2>3, Zenon
    <3>2. init_task = p
      BY <1>11, <2>1, <3>1, InvParts, Zenon DEF PidsIn, Live
    <3> QED BY <3>2
  <2>5. Waits(tasks, p, c)
    BY <1>7, <1>11, <2>1, <2>2, <2>3, <2>4, Zenon DEF Waits, WaitMatches
  <2> QED BY <2>2, <2>5, InvParts, Zenon DEF MissedIn
<1>14. ASSUME NEW s \in Slots, s # current_task, fin[s].reap_ready
       PROVE  /\ fin[s].state = "ZOMBIE"
              /\ fin[s].parent_pid # 0 => tasks[s].pid \in reported \cup reportFailed
  <2>1. fin[s].reap_ready = r[s].reap_ready
    BY <1>6, <1>14, Zenon
  <2>2. r[s].reap_ready
    BY <1>14, <2>1
  <2>3. tasks[s].reap_ready \/ (tasks[s].state = "ZOMBIE" /\ r[s].parent_pid = 0)
    BY <1>5, <2>2
  <2>4. tasks[s].state = "ZOMBIE"
    BY <2>3, InvParts, Zenon DEF ReapIn
  <2>5. fin[s].state = "ZOMBIE"
    BY <1>5, <1>6, <1>14, <2>4, Zenon
  <2>6. ASSUME fin[s].parent_pid # 0 PROVE tasks[s].pid \in reported \cup reportFailed
    <3>1. r[s].parent_pid # 0
      BY <1>7, <2>6
    <3>2. tasks[s].reap_ready
      BY <2>3, <3>1
    <3>3. tasks[current_task].pid # 0
      BY <1>2, InvParts DEF PidsIn
    <3>4. tasks[s].parent_pid # 0
      BY <1>5, <3>1, <3>3
    <3> QED BY <3>2, <3>4, InvParts, Zenon DEF SettledIn
  <2> QED BY <2>5, <2>6, Zenon
<1>15. ReapIn(fin)
  BY <1>3, <1>14, Zenon DEF ReapIn
<1>16. Family(fin)
  BY <1>9, <1>10, <1>12, <1>13, <1>15 DEF Family
<1>17. Dead[current_task].pid \in Pids
  <2>1. tasks[current_task].pid \in 1 .. next_pid - 1 /\ next_pid \in 1 .. MaxPid + 1
    BY <1>2, InvParts DEF TypeOK, PidsIn
  <2>2. Dead[current_task].pid = tasks[current_task].pid
    BY <1>2, <1>4
  <2> QED BY <2>1, <2>2, TableAssumption DEF TableAssumption, Pids
<1>18. told(parent) \subseteq Pids
  BY <1>17 DEF told
<1>19. /\ reported' \subseteq Pids /\ reportedAgain' \subseteq Pids /\ reportFailed' \subseteq Pids
       /\ reported \cup reportFailed \subseteq (reported \cup reportFailed)'
       /\ told(parent) \subseteq (reported \cup reportFailed)'
  BY <1>1, <1>18 DEF Report, Inv, TypeOK
<1>20. SettledIn(fin, (reported \cup reportFailed)')
  <2> SUFFICES ASSUME NEW s \in Slots, fin[s].reap_ready, fin[s].parent_pid # 0
               PROVE  fin[s].pid \in (reported \cup reportFailed)'
    BY Zenon DEF SettledIn
  <2>1. CASE s # current_task
    BY <1>7, <1>14, <1>19, <2>1, Zenon
  <2>2. CASE s = current_task
    <3>1. Dead[current_task].parent_pid # 0
      BY <1>3, <2>2
    <3>2. Waits(Dead, parent, current_task)
      BY <1>3, <2>2, <3>1, Zenon
    <3>3. fin[s].pid \in told(parent)
      BY <1>3, <2>2, <3>2, Zenon DEF told
    <3> QED BY <1>19, <3>3
  <2> QED BY <2>1, <2>2
<1>21. fin[current_task].state # "UNUSED"
  BY <1>3
<1>22. /\ Schedule(fin, EnsuredTick)
       /\ tick_count' \in 0 .. TickWrap - 1 /\ hardware_tick_seen' \in BOOLEAN
  BY <1>4, SyscallClock
<1> QED BY <1>2, <1>3, <1>8, <1>16, <1>19, <1>20, <1>21, <1>22, HandlerKeepsInv, Zenon

-----------------------------------------------------------------------------
(* Theorems *)

\* A stuttering step preserves the invariant.
LEMMA StutterInv == Inv /\ UNCHANGED vars => Inv'
<1>0. SUFFICES ASSUME Inv, UNCHANGED vars PROVE Inv'
  OBVIOUS
<1>1. /\ tasks' = tasks /\ current_task' = current_task /\ idle_task' = idle_task
      /\ init_task' = init_task /\ next_pid' = next_pid /\ tick_count' = tick_count
      /\ hardware_tick_seen' = hardware_tick_seen /\ reported' = reported
      /\ reportedAgain' = reportedAgain /\ reportFailed' = reportFailed
  BY <1>0 DEF vars, sched, clock, history
<1>2. TypeOK' /\ Booting' /\ CurrentRuns' /\ IdleIsLast' /\ OneUncollected'
  BY <1>0, <1>1 DEF Inv, TypeOK, Booting, CurrentRuns, IdleIsLast, OneUncollected
<1>3. IdleReady(tasks)' /\ SettledIn(tasks, reported \cup reportFailed)'
  BY <1>0, <1>1 DEF Inv, IdleReady, SettledIn
<1>4. PidsIn(tasks)' /\ ParentsIn(tasks)' /\ ReapIn(tasks)' /\ InitIn(tasks)'
  BY <1>0, <1>1, InvParts, Zenon DEF PidsIn, ParentsIn, ReapIn, InitIn, Live
<1>5. WaitersIn(tasks)' /\ MissedIn(tasks)'
  BY <1>0, <1>1, InvParts, Zenon DEF WaitersIn, MissedIn, Live, Waits, WaitMatches
<1> QED BY <1>2, <1>3, <1>4, <1>5 DEF Inv, Family

\* Every step preserves the invariant.
LEMMA NextInv == Inv /\ [Next]_vars => Inv'
BY TimerInv, EnterInitialTaskInv, YieldInv, SleepInv, BlockOnInv, ForkInv, WaitpidCollectInv,
   WaitpidBlockInv, ExitInv, StutterInv DEF Next, Syscall

\* The table, its pointers and the clock keep their types for any number of slots,
\* workers and pids and any clock width, under every interleaving of system
\* calls and interrupts.
THEOREM TypeCorrect == Spec => []TypeOK
<1>1. Inv => TypeOK
  BY DEF Inv
<1> QED BY InitInv, NextInv, <1>1, PTL DEF Spec

\* The CPU is always on exactly the one RUNNING task, and on the idle task only
\* when nothing else is runnable: proc_pick_next never falls through to a task
\* that is a zombie, released or waiting.
LEMMA CpuNeverLost == Spec => [](CurrentRuns /\ IdleIsLast)
<1>1. Inv => CurrentRuns /\ IdleIsLast
  BY DEF Inv
<1> QED BY InitInv, NextInv, <1>1, PTL DEF Spec

\* Pids are unique, and the parent a task names is alive: exit leaves no
\* dangling parent behind, whoever has died before.
LEMMA FamilyTree == Spec => [](UniquePids /\ ParentsLive)
<1>1. Inv => UniquePids /\ ParentsLive
  BY Zenon DEF Inv, Family, UniquePids, PidsIn, ParentsLive, ParentsIn
<1> QED BY InitInv, NextInv, <1>1, PTL DEF Spec

\* A task blocked in waitpid always has a live child whose exit will wake it, and
\* unless it is init no exit it waits for has slipped by.
LEMMA WaitNotStuck == Spec => [](WaitersHaveLiveChild /\ NoMissedExit)
<1>1. Inv => WaitersHaveLiveChild /\ NoMissedExit
  BY Zenon DEF Inv, Family, WaitersHaveLiveChild, WaitersIn, NoMissedExit, MissedIn
<1> QED BY InitInv, NextInv, <1>1, PTL DEF Spec

\* Between handlers at most one zombie that may be collected still holds its slot
\* and its kernel stack.
LEMMA ZombiesCollected == Spec => []OneUncollected
<1>1. Inv => OneUncollected
  BY DEF Inv
<1> QED BY InitInv, NextInv, <1>1, PTL DEF Spec

\* No exit is lost, for every table size and pid bound and in whatever order parents,
\* children and init exit: pids are unique, parents live, and nobody but init is left
\* waiting beside a zombie.
THEOREM ExitsAlwaysHeard == Spec => []ExitsHeard
<1>1. (UniquePids /\ ParentsLive) /\ (WaitersHaveLiveChild /\ NoMissedExit) => ExitsHeard
  BY DEF ExitsHeard
<1> QED BY FamilyTree, WaitNotStuck, <1>1, PTL

\* Every handler leaves the task table in order, for every table size and counter width.
THEOREM TableAlwaysInOrder == Spec => []TableInOrder
<1>1. (CurrentRuns /\ IdleIsLast) /\ OneUncollected => TableInOrder
  BY DEF TableInOrder
<1> QED BY CpuNeverLost, ZombiesCollected, <1>1, PTL

-----------------------------------------------------------------------------
(* What a handler that ends in proc_schedule does to the other tasks *)

\* The step property of ReleasedSafely.
ReleaseStep ==
  /\ current_task # NoTask => tasks'[current_task].state # "UNUSED"
  /\ \A s, p \in Slots :
       (/\ tasks[s].state = "ZOMBIE" /\ tasks'[s].state = "UNUSED"
        /\ tasks[p].state # "UNUSED" /\ tasks[p].pid = tasks[s].parent_pid
        /\ tasks'[p].state # "ZOMBIE")
       => tasks[s].pid \in (reported \cup reportFailed)'

\* The table a handler leaves to proc_schedule, and the tick it is called with: zombies
\* and sleepers other than the caller are as they were, except that an exit may
\* give up the zombies among the children of the task that exits.
HandedOver(ts, now) ==
  /\ current_task \in Slots /\ ts[current_task].state # "UNUSED"
  /\ OnlyCurrent(ts) /\ IdleReady(ts) /\ Schedule(ts, now)
  /\ tick_count' = now /\ now \in {tick_count, TickSum(tick_count, 1)}
  /\ reported \subseteq reported' /\ reportFailed \subseteq reportFailed'
  /\ \A s \in Slots :
       /\ tasks[s].state = "ZOMBIE" =>
            /\ ts[s].state = "ZOMBIE"
            /\ ts[s].reap_ready => \/ tasks[s].reap_ready
                                   \/ /\ tasks[s].parent_pid = tasks[current_task].pid
                                      /\ ts[current_task].state = "ZOMBIE"
       /\ tasks[s].state = "SLEEPING" =>
            ts[s].state = "SLEEPING" /\ ts[s].wake_tick = tasks[s].wake_tick

\* A system call reads the tick before or after the one it makes up for.
LEMMA SyscallTick == EnsuredTick \in {tick_count, TickSum(tick_count, 1)}
BY DEF EnsuredTick

\* The timer interrupt and yield hand over the table as it is.
LEMMA UneditedHandedOver ==
  ASSUME Inv, TimerInterrupt \/ Yield
  PROVE  \E ts \in [Slots -> Task], now \in 0 .. TickWrap - 1 : HandedOver(ts, now)
<1>1. /\ current_task # NoTask /\ reported' = reported /\ reportFailed' = reportFailed
      /\ \/ Schedule(tasks, TickSum(tick_count, 1)) /\ tick_count' = TickSum(tick_count, 1)
         \/ Schedule(tasks, EnsuredTick) /\ tick_count' = EnsuredTick
  BY DEF TimerInterrupt, Yield, SyscallSchedule, history
<1>2. /\ current_task \in Slots /\ tasks \in [Slots -> Task]
      /\ tasks[current_task].state # "UNUSED" /\ OnlyCurrent(tasks) /\ IdleReady(tasks)
  BY <1>1, RunningTable DEF Inv
<1>3. /\ tick_count \in 0 .. TickWrap - 1 /\ TickSum(tick_count, 1) \in 0 .. TickWrap - 1
      /\ EnsuredTick \in 0 .. TickWrap - 1
  BY OneTick, TickInRange DEF Inv, TypeOK, EnsuredTick
<1>4. CASE Schedule(tasks, TickSum(tick_count, 1)) /\ tick_count' = TickSum(tick_count, 1)
  <2>1. HandedOver(tasks, TickSum(tick_count, 1))
    BY <1>1, <1>2, <1>4 DEF HandedOver
  <2> QED BY <1>2, <1>3, <2>1
<1>5. CASE Schedule(tasks, EnsuredTick) /\ tick_count' = EnsuredTick
  <2>1. HandedOver(tasks, EnsuredTick)
    BY <1>1, <1>2, <1>5, SyscallTick DEF HandedOver
  <2> QED BY <1>2, <1>3, <2>1
<1> QED BY <1>1, <1>4, <1>5

\* Sleep, BlockOn and WaitpidBlock hand over the table with the caller waiting as rec says.
LEMMA WaitingHandedOver ==
  ASSUME Inv, UserRunning, NEW rec \in Task, rec.state \in {"SLEEPING", "BLOCKED"},
         rec.kind = tasks[current_task].kind,
         SyscallSchedule([tasks EXCEPT ![current_task] = rec]), UNCHANGED history
  PROVE  /\ [tasks EXCEPT ![current_task] = rec] \in [Slots -> Task]
         /\ EnsuredTick \in 0 .. TickWrap - 1
         /\ HandedOver([tasks EXCEPT ![current_task] = rec], EnsuredTick)
<1> DEFINE ts == [tasks EXCEPT ![current_task] = rec]
<1>1. /\ current_task \in Slots /\ tasks \in [Slots -> Task]
      /\ tasks[current_task].state = "RUNNING" /\ OnlyCurrent(tasks)
      /\ current_task # idle_task /\ IdleReady(tasks)
  BY RunningTable DEF UserRunning, Inv
<1>2. /\ ts \in [Slots -> Task] /\ ts[current_task] = rec
      /\ \A s \in Slots : s # current_task => ts[s] = tasks[s]
  BY <1>1
<1>3. /\ Schedule(ts, EnsuredTick) /\ tick_count' = EnsuredTick
      /\ reported' = reported /\ reportFailed' = reportFailed
  BY DEF SyscallSchedule, history
<1> HIDE DEF ts
<1>4. OnlyCurrent(ts) /\ IdleReady(ts) /\ ts[current_task].state # "UNUSED"
  BY <1>1, <1>2 DEF OnlyCurrent, IdleReady
<1>5. \A s \in Slots : /\ tasks[s].state = "ZOMBIE" => ts[s] = tasks[s]
                       /\ tasks[s].state = "SLEEPING" => ts[s] = tasks[s]
  BY <1>1, <1>2
<1>6. HandedOver(ts, EnsuredTick)
  BY <1>1, <1>3, <1>4, <1>5, SyscallTick DEF HandedOver
<1>7. EnsuredTick \in 0 .. TickWrap - 1
  BY OneTick, TickInRange DEF Inv, TypeOK, EnsuredTick
<1> QED BY <1>2, <1>6, <1>7 DEF ts

\* sleep hands over the table with the caller asleep until the tick it asked for.
LEMMA SleepHandedOver ==
  ASSUME Inv, NEW ticks \in SleepTicks, Sleep(ticks)
  PROVE  \E ts \in [Slots -> Task], now \in 0 .. TickWrap - 1 :
           /\ HandedOver(ts, now) /\ ts[current_task].state = "SLEEPING"
           /\ ts[current_task].wake_tick = TickSum(tick_count, ticks)
<1> DEFINE rec == [tasks[current_task] EXCEPT !.wake_tick = TickSum(tick_count, ticks),
                                              !.state = "SLEEPING"]
<1>1. /\ UserRunning /\ current_task \in Slots /\ tasks \in [Slots -> Task]
  BY RunningTable DEF Sleep, UserRunning
<1>2. TickSum(tick_count, ticks) \in 0 .. TickWrap - 1
  BY TickInRange, TickAssumption DEF TickAssumption, Inv, TypeOK
<1>3. /\ rec \in Task /\ rec.state = "SLEEPING" /\ rec.kind = tasks[current_task].kind
      /\ rec.wake_tick = TickSum(tick_count, ticks)
  BY <1>1, <1>2, Zenon DEF Task, States
<1>4. SyscallSchedule([tasks EXCEPT ![current_task] = rec]) /\ UNCHANGED history
  BY Zenon DEF Sleep
<1> HIDE DEF rec
<1>5. [tasks EXCEPT ![current_task] = rec][current_task] = rec
  BY <1>1
<1> QED BY <1>1, <1>3, <1>4, <1>5, WaitingHandedOver

\* A call that blocks hands over the table with the caller blocked.
LEMMA BlockingHandedOver ==
  ASSUME Inv, \/ \E reason \in DeviceReasons : BlockOn(reason)
              \/ \E target \in Pids \cup {AnyChild} : WaitpidBlock(target)
  PROVE  \E ts \in [Slots -> Task], now \in 0 .. TickWrap - 1 : HandedOver(ts, now)
<1>1. ASSUME NEW reason \in DeviceReasons, BlockOn(reason)
      PROVE  \E ts \in [Slots -> Task], now \in 0 .. TickWrap - 1 : HandedOver(ts, now)
  <2> DEFINE rec == [tasks[current_task] EXCEPT !.block_reason = reason, !.state = "BLOCKED"]
  <2>1. UserRunning /\ current_task \in Slots /\ tasks[current_task] \in Task
    BY <1>1, RunningTable DEF BlockOn, UserRunning
  <2>2. rec \in Task /\ rec.state = "BLOCKED" /\ rec.kind = tasks[current_task].kind
    BY <2>1, Zenon DEF Task, States
  <2>3. SyscallSchedule([tasks EXCEPT ![current_task] = rec]) /\ UNCHANGED history
    BY <1>1, Zenon DEF BlockOn
  <2> HIDE DEF rec
  <2> QED BY <2>1, <2>2, <2>3, WaitingHandedOver
<1>2. ASSUME NEW target \in Pids \cup {AnyChild}, WaitpidBlock(target)
      PROVE  \E ts \in [Slots -> Task], now \in 0 .. TickWrap - 1 : HandedOver(ts, now)
  <2> DEFINE rec == [tasks[current_task] EXCEPT !.wait_target_pid = target,
                                                !.block_reason = "WAITPID", !.state = "BLOCKED"]
  <2>1. UserRunning /\ current_task \in Slots /\ tasks[current_task] \in Task
    BY <1>2, RunningTable DEF WaitpidBlock, UserRunning
  <2>2. rec \in Task /\ rec.state = "BLOCKED" /\ rec.kind = tasks[current_task].kind
    BY <2>1, Zenon DEF Task, States
  <2>3. SyscallSchedule([tasks EXCEPT ![current_task] = rec]) /\ UNCHANGED history
    BY <1>2, Zenon DEF WaitpidBlock
  <2> HIDE DEF rec
  <2> QED BY <2>1, <2>2, <2>3, WaitingHandedOver
<1> QED BY <1>1, <1>2

\* exit hands over the table with the caller a zombie; of the other zombies, only those
\* among its children may have become ready to be collected.
LEMMA ExitHandedOver ==
  ASSUME Inv, Exit
  PROVE  \E ts \in [Slots -> Task], now \in 0 .. TickWrap - 1 : HandedOver(ts, now)
<1>1. PICK parent \in Slots \cup {NoTask} :
        /\ FindByPid(Dead, Dead[current_task].parent_pid, parent)
        /\ SyscallSchedule(NotifyParentExit(Dead, parent, current_task))
  BY DEF Exit, Dead
<1> DEFINE r == ReparentChildren(tasks, current_task)
           fin == NotifyParentExit(Dead, parent, current_task)
<1>2. /\ UserRunning /\ current_task \in Slots /\ tasks \in [Slots -> Task]
      /\ tasks[current_task].state = "RUNNING" /\ OnlyCurrent(tasks)
      /\ current_task # idle_task
      /\ reported \subseteq reported' /\ reportFailed \subseteq reportFailed'
  BY RunningTable DEF Exit, UserRunning, Report
<1>3. /\ fin \in [Slots -> Task] /\ fin[current_task].state = "ZOMBIE"
      /\ \A s \in Slots : /\ fin[s].kind = Dead[s].kind
                          /\ fin[s] = Dead[s] \/ s = current_task
                               \/ (Dead[s].state = "BLOCKED" /\ fin[s].state = "RUNNABLE")
  <2>1. /\ fin \in [Slots -> Task] /\ fin[current_task].state = "ZOMBIE"
        /\ \A s \in Slots : /\ fin[s].pid = Dead[s].pid /\ fin[s].kind = Dead[s].kind
                            /\ fin[s].parent_pid = Dead[s].parent_pid
                            /\ fin[s] = Dead[s] \/ s = current_task
                                 \/ (/\ s = parent /\ Waits(Dead, parent, current_task)
                                     /\ Dead[s].state = "BLOCKED" /\ fin[s].state = "RUNNABLE"
                                     /\ fin[s].reap_ready = Dead[s].reap_ready)
    BY <1>1, <1>2, Notified, Zenon
  <2> HIDE DEF fin
  <2> QED BY <2>1
<1>4. \A s \in Slots : Dead[s].kind = tasks[s].kind /\ (s # current_task => Dead[s] = r[s])
  BY <1>2, DeadTable, Zenon
<1>5. ASSUME NEW s \in Slots
      PROVE  /\ r[s].state = tasks[s].state /\ r[s].wake_tick = tasks[s].wake_tick
             /\ r[s].reap_ready => \/ tasks[s].reap_ready
                                   \/ tasks[s].parent_pid = tasks[current_task].pid
  <2>1. r[s].state = tasks[s].state
    BY <1>2, Reparented, Zenon
  <2>2. r[s].wake_tick = tasks[s].wake_tick
    BY <1>2, Zenon DEF ReparentChildren, Task
  <2>3. r[s].reap_ready => \/ tasks[s].reap_ready
                           \/ tasks[s].parent_pid = tasks[current_task].pid
    BY <1>2, Zenon DEF ReparentChildren
  <2> QED BY <2>1, <2>2, <2>3
<1>6. Schedule(fin, EnsuredTick) /\ tick_count' = EnsuredTick
  BY <1>1 DEF SyscallSchedule
<1> HIDE DEF fin, r
<1>7. ASSUME NEW s \in Slots, s # current_task
      PROVE  /\ tasks[s].state # "RUNNING" /\ fin[s].state # "RUNNING"
             /\ tasks[s].state # "BLOCKED" => fin[s] = r[s]
  BY <1>2, <1>3, <1>4, <1>5, <1>7 DEF OnlyCurrent
<1>8. OnlyCurrent(fin) /\ IdleReady(fin)
  <2>1. OnlyCurrent(fin)
    BY <1>7 DEF OnlyCurrent
  <2>2. /\ idle_task \in Slots /\ tasks[idle_task].state = "RUNNABLE"
        /\ tasks[idle_task].kind = "KERNEL"
    BY <1>2, InvParts DEF IdleReady, OnlyCurrent
  <2>3. fin[idle_task].state = "RUNNABLE" /\ fin[idle_task].kind = "KERNEL"
    BY <1>2, <1>3, <1>4, <1>5, <1>7, <2>2
  <2> QED BY <2>1, <2>2, <2>3 DEF IdleReady
<1>9. ASSUME NEW s \in Slots, tasks[s].state = "ZOMBIE"
      PROVE  /\ fin[s].state = "ZOMBIE"
             /\ fin[s].reap_ready => \/ tasks[s].reap_ready
                                     \/ tasks[s].parent_pid = tasks[current_task].pid
  BY <1>2, <1>5, <1>7, <1>9
<1>10. ASSUME NEW s \in Slots, tasks[s].state = "SLEEPING"
       PROVE  fin[s].state = "SLEEPING" /\ fin[s].wake_tick = tasks[s].wake_tick
  BY <1>2, <1>5, <1>7, <1>10
<1>11. HandedOver(fin, EnsuredTick)
  BY <1>2, <1>3, <1>6, <1>8, <1>9, <1>10, SyscallTick DEF HandedOver
<1>12. EnsuredTick \in 0 .. TickWrap - 1
  BY OneTick, TickInRange DEF Inv, TypeOK, EnsuredTick
<1> QED BY <1>3, <1>11, <1>12

\* What proc_schedule makes of such a table is released only once the parent was told, or
\* with the parent.
LEMMA HandedOverReleases ==
  ASSUME Inv, NEW ts \in [Slots -> Task], NEW now, HandedOver(ts, now)
  PROVE  ReleaseStep
<1>1. /\ current_task \in Slots /\ tasks'[current_task].state # "UNUSED"
      /\ tasks' \in [Slots -> Task]
      /\ \A s \in Slots : SlotStep(ts[s], tasks'[s])
  BY ScheduleStep DEF HandedOver, Inv, TypeOK
<1>2. ASSUME NEW s \in Slots, NEW p \in Slots,
             tasks[s].state = "ZOMBIE", tasks'[s].state = "UNUSED",
             tasks[p].state # "UNUSED", tasks[p].pid = tasks[s].parent_pid,
             tasks'[p].state # "ZOMBIE"
      PROVE  tasks[s].pid \in (reported \cup reportFailed)'
  <2>1. /\ ts[s].state = "ZOMBIE" /\ ts[s].reap_ready
    BY <1>1, <1>2, SlotReap DEF HandedOver
  <2>2. CASE tasks[s].reap_ready
    <3>1. tasks[s].parent_pid # 0
      BY <1>2, InvParts DEF PidsIn, TypeOK
    <3>2. tasks[s].pid \in reported \cup reportFailed
      BY <2>2, <3>1, InvParts DEF SettledIn
    <3> QED BY <3>2 DEF HandedOver
  <2>3. CASE tasks[s].parent_pid = tasks[current_task].pid /\ ts[current_task].state = "ZOMBIE"
    <3>1. current_task # NoTask
      BY <1>1 DEF NoTask, Slots
    <3>2. tasks[current_task].state # "UNUSED"
      BY <3>1, RunningTable
    <3>3. p = current_task
      BY <1>1, <1>2, <2>3, <3>2, InvParts DEF PidsIn
    <3>4. tasks'[p].state \in {"ZOMBIE", "UNUSED"}
      BY <1>1, <2>3, <3>3 DEF SlotStep, Unused
    <3> QED BY <1>1, <1>2, <3>3, <3>4
  <2>4. \/ tasks[s].reap_ready
        \/ tasks[s].parent_pid = tasks[current_task].pid /\ ts[current_task].state = "ZOMBIE"
    BY <1>2, <2>1, Zenon DEF HandedOver
  <2> QED BY <2>2, <2>3, <2>4
<1> QED BY <1>1, <1>2 DEF ReleaseStep

\* Boot, fork and a waitpid that collects change the table in place: only waitpid releases
\* a slot, that of a zombie whose pid it returns.
LEMMA InPlaceReleases ==
  ASSUME Inv, EnterInitialTask \/ Fork \/ \E target \in Pids \cup {AnyChild} : WaitpidCollect(target)
  PROVE  ReleaseStep
<1>1. CASE EnterInitialTask
  BY <1>1 DEF EnterInitialTask, ReleaseStep, Inv, Booting
<1>2. CASE Fork
  <2> DEFINE rec == [BootTask("USER", next_pid) EXCEPT !.parent_pid = tasks[current_task].pid]
  <2>1. PICK child \in Slots : FindUnused(tasks, child) /\ tasks' = [tasks EXCEPT ![child] = rec]
    BY <1>2, Zenon DEF Fork
  <2> HIDE DEF rec
  <2>2. tasks[child].state = "UNUSED"
    BY <2>1 DEF FindUnused, IsFirst, NoTask, Slots
  <2>3. /\ current_task \in Slots /\ tasks[current_task].state = "RUNNING"
        /\ tasks \in [Slots -> Task]
    BY <1>2, RunningTable DEF Fork, UserRunning
  <2>4. \A s \in Slots : tasks[s].state # "UNUSED" => tasks'[s] = tasks[s]
    BY <2>1, <2>2, <2>3
  <2> QED BY <2>3, <2>4 DEF ReleaseStep
<1>3. ASSUME NEW target \in Pids \cup {AnyChild}, WaitpidCollect(target)
      PROVE  ReleaseStep
  <2>1. PICK child \in Slots : /\ FindZombieChild(current_task, target, child)
                               /\ tasks' = [tasks EXCEPT ![child] = Unused]
                               /\ Report({tasks[child].pid})
    BY <1>3, Zenon DEF WaitpidCollect
  <2>2. tasks[child].state = "ZOMBIE" /\ tasks[child].pid \in reported'
    BY <2>1 DEF FindZombieChild, IsFirst, NoTask, Slots, Report
  <2>3. /\ current_task \in Slots /\ tasks[current_task].state = "RUNNING"
        /\ tasks \in [Slots -> Task]
    BY <1>3, RunningTable DEF WaitpidCollect, UserRunning
  <2>4. \A s \in Slots : s # child => tasks'[s] = tasks[s]
    BY <2>1, <2>3
  <2> QED BY <2>2, <2>3, <2>4 DEF ReleaseStep
<1> QED BY <1>1, <1>2, <1>3

\* Every step that is not one of those hands its table over to proc_schedule.
LEMMA NextHandsOver ==
  ASSUME Inv, Next
  PROVE  \/ EnterInitialTask \/ Fork \/ \E target \in Pids \cup {AnyChild} : WaitpidCollect(target)
         \/ \E ts \in [Slots -> Task], now \in 0 .. TickWrap - 1 : HandedOver(ts, now)
<1>1. ASSUME NEW ticks \in SleepTicks, Sleep(ticks)
      PROVE  \E ts \in [Slots -> Task], now \in 0 .. TickWrap - 1 : HandedOver(ts, now)
  BY <1>1, SleepHandedOver
<1> QED BY <1>1, UneditedHandedOver, BlockingHandedOver, ExitHandedOver DEF Next, Syscall

\* No slot is released too early, for every table size and in whatever order tasks exit and
\* wait: not while its own kernel stack is in use, and not before a living parent was answered.
THEOREM SlotsReleasedSafely == Spec => ReleasedSafely
<1>1. Inv /\ Next => ReleaseStep
  BY NextHandsOver, HandedOverReleases, InPlaceReleases
<1>2. Inv /\ [Next]_vars => [ReleaseStep]_vars
  BY <1>1
<1> QED BY InitInv, NextInv, <1>2, PTL DEF Spec, ReleasedSafely, ReleaseStep

-----------------------------------------------------------------------------
(* The clock and the sleepers *)

\* What a sleeper's wake_tick says: it is still ahead of the clock, by at most the half
\* of the counter's range that the signed comparison can tell from the past.
SleepersAhead == \A s \in Slots : tasks[s].state = "SLEEPING" => Before(tick_count, tasks[s].wake_tick)

\* The step property of WakesOnTime.
WakeStep ==
  /\ \A s \in Slots :
       tasks[s].state = "SLEEPING" /\ tasks'[s].state # "SLEEPING" =>
         tick_count' = tasks[s].wake_tick
  /\ \A s \in Slots :
       tasks'[s].state = "SLEEPING" => Before(tick_count', tasks'[s].wake_tick)
  /\ \A ticks \in SleepTicks :
       Sleep(ticks) /\ tasks'[current_task].state # "SLEEPING" =>
         tick_count' = TickSum(tick_count, ticks)

\* A wake tick that is ahead of the clock and no longer ahead when the clock moves by at most
\* one tick is the tick the clock moves to.
LEMMA NotSkipped ==
  ASSUME NEW t \in 0 .. TickWrap - 1, NEW w \in 0 .. TickWrap - 1, NEW now,
         now \in {t, TickSum(t, 1)}, Before(t, w), ~Before(now, w)
  PROVE  now = w
BY TickAssumption DEF TickAssumption, TickWrap, Before, TickDifference, TickSum

\* A sleep of at most half the range ends ahead of the clock.
LEMMA SleepsAhead ==
  ASSUME NEW t \in 0 .. TickWrap - 1, NEW ticks \in SleepTicks
  PROVE  Before(t, TickSum(t, ticks))
<1>1. HalfRange \in Nat \ {0} /\ ticks \in 1 .. HalfRange
  BY TickAssumption DEF TickAssumption
<1> QED BY <1>1 DEF TickWrap, Before, TickDifference, TickSum

\* proc_schedule wakes exactly the sleepers whose tick is no longer ahead.
LEMMA ScheduleWakes ==
  ASSUME NEW ts \in [Slots -> Task], NEW now, current_task \in Slots,
         OnlyCurrent(ts), IdleReady(ts), Schedule(ts, now),
         init_task \in Slots \cup {NoTask}, NEW s \in Slots
  PROVE  /\ tasks'[s].state = "SLEEPING" => Before(now, tasks'[s].wake_tick)
         /\ ts[s].state = "SLEEPING" /\ tasks'[s].state # "SLEEPING" => ~Before(now, ts[s].wake_tick)
<1> DEFINE off == Deschedule(ts)
           awake == WakeSleepers(off, now)
<1>1. PICK done \in SUBSET DeviceBlocked(awake), next \in Slots :
        /\ PickNext(CollectReapable(CompleteBlocked(awake, done)), next)
        /\ Activate(CollectReapable(CompleteBlocked(awake, done)), next)
  BY DEF Schedule
<1> DEFINE ready == CompleteBlocked(awake, done)
           swept == CollectReapable(ready)
<1>2. /\ off \in [Slots -> Task] /\ awake \in [Slots -> Task]
      /\ ready \in [Slots -> Task] /\ swept \in [Slots -> Task]
  BY DescheduleStage, WakeStage, CompleteStage, CollectStage
<1>3. ASSUME NEW q \in Slots
      PROVE  /\ off[q] = ts[q] \/ (ts[q].state = "RUNNING" /\ off[q].state = "RUNNABLE")
             /\ off[q].state # "RUNNING"
  <2>1. [ts[q] EXCEPT !.state = "RUNNABLE"].state = "RUNNABLE"
    BY DEF Task
  <2> QED BY <2>1, DescheduleStage
<1>4. ASSUME NEW q \in Slots
      PROVE  \/ awake[q] = off[q] /\ (off[q].state = "SLEEPING" => Before(now, off[q].wake_tick))
             \/ off[q].state = "SLEEPING" /\ awake[q].state = "RUNNABLE" /\ ~Before(now, off[q].wake_tick)
  <2>1. CASE off[q].state = "SLEEPING" /\ ~Before(now, off[q].wake_tick)
    <3>1. awake[q] = [off[q] EXCEPT !.state = "RUNNABLE", !.wake_tick = 0]
      BY <2>1, Zenon DEF WakeSleepers
    <3>2. awake[q].state = "RUNNABLE"
      BY <1>2, <3>1 DEF Task
    <3> QED BY <2>1, <3>2
  <2>2. CASE ~(off[q].state = "SLEEPING" /\ ~Before(now, off[q].wake_tick))
    <3>1. awake[q] = off[q]
      BY <2>2, Zenon DEF WakeSleepers
    <3> QED BY <2>2, <3>1
  <2> QED BY <2>1, <2>2
<1>5. ASSUME NEW q \in Slots
      PROVE  \/ ready[q] = awake[q]
             \/ awake[q].state = "BLOCKED" /\ ready[q].state = "RUNNABLE"
  <2>1. CASE q \in done
    <3>1. ready[q] = [awake[q] EXCEPT !.state = "RUNNABLE", !.block_reason = "NONE"]
      BY <2>1 DEF CompleteBlocked
    <3>2. awake[q].state = "BLOCKED"
      BY <2>1 DEF DeviceBlocked
    <3>3. ready[q].state = "RUNNABLE"
      BY <1>2, <3>1 DEF Task
    <3> QED BY <3>2, <3>3
  <2>2. CASE q \notin done
    BY <2>2 DEF CompleteBlocked
  <2> QED BY <2>1, <2>2
<1>6. ASSUME NEW q \in Slots
      PROVE  \/ swept[q] = ready[q]
             \/ ready[q].state = "ZOMBIE" /\ swept[q].state = "UNUSED"
  BY DEF CollectReapable, Unused
<1>7. swept[idle_task].state = "RUNNABLE"
  <2>1. idle_task \in Slots /\ ts[idle_task].state \in {"RUNNABLE", "RUNNING"}
    BY DEF IdleReady
  <2> HIDE DEF off, awake, ready, swept
  <2>2. off[idle_task].state = "RUNNABLE"
    BY <1>3, <2>1
  <2>3. awake[idle_task].state = "RUNNABLE"
    BY <1>4, <2>1, <2>2
  <2>4. ready[idle_task].state = "RUNNABLE"
    BY <1>5, <2>1, <2>3
  <2> QED BY <1>6, <2>1, <2>4
<1>8. \/ tasks'[s] = swept[s]
      \/ tasks'[s].state = "RUNNING" /\ swept[s].state = "RUNNABLE"
  <2> HIDE DEF swept
  <2>1. tasks' = [swept EXCEPT ![next].state = "RUNNING"] /\ current_task' = next
    BY <1>1 DEF Activate, swept
  <2>2. CASE s = next
    <3>1. tasks'[s].state = "RUNNING" /\ tasks'[s] = [swept[s] EXCEPT !.state = "RUNNING"]
      BY <1>2, <2>1, <2>2 DEF Task
    <3>2. PickNext(swept, next)
      BY <1>1 DEF swept
    <3> QED BY <2>2, <3>1, <3>2, <1>7 DEF PickNext, IdleReady, NoTask, Slots
  <2>3. CASE s # next
    BY <1>2, <2>1, <2>3
  <2> QED BY <2>2, <2>3
<1> HIDE DEF off, awake, ready, swept
<1> QED BY <1>3, <1>4, <1>5, <1>6, <1>8

\* A handler that ends in proc_schedule wakes nobody early or late.
LEMMA HandedOverWakes ==
  ASSUME Inv, SleepersAhead, NEW ts \in [Slots -> Task], NEW now, HandedOver(ts, now),
         NEW s \in Slots
  PROVE  /\ tasks[s].state = "SLEEPING" /\ tasks'[s].state # "SLEEPING" =>
              tick_count' = tasks[s].wake_tick
         /\ tasks'[s].state = "SLEEPING" => Before(tick_count', tasks'[s].wake_tick)
<1>1. /\ tasks'[s].state = "SLEEPING" => Before(now, tasks'[s].wake_tick)
      /\ ts[s].state = "SLEEPING" /\ tasks'[s].state # "SLEEPING" => ~Before(now, ts[s].wake_tick)
  BY ScheduleWakes DEF HandedOver, Inv, TypeOK
<1>2. ASSUME tasks[s].state = "SLEEPING", tasks'[s].state # "SLEEPING"
      PROVE  now = tasks[s].wake_tick
  <2>1. ~Before(now, tasks[s].wake_tick)
    BY <1>1, <1>2 DEF HandedOver
  <2>2. Before(tick_count, tasks[s].wake_tick)
    BY <1>2 DEF SleepersAhead
  <2>3. tick_count \in 0 .. TickWrap - 1 /\ tasks[s].wake_tick \in 0 .. TickWrap - 1
    BY DEF Inv, TypeOK, Task
  <2>4. now \in {tick_count, TickSum(tick_count, 1)}
    BY DEF HandedOver
  <2> QED BY <2>1, <2>2, <2>3, <2>4, NotSkipped
<1>3. tick_count' = now
  BY DEF HandedOver
<1> QED BY <1>1, <1>2, <1>3

\* A sleep that ends within the call ends at the tick it asked for.
LEMMA SleepEndsOnTime ==
  ASSUME Inv, NEW ticks \in SleepTicks, Sleep(ticks), tasks'[current_task].state # "SLEEPING"
  PROVE  tick_count' = TickSum(tick_count, ticks)
<1>1. PICK ts \in [Slots -> Task], now \in 0 .. TickWrap - 1 :
        /\ HandedOver(ts, now) /\ ts[current_task].state = "SLEEPING"
        /\ ts[current_task].wake_tick = TickSum(tick_count, ticks)
  BY SleepHandedOver
<1>2. ~Before(now, TickSum(tick_count, ticks))
  BY <1>1, ScheduleWakes DEF HandedOver, Inv, TypeOK
<1>3. /\ tick_count \in 0 .. TickWrap - 1
      /\ TickSum(tick_count, ticks) \in 0 .. TickWrap - 1
  BY TickInRange, TickAssumption DEF TickAssumption, Inv, TypeOK
<1>4. now \in {tick_count, TickSum(tick_count, 1)} /\ tick_count' = now
  BY <1>1 DEF HandedOver
<1> QED BY <1>2, <1>3, <1>4, SleepsAhead, NotSkipped

\* Boot, fork and a waitpid that collects leave the clock and the sleepers alone.
LEMMA InPlaceSleepers ==
  ASSUME Inv, EnterInitialTask \/ Fork \/ \E target \in Pids \cup {AnyChild} : WaitpidCollect(target),
         NEW s \in Slots
  PROVE  /\ tick_count' = tick_count
         /\ tasks[s].state = "SLEEPING" => tasks'[s].state = "SLEEPING"
         /\ tasks'[s].state = "SLEEPING" => tasks'[s] = tasks[s]
<1>1. CASE EnterInitialTask
  <2>1. PICK next \in Slots : tasks' = [tasks EXCEPT ![next].state = "RUNNING"]
    BY <1>1 DEF EnterInitialTask, Activate
  <2>2. /\ tasks \in [Slots -> Task] /\ tasks[s].state # "SLEEPING" /\ tick_count' = tick_count
    BY <1>1 DEF EnterInitialTask, Inv, TypeOK, Booting, clock
  <2>3. tasks'[s].state # "SLEEPING"
    BY <2>1, <2>2 DEF Task
  <2> QED BY <2>2, <2>3
<1>2. CASE Fork
  <2> DEFINE rec == [BootTask("USER", next_pid) EXCEPT !.parent_pid = tasks[current_task].pid]
  <2>1. PICK child \in Slots : FindUnused(tasks, child) /\ tasks' = [tasks EXCEPT ![child] = rec]
    BY <1>2, Zenon DEF Fork
  <2>2. rec.state = "RUNNABLE"
    BY DEF BootTask, Unused
  <2> HIDE DEF rec
  <2>3. tasks[child].state = "UNUSED" /\ tasks \in [Slots -> Task] /\ tick_count' = tick_count
    BY <1>2, <2>1 DEF FindUnused, IsFirst, NoTask, Slots, Inv, TypeOK, Fork, clock
  <2> QED BY <2>1, <2>2, <2>3
<1>3. ASSUME NEW target \in Pids \cup {AnyChild}, WaitpidCollect(target)
      PROVE  /\ tick_count' = tick_count
             /\ tasks[s].state = "SLEEPING" => tasks'[s].state = "SLEEPING"
             /\ tasks'[s].state = "SLEEPING" => tasks'[s] = tasks[s]
  <2>1. PICK child \in Slots : /\ FindZombieChild(current_task, target, child)
                               /\ tasks' = [tasks EXCEPT ![child] = Unused]
    BY <1>3, Zenon DEF WaitpidCollect
  <2>2. tasks[child].state = "ZOMBIE" /\ tasks \in [Slots -> Task] /\ tick_count' = tick_count
    BY <1>3, <2>1 DEF FindZombieChild, IsFirst, NoTask, Slots, Inv, TypeOK, WaitpidCollect, clock
  <2>3. Unused.state = "UNUSED"
    BY DEF Unused
  <2> QED BY <2>1, <2>2, <2>3
<1> QED BY <1>1, <1>2, <1>3

\* Every step wakes on time and leaves the remaining sleepers ahead of the clock.
LEMMA NextWakes ==
  ASSUME Inv, SleepersAhead, Next
  PROVE  WakeStep /\ SleepersAhead'
<1>1. ASSUME NEW s \in Slots
      PROVE  /\ tasks[s].state = "SLEEPING" /\ tasks'[s].state # "SLEEPING" =>
                  tick_count' = tasks[s].wake_tick
             /\ tasks'[s].state = "SLEEPING" => Before(tick_count', tasks'[s].wake_tick)
  <2>1. CASE EnterInitialTask \/ Fork \/ \E target \in Pids \cup {AnyChild} : WaitpidCollect(target)
    <3>1. /\ tick_count' = tick_count
          /\ tasks[s].state = "SLEEPING" => tasks'[s].state = "SLEEPING"
          /\ tasks'[s].state = "SLEEPING" => tasks'[s] = tasks[s]
      BY <2>1, InPlaceSleepers
    <3> QED BY <3>1 DEF SleepersAhead
  <2>2. CASE \E ts \in [Slots -> Task], now \in 0 .. TickWrap - 1 : HandedOver(ts, now)
    BY <2>2, HandedOverWakes
  <2> QED BY <2>1, <2>2, NextHandsOver
<1>2. \A ticks \in SleepTicks :
        Sleep(ticks) /\ tasks'[current_task].state # "SLEEPING" =>
          tick_count' = TickSum(tick_count, ticks)
  BY SleepEndsOnTime
<1>3. WakeStep
  BY <1>1, <1>2 DEF WakeStep
<1>4. SleepersAhead'
  BY <1>1 DEF SleepersAhead, Before, TickDifference
<1> QED BY <1>3, <1>4

\* Sleepers wake at exactly their tick, for every counter width and table size and every
\* interleaving of calls and interrupts: the signed comparison of proc_wake_sleepers is right
\* across the wrap-around for every sleep of at most half the counter's range.
THEOREM SleepersWakeOnTime == Spec => WakesOnTime
<1>1. Init => SleepersAhead
  <2> SUFFICES ASSUME Init, NEW s \in Slots PROVE tasks[s].state # "SLEEPING"
    BY DEF SleepersAhead
  <2> QED BY InitInv DEF Init, Inv, Booting
<1>2. Inv /\ SleepersAhead /\ [Next]_vars => (Inv /\ SleepersAhead)'
  <2>1. Inv /\ SleepersAhead /\ UNCHANGED vars => SleepersAhead'
    BY DEF SleepersAhead, vars, sched, clock, Before, TickDifference
  <2> QED BY <2>1, NextInv, NextWakes
<1>3. Inv /\ SleepersAhead /\ [Next]_vars => [WakeStep]_vars
  BY NextWakes
<1> QED BY InitInv, <1>1, <1>2, <1>3, PTL DEF Spec, WakesOnTime, WakeStep
=============================================================================
