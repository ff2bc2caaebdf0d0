-------------------------------- MODULE Proc --------------------------------
(***************************************************************************)
(* The task table and the scheduler of src/kernel/proc.c: task creation at *)
(* boot, fork, exit, waitpid, sleep, yield, blocking on a device, and      *)
(* proc_schedule, which every one of them and the timer interrupt ends in. *)
(*                                                                         *)
(* The machine has one CPU and every IDT gate is an interrupt gate, so a   *)
(* system call or an interrupt handler runs to completion before any other *)
(* starts: one action per handler, proc_schedule included.                 *)
(*                                                                         *)
(* What input_poll, net_poll, proc_service_blocked_io and                  *)
(* proc_service_blocked_net find ready is decided by devices, pipes and    *)
(* the network; here any set of the tasks blocked on one may complete.     *)
(***************************************************************************)
EXTENDS Integers

CONSTANTS
  MAX_TASKS,     \* slots of tasks[]; 8 in proc.c
  Workers,       \* worker kernel tasks started at boot: 2, or 0 with no serial line
  MaxPid,        \* bound: no fork is modelled past this pid
  HalfRange,     \* half the range of the tick counter; 2^31 in the code
  SleepTicks,    \* arguments passed to sleep
  DeviceReasons  \* the block reasons of this instance that a device resolves

NoTask == -1
Slots == 0 .. MAX_TASKS - 1
Pids == 1 .. MaxPid
AnyChild == -1
TickWrap == 2 * HalfRange

ASSUME TableAssumption == /\ MAX_TASKS \in Nat
                          /\ Workers \in 0 .. 2
                          /\ MAX_TASKS >= 2 + Workers
                          /\ MaxPid \in Nat
                          /\ MaxPid >= 2 + Workers

ASSUME TickAssumption == /\ HalfRange \in Nat \ {0}
                         /\ SleepTicks \subseteq 1 .. HalfRange

ASSUME ReasonAssumption == DeviceReasons \subseteq {"IO_READ", "IO_WRITE", "NET_PING"}

VARIABLES
  tasks,               \* the task table
  current_task,        \* the slot on the CPU; NoTask until the first task is entered
  idle_task,           \* the slot of the idle task
  init_task,           \* the slot of the init task, NoTask when there is none
  next_pid,            \* the pid the next task gets
  tick_count,          \* the PIT tick counter
  hardware_tick_seen,  \* a timer interrupt has been delivered
  reported,            \* history: pids whose exit a waitpid returned
  reportedAgain,       \* history: pids whose exit waitpid returned more than once
  reportFailed         \* history: pids settled by a waitpid that failed in its copy-out

sched == <<tasks, current_task, idle_task, init_task>>
clock == <<tick_count, hardware_tick_seen>>
history == <<reported, reportedAgain, reportFailed>>
vars == <<sched, next_pid, clock, history>>

-----------------------------------------------------------------------------
(* The task table *)

States == {"UNUSED", "RUNNABLE", "RUNNING", "BLOCKED", "SLEEPING", "ZOMBIE"}

Task == [state : States,
         kind : {"KERNEL", "USER"},
         pid : 0 .. MaxPid,
         parent_pid : 0 .. MaxPid,
         wait_target_pid : Pids \cup {AnyChild},
         block_reason : {"NONE", "WAITPID"} \cup DeviceReasons,
         wake_tick : 0 .. TickWrap - 1,
         reap_ready : BOOLEAN]

\* task_reset: what an unused slot holds.
Unused == [state |-> "UNUSED", kind |-> "KERNEL", pid |-> 0, parent_pid |-> 0,
           wait_target_pid |-> AnyChild, block_reason |-> "NONE",
           wake_tick |-> 0, reap_ready |-> FALSE]

\* A loop over the table that stops at the first slot of S: r is what it finds.
IsFirst(r, S) == IF S = {} THEN r = NoTask
                           ELSE r \in S /\ \A s \in S : r <= s

FindByPid(ts, pid, r) ==
  IsFirst(r, {s \in Slots : pid # 0 /\ ts[s].state # "UNUSED" /\ ts[s].pid = pid})

FindUnused(ts, r) == IsFirst(r, {s \in Slots : ts[s].state = "UNUSED"})

\* A pointer to a task is cleared when task_release_resources resets its slot.
Pointer(ptr, ts) == IF ptr \in Slots /\ ts[ptr].state = "UNUSED" THEN NoTask ELSE ptr

-----------------------------------------------------------------------------
(* proc_schedule and its parts *)

\* The outgoing task gives up the CPU; one that has already blocked, gone to
\* sleep or exited keeps that state.
Deschedule(ts) ==
  IF current_task # NoTask /\ ts[current_task].state = "RUNNING"
    THEN [ts EXCEPT ![current_task].state = "RUNNABLE"] ELSE ts

\* Sum and difference on the unsigned tick counter.
TickSum(a, b) == IF a + b >= TickWrap THEN a + b - TickWrap ELSE a + b
TickDifference(a, b) == IF a >= b THEN a - b ELSE a - b + TickWrap

\* (int32_t)(now - wake) < 0
Before(now, wake) == TickDifference(now, wake) >= HalfRange

\* Mutant: a comparison that ignores the wrap-around.
WakeSleepersUnsigned(ts, now) ==
  [s \in Slots |-> IF ts[s].state = "SLEEPING" /\ now >= ts[s].wake_tick
                     THEN [ts[s] EXCEPT !.state = "RUNNABLE", !.wake_tick = 0]
                     ELSE ts[s]]

WakeSleepers(ts, now) ==
  [s \in Slots |-> IF ts[s].state = "SLEEPING" /\ ~Before(now, ts[s].wake_tick)
                     THEN [ts[s] EXCEPT !.state = "RUNNABLE", !.wake_tick = 0]
                     ELSE ts[s]]

DeviceBlocked(ts) ==
  {s \in Slots : ts[s].state = "BLOCKED" /\ ts[s].block_reason \in DeviceReasons}

CompleteBlocked(ts, done) ==
  [s \in Slots |-> IF s \in done
                     THEN [ts[s] EXCEPT !.state = "RUNNABLE", !.block_reason = "NONE"]
                     ELSE ts[s]]

\* Mutant: the current task is not spared.
CollectReapableOwn(ts) ==
  [s \in Slots |-> IF ts[s].state = "ZOMBIE" /\ ts[s].reap_ready THEN Unused ELSE ts[s]]

\* Mutant: only orphans are collected.
CollectReapableOrphans(ts) ==
  [s \in Slots |-> IF /\ s # current_task /\ ts[s].state = "ZOMBIE"
                      /\ ts[s].reap_ready /\ ts[s].parent_pid = 0
                     THEN Unused ELSE ts[s]]

CollectReapable(ts) ==
  [s \in Slots |-> IF s # current_task /\ ts[s].state = "ZOMBIE" /\ ts[s].reap_ready
                     THEN Unused ELSE ts[s]]

\* Slots after current_task in table order, wrapping around; current_task is last.
Distance(from, s) == IF s > from THEN s - from ELSE s - from + MAX_TASKS

\* Mutant: the search always starts at slot 0.
PickNextLowest(ts, next) ==
  LET ready == {s \in Slots : s # idle_task /\ ts[s].state = "RUNNABLE"}
  IN  IF ready # {} THEN next \in ready /\ \A s \in ready : next <= s
                    ELSE next = idle_task

PickNext(ts, next) ==
  LET ready == {s \in Slots : s # idle_task /\ ts[s].state = "RUNNABLE"}
  IN  IF ready # {}
        THEN next \in ready
             /\ \A s \in ready : Distance(current_task, next) <= Distance(current_task, s)
        ELSE next = IF idle_task # NoTask /\ ts[idle_task].state = "RUNNABLE"
                      THEN idle_task ELSE current_task

Activate(ts, next) == /\ tasks' = [ts EXCEPT ![next].state = "RUNNING"]
                      /\ current_task' = next

\* proc_schedule, on the table the handler leaves it and the tick it reads.
Schedule(ts, now) ==
  LET awake == WakeSleepers(Deschedule(ts), now)
  IN  \E done \in SUBSET DeviceBlocked(awake), next \in Slots :
        LET swept == CollectReapable(CompleteBlocked(awake, done))
        IN  /\ PickNext(swept, next)
            /\ Activate(swept, next)
            /\ idle_task' = Pointer(idle_task, swept)
            /\ init_task' = Pointer(init_task, swept)

\* Mutant: nothing but the timer interrupt advances the clock.
EnsuredTickNever == tick_count

\* pit_ensure_progress: with no timer interrupt yet, scheduling advances the clock.
EnsuredTick == IF hardware_tick_seen THEN tick_count ELSE TickSum(tick_count, 1)

\* A system call that ends in proc_schedule.
SyscallSchedule(ts) == /\ Schedule(ts, EnsuredTick)
                       /\ tick_count' = EnsuredTick
                       /\ UNCHANGED hardware_tick_seen

-----------------------------------------------------------------------------
(* Boot *)

BootTask(kind, pid) == [Unused EXCEPT !.state = "RUNNABLE", !.kind = kind, !.pid = pid]

\* proc_init and proc_start_boot_tasks: idle, then /bin/init unless its image
\* cannot be loaded, then the workers, in consecutive slots with pids from 1.
BootTable(initLoaded) ==
  LET booted == 1 + (IF initLoaded THEN 1 ELSE 0) + Workers
  IN  [s \in Slots |-> IF s < booted
                         THEN BootTask(IF initLoaded /\ s = 1 THEN "USER" ELSE "KERNEL", s + 1)
                         ELSE Unused]

Init == \E initLoaded \in BOOLEAN :
          /\ tasks = BootTable(initLoaded)
          /\ current_task = NoTask
          /\ idle_task = 0
          /\ init_task = IF initLoaded THEN 1 ELSE NoTask
          /\ next_pid = (IF initLoaded THEN 3 ELSE 2) + Workers
          /\ tick_count = 0
          /\ hardware_tick_seen = FALSE
          /\ reported = {} /\ reportedAgain = {} /\ reportFailed = {}

EnterInitialTask == /\ current_task = NoTask
                    /\ \E next \in Slots : PickNext(tasks, next) /\ Activate(tasks, next)
                    /\ UNCHANGED <<idle_task, init_task, next_pid, clock, history>>

-----------------------------------------------------------------------------
(* Interrupts and system calls *)

\* A task takes the timer interrupt in user mode, or anywhere if it is a kernel
\* task: the handlers themselves run with interrupts off.
TimerInterrupt == LET now == TickSum(tick_count, 1)
                  IN  /\ current_task # NoTask
                      /\ Schedule(tasks, now)
                      /\ tick_count' = now
                      /\ hardware_tick_seen' = TRUE
                      /\ UNCHANGED <<next_pid, history>>

\* Any task may yield; the idle task halts instead once it has seen the timer.
Yield == /\ current_task # NoTask
         /\ current_task = idle_task => ~hardware_tick_seen
         /\ SyscallSchedule(tasks)
         /\ UNCHANGED <<next_pid, history>>

\* The calls below are made by user tasks only.
UserRunning == current_task # NoTask /\ tasks[current_task].kind = "USER"

Sleep(ticks) == /\ UserRunning
                /\ SyscallSchedule([tasks EXCEPT
                     ![current_task].wake_tick = TickSum(tick_count, ticks),
                     ![current_task].state = "SLEEPING"])
                /\ UNCHANGED <<next_pid, history>>

\* A read, write or ping4 that cannot complete at once.
BlockOn(reason) == /\ UserRunning
                   /\ SyscallSchedule([tasks EXCEPT
                        ![current_task].block_reason = reason,
                        ![current_task].state = "BLOCKED"])
                   /\ UNCHANGED <<next_pid, history>>

\* A fork that finds a slot and the memory it needs; one that does not leaves
\* the table as it was. The parent keeps the CPU.
Fork == /\ UserRunning
        /\ next_pid <= MaxPid
        /\ \E child \in Slots :
             /\ FindUnused(tasks, child)
             /\ tasks' = [tasks EXCEPT ![child] =
                  [BootTask("USER", next_pid) EXCEPT
                     !.parent_pid = tasks[current_task].pid]]
        /\ next_pid' = next_pid + 1
        /\ UNCHANGED <<current_task, idle_task, init_task, clock, history>>

-----------------------------------------------------------------------------
(* waitpid *)

WaitMatches(ts, parent, child, target) ==
  /\ ts[child].state # "UNUSED"
  /\ ts[child].parent_pid = ts[parent].pid
  /\ target < 0 \/ ts[child].pid = target

FindZombieChild(parent, target, r) ==
  IsFirst(r, {s \in Slots : WaitMatches(tasks, parent, s, target) /\ tasks[s].state = "ZOMBIE"})

Report(pids) == /\ reported' = reported \cup pids
                /\ reportedAgain' = reportedAgain \cup (reported \cap pids)

\* A matching zombie: the caller gets its pid and its slot is released at once.
\* When the status cannot be copied out the call fails and changes nothing.
WaitpidCollect(target) ==
  /\ UserRunning
  /\ \E child \in Slots :
       /\ FindZombieChild(current_task, target, child)
       /\ tasks' = [tasks EXCEPT ![child] = Unused]
       /\ Report({tasks[child].pid})
  /\ idle_task' = Pointer(idle_task, tasks')
  /\ init_task' = Pointer(init_task, tasks')
  /\ UNCHANGED <<current_task, next_pid, clock, reportFailed>>

\* No matching zombie but a matching child: the caller blocks.
WaitpidBlock(target) ==
  /\ UserRunning
  /\ FindZombieChild(current_task, target, NoTask)
  /\ \E child \in Slots : WaitMatches(tasks, current_task, child, target)
  /\ SyscallSchedule([tasks EXCEPT
       ![current_task].wait_target_pid = target,
       ![current_task].block_reason = "WAITPID",
       ![current_task].state = "BLOCKED"])
  /\ UNCHANGED <<next_pid, history>>

-----------------------------------------------------------------------------
(* exit *)

\* The children of an exiting task go to init, or to nobody when init is gone
\* or is the task that exits; a zombie left to nobody may be collected.
ReparentChildren(ts, parent) ==
  LET heir == IF /\ init_task # NoTask /\ init_task # parent
                 /\ ts[init_task].state \notin {"UNUSED", "ZOMBIE"}
                THEN ts[init_task].pid ELSE 0
  IN  [s \in Slots |->
         IF ts[s].state # "UNUSED" /\ ts[s].parent_pid = ts[parent].pid
           THEN [ts[s] EXCEPT !.parent_pid = heir,
                              !.reap_ready = @ \/ (heir = 0 /\ ts[s].state = "ZOMBIE")]
           ELSE ts[s]]

Zombie(ts, s) ==
  [ts EXCEPT ![s] = [@ EXCEPT !.state = "ZOMBIE",
                              !.wait_target_pid = AnyChild,
                              !.block_reason = "NONE",
                              !.reap_ready = (ts[s].parent_pid = 0)]]

\* The parent is blocked in a waitpid that this child's exit completes.
Waits(ts, parent, child) ==
  /\ parent # NoTask
  /\ ts[parent].state = "BLOCKED" /\ ts[parent].block_reason = "WAITPID"
  /\ WaitMatches(ts, parent, child, ts[parent].wait_target_pid)

\* The waiting parent resumes and the child may be collected, whether or not
\* its status could be copied out.
FinishBlockedWait(ts, parent, child) ==
  [ts EXCEPT ![parent] = [@ EXCEPT !.wait_target_pid = AnyChild,
                                   !.block_reason = "NONE",
                                   !.state = "RUNNABLE"],
             ![child].reap_ready = TRUE]

\* Mutant: the waiting parent is told only when no matching child is left.
NotifyParentExitLast(ts, parent, child) ==
  IF parent = NoTask THEN [ts EXCEPT ![child].parent_pid = 0, ![child].reap_ready = TRUE]
  ELSE IF /\ Waits(ts, parent, child)
          /\ \A s \in Slots : WaitMatches(ts, parent, s, ts[parent].wait_target_pid) =>
                              ts[s].state = "ZOMBIE"
    THEN FinishBlockedWait(ts, parent, child)
  ELSE ts

NotifyParentExit(ts, parent, child) ==
  IF parent = NoTask THEN [ts EXCEPT ![child].parent_pid = 0, ![child].reap_ready = TRUE]
  ELSE IF Waits(ts, parent, child) THEN FinishBlockedWait(ts, parent, child)
  ELSE ts

\* exit, and a fault in user mode, which takes the same path.
Exit ==
  /\ UserRunning
  /\ \E parent \in Slots \cup {NoTask}, copied \in BOOLEAN :
       LET dead == Zombie(ReparentChildren(tasks, current_task), current_task)
           told == IF Waits(dead, parent, current_task) THEN {dead[current_task].pid} ELSE {}
       IN  /\ FindByPid(dead, dead[current_task].parent_pid, parent)
           /\ SyscallSchedule(NotifyParentExit(dead, parent, current_task))
           /\ Report(IF copied THEN told ELSE {})
           /\ reportFailed' = reportFailed \cup (IF copied THEN {} ELSE told)
  /\ UNCHANGED next_pid

-----------------------------------------------------------------------------
Syscall == \/ Yield
           \/ \E ticks \in SleepTicks : Sleep(ticks)
           \/ \E reason \in DeviceReasons : BlockOn(reason)
           \/ Fork
           \/ \E target \in Pids \cup {AnyChild} : WaitpidCollect(target) \/ WaitpidBlock(target)
           \/ Exit

Next == EnterInitialTask \/ TimerInterrupt \/ Syscall

Spec == Init /\ [][Next]_vars

-----------------------------------------------------------------------------
(* Properties *)

Live(ts, s) == ts[s].state \notin {"UNUSED", "ZOMBIE"}

\* Type invariant of the task table, the pointers into it and the clock.
TypeOK == /\ tasks \in [Slots -> Task]
          /\ current_task \in Slots \cup {NoTask}
          /\ idle_task \in Slots \cup {NoTask}
          /\ init_task \in Slots \cup {NoTask}
          /\ next_pid \in 1 .. MaxPid + 1
          /\ tick_count \in 0 .. TickWrap - 1
          /\ hardware_tick_seen \in BOOLEAN
          /\ reported \subseteq Pids
          /\ reportedAgain \subseteq Pids
          /\ reportFailed \subseteq Pids

\* Once the first task is entered, exactly the current task is RUNNING: the CPU
\* never runs on the kernel stack of a task that was released, is a zombie or
\* waits, because proc_pick_next finds the idle task when nothing else can run.
CurrentRuns == current_task # NoTask =>
                 \A s \in Slots : tasks[s].state = "RUNNING" <=> s = current_task

\* The idle task is on the CPU only when no other task is runnable: whatever
\* makes a task runnable is followed by a scheduling decision.
IdleIsLast == current_task # NoTask /\ current_task = idle_task =>
                \A s \in Slots : tasks[s].state = "RUNNABLE" => s = idle_task

\* No two tasks, zombies included, have the same pid, and next_pid is fresh.
UniquePids == \A s, t \in Slots :
                tasks[s].state # "UNUSED" =>
                  /\ tasks[s].pid \in 1 .. next_pid - 1
                  /\ tasks[t].state # "UNUSED" /\ tasks[s].pid = tasks[t].pid => s = t

\* The parent a task or zombie names is a user task that has not exited: exit
\* leaves no child behind that names the exited task (proc_reparent_children).
ParentsLive == \A s \in Slots :
                 tasks[s].state # "UNUSED" /\ tasks[s].parent_pid # 0 =>
                   \E p \in Slots : /\ Live(tasks, p) /\ tasks[p].kind = "USER"
                                    /\ tasks[p].pid = tasks[s].parent_pid

\* A task blocked in waitpid has a matching child that has not exited yet, so
\* some exit is still to come that wakes it: nobody waits for nothing.
WaitersHaveLiveChild ==
  \A p \in Slots : tasks[p].state = "BLOCKED" /\ tasks[p].block_reason = "WAITPID" =>
    \E c \in Slots : Live(tasks, c) /\ WaitMatches(tasks, p, c, tasks[p].wait_target_pid)

\* A task other than init that is blocked in waitpid has no matching zombie: an
\* exit never slips past a waiting parent.
NoMissedExit ==
  \A p, c \in Slots : p # init_task /\ Waits(tasks, p, c) => tasks[c].state # "ZOMBIE"

\* Between handlers at most one zombie is ready to be collected: the task that
\* was on the CPU at the last switch. Slots are not held longer than that.
OneUncollected ==
  \A s, t \in Slots : tasks[s].reap_ready /\ tasks[t].reap_ready => s = t

\* No exit is lost: whoever has died before, a task or zombie names a live parent by a pid
\* that no other task has, a task that waits has a child whose exit is still to come, and
\* no exit slips past a waiting parent other than init.
ExitsHeard == UniquePids /\ ParentsLive /\ WaitersHaveLiveChild /\ NoMissedExit

\* Every handler leaves the table in order: the CPU is on the one RUNNING task, which is
\* the idle task only when nothing else can run, and of the zombies that may be collected
\* only the one that was on the CPU still has its slot (proc_schedule).
TableInOrder == CurrentRuns /\ IdleIsLast /\ OneUncollected

\* A slot is released only when nobody needs it: never by a handler that was entered
\* from that task and still runs on its kernel stack, and, while the parent lives on,
\* only once a waitpid of the parent was answered for it, with its pid or with a
\* failed copy-out.
ReleasedSafely ==
  [][/\ current_task # NoTask => tasks'[current_task].state # "UNUSED"
     /\ \A s, p \in Slots :
          (/\ tasks[s].state = "ZOMBIE" /\ tasks'[s].state = "UNUSED"
           /\ tasks[p].state # "UNUSED" /\ tasks[p].pid = tasks[s].parent_pid
           /\ tasks'[p].state # "ZOMBIE")
          => tasks[s].pid \in (reported \cup reportFailed)']_vars

\* A sleeper becomes runnable at exactly its wake tick, not earlier and not
\* later, also when the counter wraps and when the call itself advances it.
WakesOnTime ==
  [][/\ \A s \in Slots :
          tasks[s].state = "SLEEPING" /\ tasks'[s].state # "SLEEPING" =>
            tick_count' = tasks[s].wake_tick
     /\ \A s \in Slots :
          tasks'[s].state = "SLEEPING" => Before(tick_count', tasks'[s].wake_tick)
     /\ \A ticks \in SleepTicks :
          Sleep(ticks) /\ tasks'[current_task].state # "SLEEPING" =>
            tick_count' = TickSum(tick_count, ticks)]_vars

\* Every sleeper is eventually made runnable, also on a machine whose timer never
\* interrupts: then the synthetic ticks of pit_ensure_progress move the clock.
SleepersWake == \A s \in Slots : (tasks[s].state = "SLEEPING") ~> (tasks[s].state # "SLEEPING")

\* A waitpid that is blocked completes whenever a matching child has exited:
\* no task, init included, stays blocked beside a zombie it waits for.
WaitpidReturnsOnExit ==
  \A p, c \in Slots : Waits(tasks, p, c) => tasks[c].state # "ZOMBIE"

\* The exit of a child is returned by waitpid at most once.
ReportedOnce == reportedAgain = {}

=============================================================================
