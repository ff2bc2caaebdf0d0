----------------------------- MODULE TrapsProofs -----------------------------
(***************************************************************************)
(* Proofs about the way into the kernel and out of it, for any number of   *)
(* tasks and workers: whatever traps and switches lie between, a program   *)
(* finds its registers as it left them.                                    *)
(***************************************************************************)
EXTENDS Traps, FiniteSetTheorems, WellFoundedInduction, TLAPS

-----------------------------------------------------------------------------
(* The inductive invariant *)

States == {"unused", "runnable", "running", "blocked", "sleeping", "zombie"}
Register == [mode : {"none", "user", "kernel"}, pc : Nat, eax : Int, if : {TRUE}]
Task == [state : States, kind : {"kernel", "user"}, pid : Nat, dir : 0 .. MAX_TASKS + 1, saved : 0 .. MAX_TASKS]
Live(t) == t.state \notin {"unused", "zombie"}

TypeOK ==
  /\ cpu \in [mode : {"none", "user", "kernel"}, pc : Nat, eax : Int, if : {TRUE}, sp : 0 .. MAX_TASKS]
  /\ cr3 \in 0 .. MAX_TASKS + 1 /\ tss \in Slots
  /\ pic \in [request : BOOLEAN, service : {FALSE}]
  /\ table \in [Slots -> Task]
  /\ current \in 0 .. MAX_TASKS
  /\ kstacks \in [Slots -> Register]
  /\ next_pid \in Nat
  /\ program \in [Slots -> Register]

\* No two tasks share a page directory, the kernel's own excepted.
DirsDistinct(tasks) == \A t, u \in Slots : t # u /\ tasks[t].dir # KernelDirectory => tasks[t].dir # tasks[u].dir

\* Before the first task is entered the boot tasks wait; from then on the current task is
\* marked as running. A dead task keeps its directory until it is reaped, so directories
\* are distinct for the dead as well.
Inv ==
  /\ TypeOK
  /\ ContextKept
  /\ DirsDistinct(table)
  /\ IF Running THEN table[current].state = "running"
     ELSE \A t \in {Idle, InitTask} \union Workers : table[t].state = "runnable"

-----------------------------------------------------------------------------
(* The state a handler works on, between the push of one frame and the pop of another *)

KernelState ==
  [table : [Slots -> Task], kstacks : [Slots -> Register], current : 0 .. MAX_TASKS,
   cr3 : 0 .. MAX_TASKS + 1, tss : Slots, program : [Slots -> Register]]

\* Every live task, the current one included, has its frame on its own kernel stack.
Framed(s) ==
  /\ s \in KernelState
  /\ DirsDistinct(s.table)
  /\ \A t \in Slots : Live(s.table[t]) => /\ s.kstacks[t] = s.program[t]
                                          /\ t # s.current => s.table[t].saved = t

\* The same when the current task has been suspended, too.
Parked(s) == Framed(s) /\ \A t \in Slots : Live(s.table[t]) => s.table[t].saved = t

\* A set of natural numbers has a least one.
LEMMA Least ==
  ASSUME NEW S \in SUBSET Nat, S # {}
  PROVE  \E n \in S : \A m \in S : n <= m
<1> DEFINE R == OpToRel(<, Nat)
<1>1. IsWellFoundedOn(R, Nat)
  BY NatLessThanWellFounded
<1>2. \A m, n \in Nat : <<m, n>> \in R <=> m < n
  BY DEF OpToRel
<1> HIDE DEF R
<1>3. PICK n \in S : \A m \in S : ~(<<m, n>> \in R)
  BY <1>1, WFMin
<1>4. ASSUME NEW m \in S PROVE n <= m
  <2>1. m \in Nat /\ n \in Nat /\ ~(m < n)
    BY <1>2, <1>3
  <2>2. QED
    BY <2>1
<1>5. QED
  BY <1>4

\* There are more directories than tasks, so paging_create_address_space finds a new one.
LEMMA NewDirectoryIsNew ==
  ASSUME TrapsAssumption, NEW tasks \in [Slots -> Task]
  PROVE  NewDirectory(tasks) \in 1 .. MAX_TASKS + 1 /\ \A s \in Slots : tasks[s].dir # NewDirectory(tasks)
<1> DEFINE dir == [s \in Slots |-> tasks[s].dir]
           taken == {dir[s] : s \in Slots}
<1>1. MAX_TASKS \in Nat
  BY DEF TrapsAssumption
<1>2. IsFiniteSet(Slots) /\ Cardinality(Slots) = MAX_TASKS
  BY <1>1, FS_Interval DEF Slots
<1>3. dir \in Surjection(Slots, taken)
  BY DEF Surjection
<1>4. IsFiniteSet(taken) /\ Cardinality(taken) <= MAX_TASKS
  BY <1>2, <1>3, FS_Surjection
<1>5. Cardinality(1 .. MAX_TASKS + 1) = MAX_TASKS + 1
  BY <1>1, FS_Interval
<1>6. ~ (1 .. MAX_TASKS + 1 \subseteq taken)
  <2>1. ASSUME 1 .. MAX_TASKS + 1 \subseteq taken PROVE FALSE
    <3>1. Cardinality(1 .. MAX_TASKS + 1) <= Cardinality(taken)
      BY <1>4, <2>1, FS_Subset
    <3>2. Cardinality(taken) \in Nat
      BY <1>4, FS_CardinalityType
    <3>3. QED
      BY <1>1, <1>4, <1>5, <3>1, <3>2
  <2>2. QED
    BY <2>1
<1>7. \E d \in 1 .. MAX_TASKS + 1 : \A s \in Slots : tasks[s].dir # d
  BY <1>6
<1>8. QED
  BY <1>7 DEF NewDirectory

\* A trap pushes the registers of the current task onto its own stack.
LEMMA NowFramed ==
  ASSUME TrapsAssumption, Inv, Running
  PROVE  /\ current \in Slots /\ FrameStack = current
         /\ Framed(Now)
         /\ Pushed = [kstacks EXCEPT ![current] = program[current]]
<1>1. current \in Slots /\ MAX_TASKS \in Nat
  BY DEF TrapsAssumption, Inv, TypeOK, Running, Nobody, Slots
<1>2. cpu = Popped(program[current], current) /\ tss = current /\ program[current] \in Register
  BY <1>1 DEF Inv, ContextKept, TypeOK
<1>3. FrameStack = current
  BY <1>2 DEF FrameStack, Popped
<1>4. [mode |-> cpu.mode, pc |-> cpu.pc, eax |-> cpu.eax, if |-> cpu.if] = program[current]
  BY <1>2 DEF Popped, Register
<1>5. Pushed = [kstacks EXCEPT ![current] = program[current]]
  BY <1>3, <1>4 DEF Pushed
<1>6. Now \in KernelState
  BY <1>1, <1>2, <1>5 DEF Now, KernelState, Inv, TypeOK
<1>7. \A t \in Slots : Live(table[t]) => /\ Pushed[t] = program[t]
                                         /\ t # current => table[t].saved = t
  BY <1>1, <1>5 DEF Live, Inv, TypeOK, ContextKept
<1>8. Framed(Now)
  BY <1>6, <1>7 DEF Framed, Now, Inv
<1>9. QED
  BY <1>1, <1>3, <1>5, <1>8

\* The result of a call goes into the frame and into the program's expectation.
LEMMA WithResultFramed ==
  ASSUME TrapsAssumption, current \in Slots, FrameStack = current,
         NEW s, Framed(s), NEW result \in Int
  PROVE  /\ Framed(WithResult(s, result))
         /\ WithResult(s, result) = [s EXCEPT !.kstacks = [s.kstacks EXCEPT ![current].eax = result],
                                              !.program = [s.program EXCEPT ![current].eax = result]]
<1> DEFINE r == WithResult(s, result)
<1>1. s \in KernelState /\ s.kstacks \in [Slots -> Register] /\ s.program \in [Slots -> Register]
  BY DEF Framed, KernelState
<1>2. r = [s EXCEPT !.kstacks = [s.kstacks EXCEPT ![current].eax = result],
                    !.program = [s.program EXCEPT ![current].eax = result]]
  BY DEF WithResult
<1>3. /\ [s.kstacks EXCEPT ![current].eax = result] \in [Slots -> Register]
      /\ [s.program EXCEPT ![current].eax = result] \in [Slots -> Register]
  BY <1>1 DEF Register
<1>4. r \in KernelState
  BY <1>1, <1>2, <1>3 DEF KernelState
<1>5. /\ r.table = s.table /\ r.current = s.current
      /\ r.kstacks = [s.kstacks EXCEPT ![current].eax = result]
      /\ r.program = [s.program EXCEPT ![current].eax = result]
  BY <1>1, <1>2 DEF KernelState
<1>6. \A t \in Slots : s.kstacks[t] = s.program[t] => r.kstacks[t] = r.program[t]
  BY <1>1, <1>5
<1> HIDE DEF r
<1>7. Framed(r)
  BY <1>4, <1>5, <1>6 DEF Framed
<1>8. QED
  BY <1>2, <1>7 DEF r

\* A handler may change the state of the current task, which is live.
LEMMA StateChangeFramed ==
  ASSUME NEW s, Framed(s), s.current \in Slots, Live(s.table[s.current]), NEW state \in States \ {"unused"}
  PROVE  Framed([s EXCEPT !.table[s.current].state = state])
<1> DEFINE r == [s EXCEPT !.table[s.current].state = state]
<1>1. s \in KernelState /\ s.table \in [Slots -> Task]
  BY DEF Framed, KernelState
<1>2. /\ r.table = [s.table EXCEPT ![s.current].state = state]
      /\ r.current = s.current /\ r.kstacks = s.kstacks /\ r.program = s.program
  BY <1>1 DEF KernelState
<1>3. [s.table EXCEPT ![s.current].state = state] \in [Slots -> Task]
  BY <1>1 DEF Task
<1>4. r \in KernelState
  BY <1>1, <1>3 DEF KernelState
<1>5. \A t \in Slots : /\ r.table[t].dir = s.table[t].dir /\ r.table[t].saved = s.table[t].saved
                       /\ Live(r.table[t]) => Live(s.table[t])
  BY <1>1, <1>2 DEF Live, Task
<1> HIDE DEF r
<1>6. Framed(r)
  BY <1>2, <1>4, <1>5 DEF Framed, DirsDistinct
<1>7. QED
  BY <1>6 DEF r

\* proc_schedule first saves the stack of the current task, which is then parked as well.
LEMMA SuspendedParked ==
  ASSUME NEW s, Framed(s), s.current \in Slots
  PROVE  Parked(Suspended(s, s.current)) /\ Suspended(s, s.current).current = s.current
<1> DEFINE state == IF s.table[s.current].state = "running" THEN "runnable" ELSE s.table[s.current].state
           task  == [s.table[s.current] EXCEPT !.saved = s.current, !.state = state]
           r     == [s EXCEPT !.table = [s.table EXCEPT ![s.current] = task]]
<1>1. s \in KernelState /\ s.table \in [Slots -> Task] /\ s.table[s.current] \in Task
  BY DEF Framed, KernelState
<1>2. s.current \in 0 .. MAX_TASKS /\ s.current # Nobody
  BY <1>1 DEF KernelState, Slots, Nobody
<1>3. Suspended(s, s.current) = r
  BY <1>1, <1>2 DEF Suspended, KernelState, Task
<1>4. task \in Task /\ task.saved = s.current /\ task.dir = s.table[s.current].dir
      /\ (Live(task) => Live(s.table[s.current]))
  BY <1>1, <1>2 DEF Task, States, Live
<1> HIDE DEF task
<1>5. [s.table EXCEPT ![s.current] = task] \in [Slots -> Task]
  BY <1>1, <1>4
<1>6. r \in KernelState
  BY <1>1, <1>5 DEF KernelState
<1>7. /\ r.table = [s.table EXCEPT ![s.current] = task]
      /\ r.current = s.current /\ r.kstacks = s.kstacks /\ r.program = s.program
  BY <1>1 DEF KernelState
<1> HIDE DEF r
<1>8. \A t \in Slots : /\ r.table[t].dir = s.table[t].dir
                       /\ Live(r.table[t]) => Live(s.table[t])
                       /\ t # s.current => r.table[t].saved = s.table[t].saved
                       /\ t = s.current => r.table[t].saved = t
  BY <1>1, <1>4, <1>7
<1>9. Parked(r)
  BY <1>6, <1>7, <1>8 DEF Parked, Framed, DirsDistinct
<1>10. QED
  BY <1>3, <1>7, <1>9

\* The result of a blocked call goes into the frame of the task that waits for it.
LEMMA WokenParked ==
  ASSUME NEW s, Parked(s), NEW t \in Waiting(s), NEW result \in Int
  PROVE  Parked(Woken(s, t, result)) /\ Woken(s, t, result).current = s.current
<1>1. /\ s \in KernelState /\ s.table \in [Slots -> Task] /\ t \in Slots /\ Live(s.table[t])
      /\ s.kstacks \in [Slots -> Register] /\ s.program \in [Slots -> Register]
  BY DEF Parked, Framed, KernelState, Waiting, Live
<1>2. s.table[t].saved = t
  BY <1>1 DEF Parked
<1> DEFINE tasks == [s.table EXCEPT ![t].state = "runnable"]
<1>3. /\ tasks \in [Slots -> Task]
      /\ \A u \in Slots : /\ tasks[u].dir = s.table[u].dir /\ tasks[u].saved = s.table[u].saved
                          /\ Live(tasks[u]) => Live(s.table[u])
  BY <1>1 DEF Task, States, Live
<1> HIDE DEF tasks
<1>4. CASE s.table[t].state = "sleeping"
  <2> DEFINE r == [s EXCEPT !.table = tasks]
  <2>1. Woken(s, t, result) = r
    BY <1>1, <1>4 DEF Woken, tasks, KernelState
  <2>2. /\ r \in KernelState /\ r.table = tasks
        /\ r.current = s.current /\ r.kstacks = s.kstacks /\ r.program = s.program
    BY <1>1, <1>3 DEF KernelState
  <2> HIDE DEF r
  <2>3. Parked(r)
    BY <1>3, <2>2 DEF Parked, Framed, DirsDistinct
  <2>4. QED
    BY <2>1, <2>2, <2>3
<1>5. CASE s.table[t].state # "sleeping"
  <2> DEFINE stacks == [s.kstacks EXCEPT ![t].eax = result]
             regs   == [s.program EXCEPT ![t].eax = result]
             r == [s EXCEPT !.table = tasks, !.kstacks = stacks, !.program = regs]
  <2>1. Woken(s, t, result) = r
    BY <1>1, <1>2, <1>5 DEF Woken, tasks, KernelState
  <2>2. stacks \in [Slots -> Register] /\ regs \in [Slots -> Register]
    BY <1>1 DEF Register
  <2>3. \A u \in Slots : s.kstacks[u] = s.program[u] => stacks[u] = regs[u]
    BY <1>1
  <2> HIDE DEF stacks, regs
  <2>4. /\ r \in KernelState /\ r.table = tasks
        /\ r.current = s.current /\ r.kstacks = stacks /\ r.program = regs
    BY <1>1, <1>3, <2>2 DEF KernelState
  <2> HIDE DEF r
  <2>5. Parked(r)
    BY <1>3, <2>3, <2>4 DEF Parked, Framed, DirsDistinct
  <2>6. QED
    BY <2>1, <2>4, <2>5
<1>6. QED
  BY <1>4, <1>5

\* Reaping a dead task touches no live one.
LEMMA ReapedFramed ==
  ASSUME TrapsAssumption, NEW s, NEW t \in Slots, s \in KernelState, DirsDistinct(s.table)
  PROVE  LET r == Reaped(s, t)
         IN  /\ r \in KernelState /\ DirsDistinct(r.table) /\ ~Live(r.table[t])
             /\ r.current = s.current /\ r.cr3 = s.cr3 /\ r.tss = s.tss
             /\ \A u \in Slots \ {t} : /\ r.table[u] = s.table[u] /\ r.kstacks[u] = s.kstacks[u]
                                       /\ r.program[u] = s.program[u]
<1>1. /\ s.table \in [Slots -> Task] /\ s.kstacks \in [Slots -> Register] /\ s.program \in [Slots -> Register]
  BY DEF KernelState
<1>2. MAX_TASKS \in Nat /\ UnusedTask \in Task /\ NoRegisters \in Register /\ ~Live(UnusedTask) /\ UnusedTask.dir = KernelDirectory
  BY DEF TrapsAssumption, UnusedTask, NoRegisters, Registers, Task, States, Register, Live, KernelDirectory, Nobody
<1> DEFINE r == [s EXCEPT !.table = [s.table EXCEPT ![t] = UnusedTask],
                          !.kstacks = [s.kstacks EXCEPT ![t] = NoRegisters],
                          !.program = [s.program EXCEPT ![t] = NoRegisters]]
<1>3. Reaped(s, t) = r
  BY DEF Reaped, KernelState
<1>4. /\ r \in KernelState
      /\ r.current = s.current /\ r.cr3 = s.cr3 /\ r.tss = s.tss
      /\ r.table = [s.table EXCEPT ![t] = UnusedTask]
      /\ r.kstacks = [s.kstacks EXCEPT ![t] = NoRegisters]
      /\ r.program = [s.program EXCEPT ![t] = NoRegisters]
  BY <1>1, <1>2 DEF KernelState
<1> HIDE DEF r
<1>5. \A u \in Slots \ {t} : r.table[u] = s.table[u] /\ r.kstacks[u] = s.kstacks[u] /\ r.program[u] = s.program[u]
  BY <1>1, <1>4
<1>6. r.table[t] = UnusedTask
  BY <1>1, <1>4
<1>7. DirsDistinct(r.table)
  BY <1>2, <1>5, <1>6 DEF DirsDistinct
<1>8. QED
  BY <1>2, <1>3, <1>4, <1>5, <1>6, <1>7

\* Whatever proc_schedule wakes and reaps, every live task stays parked.
LEMMA ServicedParked ==
  ASSUME TrapsAssumption, NEW s, Parked(s), NEW u \in Serviced(s)
  PROVE  Parked(u)
<1>1. PICK w \in {s} \union {Woken(s, t, r) : t \in Waiting(s), r \in Results} :
        u \in {w} \union {Reaped(w, t) : t \in Zombies(w)}
  BY DEF Serviced, OneOf
<1>2. Parked(w)
  BY <1>1, WokenParked DEF TrapsAssumption
<1>3. CASE u = w
  BY <1>2, <1>3
<1>4. ASSUME NEW t \in Zombies(w), u = Reaped(w, t) PROVE Parked(u)
  <2>1. t \in Slots /\ w \in KernelState /\ DirsDistinct(w.table)
    BY <1>2 DEF Zombies, Parked, Framed
  <2>2. QED
    BY <1>2, <1>4, <2>1, ReapedFramed DEF Parked, Framed
<1>5. QED
  BY <1>1, <1>3, <1>4

\* The handler returns to the current task: the frame that is popped is that of the
\* current task, and the others stay where they are.
LEMMA LeavesInv ==
  ASSUME TrapsAssumption, NEW s, Framed(s), s.current \in Slots,
         s.table[s.current].state = "running", s.cr3 = s.table[s.current].dir, s.tss = s.current,
         Leaves(s, s.current), next_pid' \in Nat, pic' \in [request : BOOLEAN, service : {FALSE}]
  PROVE  Inv'
<1>1. MAX_TASKS \in Nat /\ NoRegisters \in Register
  BY DEF TrapsAssumption, NoRegisters, Registers, Register
<1>2. /\ s.table \in [Slots -> Task] /\ s.kstacks \in [Slots -> Register] /\ s.program \in [Slots -> Register]
      /\ s.cr3 \in 0 .. MAX_TASKS + 1 /\ s.tss \in Slots /\ s.current \in 0 .. MAX_TASKS /\ s.current # Nobody
  BY DEF Framed, KernelState, Slots, Nobody
<1>3. s.kstacks[s.current] = s.program[s.current] /\ s.program[s.current] \in Register
  BY <1>2 DEF Framed, Live
<1>4. /\ cpu' = Popped(s.program[s.current], s.current)
      /\ table' = s.table /\ current' = s.current /\ cr3' = s.cr3 /\ tss' = s.tss /\ program' = s.program
      /\ kstacks' = [s.kstacks EXCEPT ![s.current] = NoRegisters]
  BY <1>3 DEF Leaves
<1>5. cpu' \in [mode : {"none", "user", "kernel"}, pc : Nat, eax : Int, if : {TRUE}, sp : 0 .. MAX_TASKS] /\ cpu'.if
  BY <1>2, <1>3, <1>4 DEF Popped, Register
<1>6. TypeOK'
  BY <1>1, <1>2, <1>4, <1>5 DEF TypeOK
<1>7. \A t \in Slots \ {current'} : Live(table'[t]) =>
        /\ kstacks'[table'[t].saved] = program'[t]
        /\ table'[t].saved = t
        /\ table'[t].dir # KernelDirectory => \A u \in Slots \ {t} : table'[u].dir # table'[t].dir
  BY <1>2, <1>4 DEF Framed, DirsDistinct
<1>8. ~pic'.service
  OBVIOUS
<1>9. ContextKept'
  BY <1>4, <1>5, <1>7, <1>8 DEF ContextKept, Running, Live
<1>10. Running' /\ table'[current'].state = "running" /\ DirsDistinct(table')
  BY <1>2, <1>4 DEF Running, Framed
<1>11. QED
  BY <1>6, <1>9, <1>10 DEF Inv

\* proc_activate_task makes a parked runnable task the current one.
LEMMA ActivateInv ==
  ASSUME TrapsAssumption, NEW s, Parked(s), NEW next \in Slots, s.table[next].state = "runnable",
         LeavesTo(Activate(s, next)), next_pid' \in Nat, pic' \in [request : BOOLEAN, service : {FALSE}]
  PROVE  Inv'
<1> DEFINE tasks == [s.table EXCEPT ![next].state = "running"]
           r == [s EXCEPT !.current = next, !.cr3 = s.table[next].dir, !.tss = next, !.table = tasks]
<1>1. s \in KernelState /\ s.table \in [Slots -> Task]
  BY DEF Parked, Framed, KernelState
<1>2. Activate(s, next) = r
  BY <1>1 DEF Activate, KernelState
<1>3. /\ tasks \in [Slots -> Task] /\ tasks[next].state = "running"
      /\ \A u \in Slots : /\ tasks[u].dir = s.table[u].dir /\ tasks[u].saved = s.table[u].saved
                          /\ Live(tasks[u]) => Live(s.table[u])
      /\ Live(s.table[next])
  BY <1>1 DEF Task, States, Live
<1> HIDE DEF tasks
<1>4. next \in 0 .. MAX_TASKS /\ s.table[next].dir \in 0 .. MAX_TASKS + 1
  BY <1>1 DEF Slots, Task, TrapsAssumption
<1>5. /\ r \in KernelState /\ r.table = tasks /\ r.current = next /\ r.cr3 = s.table[next].dir /\ r.tss = next
      /\ r.kstacks = s.kstacks /\ r.program = s.program
  BY <1>1, <1>3, <1>4 DEF KernelState
<1> HIDE DEF r
<1>6. Framed(r)
  BY <1>3, <1>5 DEF Parked, Framed, DirsDistinct
<1>7. r.table[r.current].saved = r.current
  BY <1>3, <1>5 DEF Parked
<1>8. Leaves(r, r.current)
  BY <1>2, <1>7 DEF LeavesTo
<1>9. QED
  BY <1>3, <1>5, <1>6, <1>8, LeavesInv

\* A switch: proc_schedule on a state in which every live task has its frame.
LEMMA ScheduleInv ==
  ASSUME TrapsAssumption, NEW s, Framed(s), s.current \in Slots, NEW r \in Schedule(s, s.current),
         LeavesTo(r), next_pid' \in Nat, pic' \in [request : BOOLEAN, service : {FALSE}]
  PROVE  Inv'
<1>1. PICK u \in Serviced(Suspended(s, s.current)) :
        r \in {Activate(u, next) : next \in {t \in Slots : u.table[t].state = "runnable"}}
  BY DEF Schedule
<1>2. Parked(u)
  BY SuspendedParked, ServicedParked
<1>3. PICK next \in Slots : u.table[next].state = "runnable" /\ r = Activate(u, next)
  BY <1>1
<1>4. QED
  BY <1>2, <1>3, ActivateInv

\* The boot leaves the boot tasks with their first frames.
LEMMA InitInv ==
  ASSUME TrapsAssumption, TrapsInit
  PROVE  Inv
<1> USE DEF TrapsAssumption, Idle, InitTask, Nobody, KernelDirectory
<1>1. /\ MAX_TASKS \in Nat /\ Workers \in SUBSET Slots /\ Idle \in Slots /\ InitTask \in Slots
      /\ \A t \in Workers : t # Idle /\ t # InitTask
  BY DEF Slots
<1>2. \A t \in Slots : table[t] =
        IF t = Idle THEN Created("kernel", Idle, KernelDirectory)
        ELSE IF t = InitTask THEN Created("user", InitTask, 1)
        ELSE IF t \in Workers THEN Created("kernel", t, KernelDirectory) ELSE UnusedTask
  BY <1>1 DEF TrapsInit
<1>3. table \in [Slots -> Task]
  <2>1. \A t \in Slots : t \in 0 .. MAX_TASKS /\ t \in Nat
    BY <1>1 DEF Slots
  <2>2. /\ UnusedTask \in Task
        /\ \A t \in Slots : Created("kernel", t, KernelDirectory) \in Task
        /\ Created("user", InitTask, 1) \in Task
    BY <1>1, <2>1 DEF Created, UnusedTask, Task, States
  <2>3. \A t \in Slots : table[t] \in Task
    BY <1>1, <1>2, <2>2
  <2>4. QED
    BY <2>3 DEF TrapsInit
<1>3a. /\ UnusedTask.state = "unused" /\ UnusedTask.dir = 0
       /\ \A kind, pid, dir : LET c == Created(kind, pid, dir)
                             IN  c.state = "runnable" /\ c.dir = dir /\ c.saved = pid
  BY DEF Created, UnusedTask
<1>4. \A t \in Slots : table[t].state # "unused" => table[t].saved = t
  BY <1>1, <1>2, <1>3a
<1>5. \A t \in Slots : table[t].dir = IF t = InitTask THEN 1 ELSE 0
  BY <1>1, <1>2, <1>3a
<1>6. \A t \in {Idle, InitTask} \union Workers : table[t].state = "runnable"
  BY <1>1, <1>2, <1>3a
<1>7. program \in [Slots -> Register] /\ kstacks = program
  BY DEF TrapsInit, NoRegisters, UserFrame, KernelFrame, Registers, Register
<1>8. cpu \in [mode : {"none", "user", "kernel"}, pc : Nat, eax : Int, if : {TRUE}, sp : 0 .. MAX_TASKS]
  BY <1>1 DEF TrapsInit, Popped, NoRegisters, Registers
<1>9. next_pid \in Nat
  <2>1. IsFiniteSet(Slots)
    BY <1>1, FS_Interval DEF Slots
  <2>2. Cardinality(Workers) \in Nat
    BY <1>1, <2>1, FS_Subset, FS_CardinalityType
  <2>3. QED
    BY <2>2 DEF TrapsInit
<1>10. TypeOK
  <2>1. current \in 0 .. MAX_TASKS /\ cr3 \in 0 .. MAX_TASKS + 1 /\ tss \in Slots
    BY <1>1 DEF TrapsInit
  <2>2. pic \in [request : BOOLEAN, service : {FALSE}]
    BY DEF TrapsInit
  <2>3. QED
    BY <1>3, <1>7, <1>8, <1>9, <2>1, <2>2 DEF TypeOK
<1>11. ~Running
  BY DEF TrapsInit, Running
<1>12. DirsDistinct(table)
  BY <1>5 DEF DirsDistinct
<1>13. ContextKept
  BY <1>4, <1>7, <1>11, <1>12 DEF ContextKept, DirsDistinct
<1>14. QED
  BY <1>6, <1>10, <1>11, <1>12, <1>13 DEF Inv

\* The call of a running program, as its handler finds it.
LEMMA CallState ==
  ASSUME TrapsAssumption, Inv, Running, NEW s \in {Now} \union {WithResult(Now, result) : result \in Int}
  PROVE  /\ Framed(s) /\ current \in Slots /\ FrameStack = current
         /\ s.current = current /\ s.table = table /\ s.cr3 = cr3 /\ s.tss = tss
         /\ table[current].state = "running" /\ cr3 = table[current].dir /\ tss = current
<1>1. Framed(Now) /\ current \in Slots /\ FrameStack = current
  BY NowFramed
<1>2. table[current].state = "running" /\ cr3 = table[current].dir /\ tss = current
  BY DEF Inv, ContextKept
<1>3. Now.current = current /\ Now.table = table /\ Now.cr3 = cr3 /\ Now.tss = tss
  BY DEF Now
<1>4. ASSUME NEW result \in Int, s = WithResult(Now, result)
      PROVE  Framed(s) /\ s.current = current /\ s.table = table /\ s.cr3 = cr3 /\ s.tss = tss
  <2>1. /\ Framed(s)
        /\ s = [Now EXCEPT !.kstacks = [Now.kstacks EXCEPT ![current].eax = result],
                           !.program = [Now.program EXCEPT ![current].eax = result]]
    BY <1>1, <1>4, WithResultFramed
  <2>2. Now \in KernelState
    BY <1>1 DEF Framed
  <2>3. s.current = Now.current /\ s.table = Now.table /\ s.cr3 = Now.cr3 /\ s.tss = Now.tss
    BY <2>1, <2>2 DEF KernelState
  <2>4. QED
    BY <1>3, <2>1, <2>3
<1>5. QED
  BY <1>1, <1>2, <1>3, <1>4

\* proc_sys_fork gives the child a copy of the caller's frame, on a stack and in an
\* address space of its own.
LEMMA ForksInv ==
  ASSUME TrapsAssumption, Inv, Forks
  PROVE  Inv'
<1> DEFINE unused == {t \in Slots : table[t].state = "unused"}
           child  == CHOOSE t \in unused : \A u \in unused : t <= u
           parent == WithResult(Now, next_pid)
           frame  == [Pushed[FrameStack] EXCEPT !.eax = 0]
           task   == [state |-> "runnable", kind |-> "user", pid |-> next_pid, dir |-> NewDirectory(table), saved |-> child]
           r      == [parent EXCEPT !.table = [table EXCEPT ![child] = task],
                                    !.kstacks = [parent.kstacks EXCEPT ![child] = frame],
                                    !.program = [parent.program EXCEPT ![child] = frame]]
<1>1. /\ Running /\ unused # {} /\ next_pid \in Nat /\ next_pid' = next_pid + 1 /\ pic' = pic
      /\ MAX_TASKS \in Nat /\ pic \in [request : BOOLEAN, service : {FALSE}]
      /\ table \in [Slots -> Task] /\ kstacks \in [Slots -> Register] /\ program \in [Slots -> Register]
  BY DEF Forks, UserCall, Inv, TypeOK, TrapsAssumption
<1>2. child \in unused
  <2>1. \E t \in unused : \A u \in unused : t <= u
    <3>1. unused \in SUBSET Nat
      BY <1>1 DEF Slots
    <3>2. QED
      BY <1>1, <3>1, Least
  <2>2. QED
    BY <2>1
<1> HIDE DEF child
<1>3. /\ Framed(parent) /\ current \in Slots /\ FrameStack = current
      /\ parent.current = current /\ parent.table = table /\ parent.cr3 = cr3 /\ parent.tss = tss
      /\ table[current].state = "running" /\ cr3 = table[current].dir /\ tss = current
  BY <1>1, CallState
<1>4. child \in Slots /\ child # current /\ table[child].state = "unused"
  BY <1>2, <1>3
<1>5. frame \in Register
  <2>1. frame = [program[current] EXCEPT !.eax = 0] /\ program[current] \in Register
    BY <1>1, <1>3, NowFramed
  <2>2. \A f \in Register, result \in Int : [f EXCEPT !.eax = result] \in Register
    BY DEF Register
  <2> HIDE DEF frame
  <2>3. QED
    BY <2>1, <2>2
<1>6a. NewDirectory(table) \in 0 .. MAX_TASKS + 1 /\ child \in 0 .. MAX_TASKS
  BY <1>1, <1>4, NewDirectoryIsNew DEF Slots
<1>6. task \in Task /\ task.dir = NewDirectory(table) /\ task.state = "runnable" /\ task.saved = child
  BY <1>1, <1>6a DEF Task, States
<1> HIDE DEF parent, frame, task
<1>7. parent \in KernelState /\ parent.kstacks \in [Slots -> Register] /\ parent.program \in [Slots -> Register]
  BY <1>3 DEF Framed, KernelState
<1>8. Leaves(r, current)
  BY <1>3, <1>7 DEF Forks, child, parent, frame, task, KernelState
<1>9. /\ r \in KernelState
      /\ r.current = current /\ r.cr3 = cr3 /\ r.tss = tss
      /\ r.table = [table EXCEPT ![child] = task]
      /\ r.kstacks = [parent.kstacks EXCEPT ![child] = frame]
      /\ r.program = [parent.program EXCEPT ![child] = frame]
  BY <1>1, <1>3, <1>4, <1>5, <1>6, <1>7 DEF KernelState
<1> HIDE DEF r
<1>10. DirsDistinct(r.table)
  BY <1>1, <1>4, <1>6, <1>9, NewDirectoryIsNew DEF DirsDistinct, Inv
<1>11. \A t \in Slots : Live(r.table[t]) => /\ r.kstacks[t] = r.program[t]
                                            /\ t # r.current => r.table[t].saved = t
  BY <1>1, <1>3, <1>4, <1>6, <1>7, <1>9 DEF Framed
<1>12. Framed(r)
  BY <1>9, <1>10, <1>11 DEF Framed
<1>13. /\ r.current \in Slots /\ r.table[r.current].state = "running" /\ r.cr3 = r.table[r.current].dir
       /\ r.tss = r.current /\ Leaves(r, r.current)
  BY <1>1, <1>3, <1>4, <1>8, <1>9
<1>14. next_pid' \in Nat /\ pic' \in [request : BOOLEAN, service : {FALSE}]
  <2>1. next_pid' \in Nat
    BY <1>1
  <2>2. pic' \in [request : BOOLEAN, service : {FALSE}]
    BY <1>1, Zenon
  <2>3. QED
    BY <2>1, <2>2
<1>15. QED
  BY <1>12, <1>13, <1>14, LeavesInv

\* proc_sys_execv overwrites the frame of the call by the first frame of the new program.
LEMMA ExecsInv ==
  ASSUME TrapsAssumption, Inv, Execs
  PROVE  Inv'
<1> DEFINE dir  == NewDirectory(table)
           task == [table[current] EXCEPT !.dir = dir, !.saved = current]
           r    == [Now EXCEPT !.table = [table EXCEPT ![current] = task],
                               !.kstacks = [Pushed EXCEPT ![current] = UserFrame],
                               !.program = [program EXCEPT ![current] = UserFrame],
                               !.cr3 = dir, !.tss = current]
<1>1. /\ Running /\ next_pid' \in Nat /\ pic' \in [request : BOOLEAN, service : {FALSE}]
      /\ MAX_TASKS \in Nat /\ table \in [Slots -> Task] /\ program \in [Slots -> Register]
  BY DEF Execs, UserCall, Inv, TypeOK, TrapsAssumption
<1>2. /\ Framed(Now) /\ current \in Slots
      /\ Now.current = current /\ Now.table = table /\ Now.kstacks = Pushed /\ Now.program = program
      /\ table[current].state = "running"
  BY <1>1, CallState DEF Now
<1>3. Now \in KernelState /\ Pushed \in [Slots -> Register]
  BY <1>2 DEF Framed, KernelState
<1>4. dir \in 0 .. MAX_TASKS + 1 /\ current \in 0 .. MAX_TASKS /\ UserFrame \in Register
  BY <1>1, <1>2, NewDirectoryIsNew DEF Slots, UserFrame, Registers, Register
<1>5. \A s \in Slots : table[s].dir # dir
  BY <1>1, NewDirectoryIsNew
<1> HIDE DEF dir
<1>6. task \in Task /\ task.dir = dir /\ task.saved = current /\ task.state = "running"
  <2> DEFINE x == table[current]
  <2>3. task = [x EXCEPT !.dir = dir, !.saved = current] /\ x \in Task /\ x.state = "running"
    BY <1>1, <1>2
  <2> HIDE DEF x, task
  <2>4. /\ [x EXCEPT !.dir = dir, !.saved = current] \in Task
        /\ [x EXCEPT !.dir = dir, !.saved = current].dir = dir
        /\ [x EXCEPT !.dir = dir, !.saved = current].saved = current
        /\ [x EXCEPT !.dir = dir, !.saved = current].state = x.state
    BY <1>4, <2>3 DEF Task
  <2>5. QED
    BY <2>3, <2>4
<1>7. LeavesTo(r)
  <2>1. [[table EXCEPT ![current].dir = dir] EXCEPT ![current].saved = current] = [table EXCEPT ![current] = task]
    BY <1>1, <1>2
  <2>2. r = [Now EXCEPT !.table[current].dir = dir, !.table[current].saved = current,
                        !.kstacks[current] = UserFrame, !.program[current] = UserFrame,
                        !.cr3 = dir, !.tss = current]
    BY <1>2, <1>3, <2>1 DEF KernelState
  <2>3. QED
    BY <2>2 DEF Execs, dir
<1> HIDE DEF task
<1>8. /\ r \in KernelState /\ r.current = current /\ r.cr3 = dir /\ r.tss = current
      /\ r.table = [table EXCEPT ![current] = task]
      /\ r.kstacks = [Pushed EXCEPT ![current] = UserFrame]
      /\ r.program = [program EXCEPT ![current] = UserFrame]
  BY <1>1, <1>2, <1>3, <1>4, <1>6 DEF KernelState
<1> HIDE DEF r
<1>9. r.table[current] = task /\ \A t \in Slots \ {current} : r.table[t] = table[t]
  BY <1>1, <1>2, <1>8
<1>10. DirsDistinct(r.table)
  BY <1>5, <1>6, <1>9 DEF DirsDistinct, Inv
<1>11. \A t \in Slots : Live(r.table[t]) => /\ r.kstacks[t] = r.program[t]
                                            /\ t # r.current => r.table[t].saved = t
  BY <1>1, <1>2, <1>3, <1>8, <1>9 DEF Framed
<1>12. Framed(r)
  BY <1>8, <1>10, <1>11 DEF Framed
<1>13. /\ r.current \in Slots /\ r.table[r.current].state = "running" /\ r.cr3 = r.table[r.current].dir
       /\ r.tss = r.current /\ Leaves(r, r.current)
  BY <1>2, <1>6, <1>7, <1>8, <1>9 DEF LeavesTo
<1>14. QED
  BY <1>1, <1>12, <1>13, LeavesInv

\* waitpid reaps a child that is dead already, and returns.
LEMMA CollectsInv ==
  ASSUME TrapsAssumption, Inv, Collects
  PROVE  Inv'
<1>1. /\ Running /\ next_pid' \in Nat /\ pic' \in [request : BOOLEAN, service : {FALSE}]
      /\ table \in [Slots -> Task]
  BY DEF Collects, UserCall, Inv, TypeOK
<1>2. PICK t \in Zombies(Now) : Leaves(Reaped(WithResult(Now, table[t].pid), t), FrameStack)
  BY DEF Collects
<1>3. t \in Slots /\ t # current /\ table[t].pid \in Int
  BY <1>1, <1>2 DEF Zombies, Now, Task
<1> DEFINE s == WithResult(Now, table[t].pid)
           r == Reaped(s, t)
<1>4. /\ Framed(s) /\ current \in Slots /\ FrameStack = current
      /\ s.current = current /\ s.table = table /\ s.cr3 = cr3 /\ s.tss = tss
      /\ table[current].state = "running" /\ cr3 = table[current].dir /\ tss = current
  BY <1>1, <1>3, CallState
<1>5. Leaves(r, current)
  BY <1>2, <1>4
<1> HIDE DEF s
<1>6. /\ r \in KernelState /\ DirsDistinct(r.table) /\ ~Live(r.table[t])
      /\ r.current = s.current /\ r.cr3 = s.cr3 /\ r.tss = s.tss
      /\ \A u \in Slots \ {t} : /\ r.table[u] = s.table[u] /\ r.kstacks[u] = s.kstacks[u]
                                /\ r.program[u] = s.program[u]
  BY <1>3, <1>4, ReapedFramed DEF Framed
<1> HIDE DEF r
<1>7. Framed(r)
  BY <1>4, <1>6 DEF Framed
<1>8. /\ r.current \in Slots /\ r.table[r.current].state = "running" /\ r.cr3 = r.table[r.current].dir
      /\ r.tss = r.current /\ Leaves(r, r.current)
  BY <1>3, <1>4, <1>5, <1>6
<1>9. QED
  BY <1>1, <1>7, <1>8, LeavesInv

\* A call that ends in a switch: the state of its task is changed, and proc_schedule runs.
LEMMA SwitchInv ==
  ASSUME TrapsAssumption, Inv, Running,
         NEW s \in {Now} \union {WithResult(Now, result) : result \in Int},
         NEW state \in States \ {"unused"},
         NEW r \in Schedule([s EXCEPT !.table[current].state = state], FrameStack), LeavesTo(r),
         next_pid' \in Nat, pic' \in [request : BOOLEAN, service : {FALSE}]
  PROVE  Inv'
<1> DEFINE q == [s EXCEPT !.table[current].state = state]
<1>1. /\ Framed(s) /\ current \in Slots /\ FrameStack = current /\ s.current = current
      /\ s.table = table /\ table[current].state = "running"
  BY CallState
<1>2. Framed(q)
  BY <1>1, StateChangeFramed DEF Live
<1>3. q.current = current
  BY <1>1 DEF Framed, KernelState
<1>4. r \in Schedule(q, q.current)
  BY <1>1, <1>3
<1> HIDE DEF q
<1>5. QED
  BY <1>1, <1>2, <1>3, <1>4, ScheduleInv

\* Every step keeps the invariant.
LEMMA NextInv ==
  ASSUME TrapsAssumption, Inv, [TrapsNext]_trapsVars
  PROVE  Inv'
<1>1. ASSUME EnterInitialTask PROVE Inv'
  <2>1. PICK next \in {Idle, InitTask} \union Workers : LeavesTo(Activate([Now EXCEPT !.kstacks = kstacks], next))
    BY <1>1 DEF EnterInitialTask
  <2> DEFINE s == [Now EXCEPT !.kstacks = kstacks]
  <2>2. /\ s.table = table /\ s.kstacks = kstacks /\ s.program = program /\ s.current = current
        /\ s \in KernelState
    BY DEF Now, KernelState, Inv, TypeOK
  <2>3. next \in Slots /\ ~Running /\ next_pid' \in Nat /\ pic' \in [request : BOOLEAN, service : {FALSE}]
    <3>1. next \in Slots
      BY <2>1 DEF TrapsAssumption, Idle, InitTask, Slots
    <3>2. ~Running /\ next_pid' \in Nat /\ pic' \in [request : BOOLEAN, service : {FALSE}]
      BY <1>1 DEF EnterInitialTask, Inv, TypeOK
    <3>3. QED
      BY <3>1, <3>2
  <2> HIDE DEF s
  <2>4. \A t \in Slots : Live(table[t]) => kstacks[t] = program[t] /\ table[t].saved = t
    BY <2>3 DEF Inv, ContextKept, Running, Live, Slots, Nobody, TrapsAssumption
  <2>5. Parked(s) /\ s.table[next].state = "runnable"
    BY <2>1, <2>2, <2>3, <2>4 DEF Parked, Framed, Inv
  <2>6. LeavesTo(Activate(s, next))
    BY <2>1 DEF s
  <2>7. QED
    BY <2>3, <2>5, <2>6, ActivateInv
<1>2. ASSUME NEW s \in {Now} \union {WithResult(Now, result) : result \in Int}, Running, Leaves(s, FrameStack),
             UNCHANGED <<pic, next_pid>>
      PROVE  Inv'
  <2>1. next_pid' \in Nat /\ pic' \in [request : BOOLEAN, service : {FALSE}]
    BY <1>2 DEF Inv, TypeOK
  <2>2. /\ Framed(s) /\ current \in Slots /\ FrameStack = current
        /\ s.current = current /\ s.table = table /\ s.cr3 = cr3 /\ s.tss = tss
        /\ table[current].state = "running" /\ cr3 = table[current].dir /\ tss = current
    BY <1>2, CallState
  <2>3. /\ s.current \in Slots /\ s.table[s.current].state = "running" /\ s.cr3 = s.table[s.current].dir
        /\ s.tss = s.current /\ Leaves(s, s.current)
    BY <1>2, <2>2
  <2>4. QED
    BY <2>1, <2>2, <2>3, LeavesInv
<1>3. ASSUME NEW result \in Results, CallReturns(result) PROVE Inv'
  BY <1>2, <1>3 DEF CallReturns, TrapsAssumption
<1>4. ASSUME Collects PROVE Inv'
  BY <1>4, CollectsInv
<1>5. ASSUME Yields PROVE Inv'
  <2>1. PICK r \in Schedule(WithResult(Now, 0), FrameStack) : LeavesTo(r)
    BY <1>5 DEF Yields
  <2>2. Running /\ next_pid' \in Nat /\ pic' \in [request : BOOLEAN, service : {FALSE}]
    BY <1>5 DEF Yields, Inv, TypeOK
  <2> DEFINE s == WithResult(Now, 0)
  <2>3. Framed(s) /\ s.current = current /\ current \in Slots /\ FrameStack = current
    BY <2>2, CallState
  <2>4. r \in Schedule(s, s.current)
    BY <2>1, <2>3
  <2> HIDE DEF s
  <2>5. QED
    BY <2>1, <2>2, <2>3, <2>4, ScheduleInv
<1>6. ASSUME Sleeps PROVE Inv'
  <2>1. PICK r \in Schedule([WithResult(Now, 0) EXCEPT !.table[current].state = "sleeping"], FrameStack) : LeavesTo(r)
    BY <1>6 DEF Sleeps
  <2>2. Running /\ next_pid' \in Nat /\ pic' \in [request : BOOLEAN, service : {FALSE}]
    BY <1>6 DEF Sleeps, UserCall, Inv, TypeOK
  <2>3. WithResult(Now, 0) \in {Now} \union {WithResult(Now, result) : result \in Int} /\ "sleeping" \in States \ {"unused"}
    BY DEF States
  <2>4. QED
    BY <2>1, <2>2, <2>3, SwitchInv
<1>7. ASSUME Blocks PROVE Inv'
  <2>1. PICK r \in Schedule([Now EXCEPT !.table[current].state = "blocked"], FrameStack) : LeavesTo(r)
    BY <1>7 DEF Blocks
  <2>2. Running /\ next_pid' \in Nat /\ pic' \in [request : BOOLEAN, service : {FALSE}]
    BY <1>7 DEF Blocks, UserCall, Inv, TypeOK
  <2>3. "blocked" \in States \ {"unused"}
    BY DEF States
  <2>4. QED
    BY <2>1, <2>2, <2>3, SwitchInv
<1>8. ASSUME Exits PROVE Inv'
  <2>1. PICK r \in Schedule([Now EXCEPT !.table[current].state = "zombie"], FrameStack) : LeavesTo(r)
    BY <1>8 DEF Exits
  <2>2. Running /\ next_pid' \in Nat /\ pic' \in [request : BOOLEAN, service : {FALSE}]
    BY <1>8 DEF Exits, UserCall, Inv, TypeOK
  <2>3. "zombie" \in States \ {"unused"}
    BY DEF States
  <2>4. QED
    BY <2>1, <2>2, <2>3, SwitchInv
<1>9. ASSUME CopiesOnWrite PROVE Inv'
  BY <1>2, <1>9 DEF CopiesOnWrite, UserCall
<1>10. ASSUME Forks PROVE Inv'
  BY <1>10, ForksInv
<1>11. ASSUME Execs PROVE Inv'
  BY <1>11, ExecsInv
<1>12. ASSUME TimerInterrupt PROVE Inv'
  <2>1. Running /\ next_pid' \in Nat /\ pic' \in [request : BOOLEAN, service : {FALSE}]
    BY <1>12 DEF TimerInterrupt, SendEoi, Acknowledged, Inv, TypeOK
  <2>2. /\ Framed(Now) /\ current \in Slots /\ FrameStack = current
        /\ Now.current = current /\ Now.table = table /\ Now.cr3 = cr3 /\ Now.tss = tss
        /\ table[current].state = "running" /\ cr3 = table[current].dir /\ tss = current
    BY <2>1, CallState
  <2>3. ASSUME NEW r \in Schedule(Now, FrameStack), LeavesTo(r) PROVE Inv'
    BY <2>1, <2>2, <2>3, ScheduleInv
  <2>4. ASSUME Leaves(Now, FrameStack) PROVE Inv'
    BY <2>1, <2>2, <2>4, LeavesInv
  <2>5. QED
    BY <1>12, <2>3, <2>4 DEF TimerInterrupt
<1>13. ASSUME PitFires PROVE Inv'
  <2>1. pic' \in [request : BOOLEAN, service : {FALSE}] /\ pic'.service = pic.service
    BY <1>13 DEF PitFires, Inv, TypeOK
  <2>2. UNCHANGED <<cpu, cr3, tss, table, current, kstacks, next_pid, program>>
    BY <1>13 DEF PitFires
  <2>3. QED
    BY <2>1, <2>2 DEF Inv, TypeOK, ContextKept, Running, DirsDistinct
<1>14. ASSUME Instruction PROVE Inv'
  <2> DEFINE pc == (cpu.pc + 1) % Positions
  <2>1. /\ Running /\ current \in Slots /\ cpu = Popped(program[current], current)
        /\ program[current] \in Register /\ cpu.pc = program[current].pc /\ cpu.pc \in Nat
    <3>1. Running /\ current \in Slots
      BY <1>14, NowFramed DEF Instruction
    <3>2. cpu = Popped(program[current], current) /\ program[current] \in Register
      BY <3>1 DEF Inv, ContextKept, TypeOK
    <3>3. cpu.pc = program[current].pc /\ cpu.pc \in Nat
      BY <3>2 DEF Popped, Register
    <3>4. QED
      BY <3>1, <3>2, <3>3
  <2>2. pc \in Nat
    BY <2>1 DEF TrapsAssumption
  <2>3. /\ cpu' = [cpu EXCEPT !.pc = pc] /\ program' = [program EXCEPT ![current].pc = pc]
        /\ UNCHANGED <<cr3, tss, pic, table, current, kstacks, next_pid>>
    BY <1>14, <2>1 DEF Instruction, Inv, TypeOK
  <2> HIDE DEF pc
  <2>4. TypeOK'
    BY <2>2, <2>3 DEF Inv, TypeOK, Register
  <2>5. cpu' = Popped(program'[current], current) /\ cpu'.if
    BY <2>1, <2>3 DEF Popped, Register, Inv, TypeOK
  <2>6. \A t \in Slots \ {current} : program'[t] = program[t]
    BY <2>3 DEF Inv, TypeOK
  <2>7. QED
    BY <2>1, <2>3, <2>4, <2>5, <2>6 DEF Inv, ContextKept, Running, DirsDistinct
<1>15. ASSUME UNCHANGED trapsVars PROVE Inv'
  BY <1>15 DEF trapsVars, Inv, TypeOK, ContextKept, Running, DirsDistinct
<1>16. QED
  BY <1>1, <1>3, <1>4, <1>5, <1>6, <1>7, <1>8, <1>9, <1>10, <1>11, <1>12, <1>13, <1>14, <1>15 DEF TrapsNext

-----------------------------------------------------------------------------
\* For any number of tasks: whatever traps, calls and switches lie between, a program goes
\* on with its registers as it left them, in its own address space and with its own kernel
\* stack for the next trap, and the frames of the other tasks wait untouched
\* (interrupt_common, proc_schedule, proc_activate_task, proc_sys_fork, proc_sys_execv).
THEOREM ContextIsKept == ASSUME TrapsAssumption PROVE TrapsSpec => []ContextKept
<1>1. TrapsInit => Inv
  BY InitInv
<1>2. Inv /\ [TrapsNext]_trapsVars => Inv'
  BY NextInv
<1>3. Inv => ContextKept
  BY DEF Inv
<1>4. QED
  BY <1>1, <1>2, <1>3, PTL DEF TrapsSpec
=============================================================================
