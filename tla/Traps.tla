------------------------------- MODULE Traps -------------------------------
(***************************************************************************)
(* The way into the kernel and out of it: the interrupt stubs              *)
(* (boot/interrupts.S), interrupt_dispatch (idt.c), the kernel stack the   *)
(* processor switches to (gdt.c), the interrupt controller and the timer   *)
(* (pic.c, pit.c), syscall_dispatch (syscall.c), and what the handlers of  *)
(* proc.c do to the frames of the tasks.                                   *)
(*                                                                         *)
(* Every gate of the IDT is an interrupt gate: a handler runs to its end   *)
(* before another starts, and is one action. A kernel stack holds one      *)
(* frame, at its top, and is named by the slot of its task. Which of the   *)
(* runnable tasks proc_schedule picks and which blocked ones it wakes is   *)
(* the matter of module Proc; here it may be any.                          *)
(*                                                                         *)
(* The names of the specification carry the module's, since MCKernel       *)
(* extends this module beside Palloc.                                      *)
(***************************************************************************)
EXTENDS Integers, FiniteSets

CONSTANTS
    MAX_TASKS,
    Workers,        \* slots of the worker tasks; none when there is no serial console
    Positions,      \* positions in a program
    Results,        \* results of calls
    MaxPid          \* bound

\* There are the idle task and init; the workers follow them.
TrapsAssumption ==
    /\ MAX_TASKS \in Nat \ {0, 1} /\ Workers \subseteq 3..MAX_TASKS
    /\ Positions \in Nat \ {0} /\ Results \subseteq Int

VARIABLES
    cpu,        \* the registers: mode, pc, eax, if; sp is the stack it runs on in the kernel
    cr3, tss,   \* the address space, and the stack the processor takes on a trap (esp0)
    pic,        \* the timer's request and in-service bits
    table,      \* tasks[]: state, kind, pid, dir, saved (the stack saved_esp points into)
    current,    \* current_task
    kstacks,    \* the frame on each kernel stack
    next_pid,
    program     \* history: the registers as each program left them, or is to find them

trapsVars == <<cpu, cr3, tss, pic, table, current, kstacks, next_pid, program>>

Slots == 1..MAX_TASKS
Idle == 1
InitTask == 2
Nobody == 0
KernelDirectory == 0

Registers(mode, pc, eax) == [mode |-> mode, pc |-> pc, eax |-> eax, if |-> TRUE]
NoRegisters == Registers("none", 0, 0)

\* task_prepare_kernel_frame (task_bootstrap is position 0) and task_prepare_user_frame.
KernelFrame == Registers("kernel", 0, 0)
UserFrame == Registers("user", 0, 0)

UnusedTask == [state |-> "unused", kind |-> "kernel", pid |-> 0, dir |-> KernelDirectory, saved |-> Nobody]

\* paging_create_address_space: a directory no task has.
NewDirectory(t) == CHOOSE d \in 1..MAX_TASKS + 1 : \A s \in Slots : t[s].dir # d

-----------------------------------------------------------------------------
(* The stubs: a frame is pushed, and the frame that interrupt_dispatch returns is popped *)

FrameStack == IF cpu.mode = "user" THEN tss ELSE cpu.sp
Pushed == [kstacks EXCEPT ![FrameStack] = [mode |-> cpu.mode, pc |-> cpu.pc, eax |-> cpu.eax, if |-> cpu.if]]

Popped(frame, slot) == [mode |-> frame.mode, pc |-> frame.pc, eax |-> frame.eax, if |-> frame.if, sp |-> slot]

-----------------------------------------------------------------------------
(* proc_schedule, on the state s = [table, kstacks, current, cr3, tss, program] *)

Now == [table |-> table, kstacks |-> Pushed, current |-> current, cr3 |-> cr3, tss |-> tss, program |-> program]

Suspended(s, frame) ==
    IF s.current = Nobody THEN s
    ELSE [s EXCEPT !.table[s.current].saved = frame,
                   !.table[s.current].state = IF @ = "running" THEN "runnable" ELSE @]

\* proc_complete_blocked_io, _ping and proc_finish_blocked_wait put the result into the
\* saved frame; a sleeper had its result when it went to sleep.
Woken(s, t, result) ==
    IF s.table[t].state = "sleeping" THEN [s EXCEPT !.table[t].state = "runnable"]
    ELSE [s EXCEPT !.table[t].state = "runnable", !.kstacks[s.table[t].saved].eax = result,
                   !.program[t].eax = result]

Reaped(s, t) == [s EXCEPT !.table[t] = UnusedTask, !.kstacks[t] = NoRegisters, !.program[t] = NoRegisters]

\* Mutant: the stack for the next trap is left as it is.
ActivateKeepsStack(s, next) ==
    [s EXCEPT !.current = next, !.cr3 = s.table[next].dir, !.table[next].state = "running"]

Activate(s, next) ==
    [s EXCEPT !.current = next, !.cr3 = s.table[next].dir, !.tss = next, !.table[next].state = "running"]

\* At most one task is woken and at most one zombie is reaped, of those that wait.
Waiting(s) == {t \in Slots : s.table[t].state \in {"blocked", "sleeping"}}
Zombies(s) == {t \in Slots : s.table[t].state = "zombie" /\ t # s.current}
OneOf(set, s, Change(_, _)) == {s} \union {Change(s, t) : t \in set}

Serviced(s) ==
    UNION {OneOf(Zombies(u), u, Reaped) :
             u \in {s} \union {Woken(s, t, r) : t \in Waiting(s), r \in Results}}

Schedule(s, frame) ==
    UNION {{Activate(u, next) : next \in {t \in Slots : u.table[t].state = "runnable"}} :
             u \in Serviced(Suspended(s, frame))}

-----------------------------------------------------------------------------
(* The handlers *)

\* The handler has left the state s; the stub pops the frame on the stack of slot. What a
\* pop leaves above the stack pointer is dead.
Leaves(s, slot) ==
    /\ cpu' = Popped(s.kstacks[slot], slot)
    /\ table' = s.table /\ current' = s.current
    /\ kstacks' = [s.kstacks EXCEPT ![slot] = NoRegisters]
    /\ cr3' = s.cr3 /\ tss' = s.tss /\ program' = s.program

LeavesTo(s) == Leaves(s, s.table[s.current].saved)

Running == current # Nobody
UserCall == Running /\ cpu.mode = "user"

\* The value a call leaves in eax, in the frame and for the program to find.
WithResult(s, result) ==
    [s EXCEPT !.kstacks[FrameStack].eax = result, !.program[current].eax = result]

\* The calls that return to their caller at once: getpid and the calls on files and the
\* handlers that copy a record out to the program or fail.
CallReturns(result) ==
    /\ Running
    /\ Leaves(WithResult(Now, result), FrameStack)
    /\ UNCHANGED <<pic, next_pid>>

\* waitpid when the child is a zombie already.
Collects ==
    /\ UserCall
    /\ \E t \in Zombies(Now) : Leaves(Reaped(WithResult(Now, table[t].pid), t), FrameStack)
    /\ UNCHANGED <<pic, next_pid>>

Yields ==
    /\ Running
    /\ \E s \in Schedule(WithResult(Now, 0), FrameStack) : LeavesTo(s)
    /\ UNCHANGED <<pic, next_pid>>

Sleeps ==
    /\ UserCall
    /\ \E s \in Schedule([WithResult(Now, 0) EXCEPT !.table[current].state = "sleeping"], FrameStack) : LeavesTo(s)
    /\ UNCHANGED <<pic, next_pid>>

\* read, write, ping4 and waitpid when they have to wait.
Blocks ==
    /\ UserCall
    /\ \E s \in Schedule([Now EXCEPT !.table[current].state = "blocked"], FrameStack) : LeavesTo(s)
    /\ UNCHANGED <<pic, next_pid>>

\* exit, and a fault in a user program.
Exits ==
    /\ UserCall
    /\ \E s \in Schedule([Now EXCEPT !.table[current].state = "zombie"], FrameStack) : LeavesTo(s)
    /\ UNCHANGED <<pic, next_pid>>

\* A write to a shared page: the page is copied and the instruction starts again.
CopiesOnWrite ==
    /\ UserCall
    /\ Leaves(Now, FrameStack)
    /\ UNCHANGED <<pic, next_pid>>

Forks ==
    LET unused == {t \in Slots : table[t].state = "unused"}
        child  == CHOOSE t \in unused : \A u \in unused : t <= u
        parent == WithResult(Now, next_pid)
        frame  == [Pushed[FrameStack] EXCEPT !.eax = 0]
    IN  /\ UserCall /\ unused # {} /\ next_pid <= MaxPid
        /\ Leaves([parent EXCEPT !.table[child] = [state |-> "runnable", kind |-> "user", pid |-> next_pid,
                                                   dir |-> NewDirectory(table), saved |-> child],
                                 !.kstacks[child] = frame, !.program[child] = frame], FrameStack)
        /\ next_pid' = next_pid + 1
        /\ UNCHANGED pic

\* The frame of the call is overwritten by the first frame of the new program.
Execs ==
    LET dir == NewDirectory(table)
    IN  /\ UserCall
        /\ LeavesTo([Now EXCEPT !.table[current].dir = dir, !.table[current].saved = current,
                                !.kstacks[current] = UserFrame, !.program[current] = UserFrame,
                                !.cr3 = dir, !.tss = current])
        /\ UNCHANGED <<pic, next_pid>>

\* A task in the kernel is not preempted if it is a user task.
Preemptible(mode) == current = Nobody \/ table[current].kind # "user" \/ mode = "user"

Acknowledged(p) == [p EXCEPT !.request = FALSE, !.service = TRUE]
SendEoi(p) == [p EXCEPT !.service = FALSE]

TimerInterrupt ==
    /\ Running /\ cpu.if /\ pic.request /\ ~pic.service
    /\ IF Preemptible(cpu.mode) THEN \E s \in Schedule(Now, FrameStack) : LeavesTo(s)
                                ELSE Leaves(Now, FrameStack)
    /\ pic' = SendEoi(Acknowledged(pic))
    /\ UNCHANGED next_pid

-----------------------------------------------------------------------------
(* External: the timer, and the programs *)

PitFires ==
    /\ pic' = [pic EXCEPT !.request = TRUE]
    /\ UNCHANGED <<cpu, cr3, tss, table, current, kstacks, next_pid, program>>

Instruction ==
    /\ Running
    /\ cpu' = [cpu EXCEPT !.pc = (@ + 1) % Positions]
    /\ program' = [program EXCEPT ![current].pc = (@ + 1) % Positions]
    /\ UNCHANGED <<cr3, tss, pic, table, current, kstacks, next_pid>>

-----------------------------------------------------------------------------

\* proc_init and proc_start_boot_tasks.
Created(kind, pid, dir) == [state |-> "runnable", kind |-> kind, pid |-> pid, dir |-> dir, saved |-> pid]

TrapsInit ==
    /\ table = [t \in Slots |-> CASE t = Idle -> Created("kernel", Idle, KernelDirectory)
                                  [] t = InitTask -> Created("user", InitTask, 1)
                                  [] t \in Workers -> Created("kernel", t, KernelDirectory)
                                  [] OTHER -> UnusedTask]
    /\ program = [t \in Slots |-> CASE table[t].state = "unused" -> NoRegisters
                                    [] table[t].kind = "user" -> UserFrame
                                    [] OTHER -> KernelFrame]
    /\ kstacks = program
    /\ cpu = Popped(NoRegisters, Nobody)
    /\ cr3 = KernelDirectory /\ tss = Idle
    /\ pic = [request |-> FALSE, service |-> FALSE]
    /\ current = Nobody
    /\ next_pid = 3 + Cardinality(Workers)

\* proc_enter_initial_task: interrupt_resume pops the first frame.
EnterInitialTask ==
    /\ ~Running
    /\ \E next \in {Idle, InitTask} \union Workers :
         LeavesTo(Activate([Now EXCEPT !.kstacks = kstacks], next))
    /\ UNCHANGED <<pic, next_pid>>

TrapsNext ==
    \/ EnterInitialTask
    \/ \E result \in Results : CallReturns(result)
    \/ Collects \/ Yields \/ Sleeps \/ Blocks \/ Exits \/ CopiesOnWrite \/ Forks \/ Execs
    \/ TimerInterrupt \/ PitFires \/ Instruction

TrapsSpec == TrapsInit /\ [][TrapsNext]_trapsVars

-----------------------------------------------------------------------------

\* Whatever traps, calls and switches lie between, a program finds its registers as it
\* left them, with the result of its call; it runs in its own address space, with
\* interrupts on and no tick left in service, and the next trap will use its own kernel
\* stack. The frame of every other task waits untouched on that task's stack
\* (interrupt_common, proc_activate_task, proc_sys_fork, proc_sys_execv,
\* proc_complete_blocked_io).
ContextKept ==
    /\ Running => /\ cpu = Popped(program[current], current) /\ cpu.if /\ ~pic.service
                  /\ cr3 = table[current].dir /\ tss = current
    /\ \A t \in Slots \ {current} : table[t].state \notin {"unused", "zombie"} =>
         /\ kstacks[table[t].saved] = program[t]
         /\ table[t].saved = t
         /\ table[t].dir # KernelDirectory => \A u \in Slots \ {t} : table[u].dir # table[t].dir
=============================================================================
