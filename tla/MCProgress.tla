---------------------------- MODULE MCProgress ------------------------------
(***************************************************************************)
(* What must eventually happen, on instances small enough for TLC to check *)
(* liveness: the scheduler of Proc on a machine whose timer interrupts and *)
(* on one whose timer never does, and the blocked calls of Files, retried  *)
(* by the timer. A behaviour is one of these three systems throughout; the *)
(* variables of the others keep their initial values.                      *)
(***************************************************************************)
EXTENDS Proc

VARIABLES
  part,  \* the system this behaviour is of
  live, fd_table, file_table, pipes, rings, blocked, written, seen

\* Two tasks and a pipe of one byte; calls longer than the pipe block in the middle.
F == INSTANCE Files WITH VFS_PIPE_BUFFER_SIZE <- 1, MAX_TASKS <- 2, VFS_MAX_FDS <- 2,
                         VFS_MAX_FILES <- 2, Pipes <- {"p"}, StdFiles <- 0, PROC_IO_CHUNK <- 1,
                         Lengths <- {1, 2}, FaultsAt <- {1}, MaxBytes <- 2,
                         Calls <- {"pipe", "fork", "exit", "close", "read", "write"}

fileVars == <<live, fd_table, file_table, pipes, rings, blocked, written, seen>>
partsVars == <<part, vars, fileVars>>

PartsInit == part \in {"timer", "polled", "pipes"} /\ Init /\ F!Init

InProc == part # "pipes" /\ UNCHANGED <<part, fileVars>>
InFiles == part = "pipes" /\ UNCHANGED <<part, vars>>

Enter == InProc /\ EnterInitialTask
Tick == InProc /\ part = "timer" /\ TimerInterrupt
Poll == InProc /\ part = "polled" /\ Yield
Retry == InFiles /\ F!Reschedule

PartsNext == \/ Enter
             \/ Tick
             \/ InProc /\ Syscall
             \/ InFiles /\ F!Next

\* The PIT interrupts at 100 Hz and no handler loops, so the first task is entered
\* and the timer keeps interrupting whatever runs; with a timer that never interrupts,
\* the tasks that do not wait, the idle task among them, keep yielding.
PartsSpec == /\ PartsInit /\ [][PartsNext]_partsVars
             /\ WF_partsVars(Enter)
             /\ WF_partsVars(Tick)
             /\ WF_partsVars(Poll)
             /\ WF_partsVars(Retry)

-----------------------------------------------------------------------------
\* Every runnable task but idle eventually runs while the timer interrupts:
\* proc_pick_next goes round the table, whatever is forked, blocked or collected.
RunnableRuns ==
  \A s \in Slots : (part = "timer" /\ s # idle_task /\ tasks[s].state = "RUNNABLE")
                        ~> (tasks[s].state = "RUNNING")

\* No task stays blocked for ever in a read or write that could go on: there is no
\* lost wakeup between the call that makes it ready and proc_service_blocked_io.
NeverLeftReady == F!NeverLeftReady

=============================================================================
