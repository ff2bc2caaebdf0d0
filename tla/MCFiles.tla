------------------------------- MODULE MCFiles ------------------------------
(***************************************************************************)
(* Three instances of what moves bytes through pipes and keeps track of    *)
(* who has them open. A behaviour is of one of them throughout; the        *)
(* variables of the others keep their initial values.                      *)
(*   ring  the ring buffer alone, with the byte and chunk loops of the     *)
(*         code run on every ring that comes up                            *)
(*   refs  the tables of two tasks that open, duplicate, fork and exit     *)
(*   data  three tasks that share a pipe of two bytes                      *)
(***************************************************************************)
EXTENDS Files

VARIABLES
  part,
  ring, offered, taken,                                                   \* IoLoops
  live_d, fds_d, files_d, pipes_d, rings_d, blocked_d, written_d, seen_d  \* Files, for data

ringVars == <<ring, offered, taken>>
dataVars == <<live_d, fds_d, files_d, pipes_d, rings_d, blocked_d, written_d, seen_d>>

\* Writes of up to three bytes over an alphabet of two, and one that the ring cannot hold.
MCOffers == UNION {[1 .. n -> {1, 2}] : n \in 1 .. 3} \cup {<<1, 2, 1, 1, 2, 2>>}

Loops == INSTANCE IoLoops WITH VFS_PIPE_BUFFER_SIZE <- 4, Byte <- {1, 2}, NoByte <- 0, Offers <- MCOffers,
                               Requests <- {1, 2, 4}, PROC_IO_CHUNK <- 2, MaxLength <- 5

D == INSTANCE Files WITH VFS_PIPE_BUFFER_SIZE <- 2, MAX_TASKS <- 3, VFS_MAX_FDS <- 2,
                         VFS_MAX_FILES <- 2, Pipes <- {"p"}, StdFiles <- 0, PROC_IO_CHUNK <- 1,
                         Lengths <- {1, 2}, FaultsAt <- {1}, MaxBytes <- 2,
                         Calls <- {"pipe", "fork", "exit", "close", "read", "write"},
                         live <- live_d, fd_table <- fds_d, file_table <- files_d, pipes <- pipes_d,
                         rings <- rings_d, blocked <- blocked_d, written <- written_d, seen <- seen_d

\* What the proofs of FilesProofs and PipeProofs rest on.
ASSUME TablesAssumption == FilesAssumption /\ D!FilesAssumption
ASSUME LoopsAssumption == Loops!RingAssumption /\ Loops!CallAssumption /\ Loops!ChunkAssumption

PartsInit == part \in {"ring", "refs", "data"} /\ Loops!Init /\ Init /\ D!Init

PartsNext == \/ part = "ring" /\ Loops!Next /\ UNCHANGED <<part, vars, dataVars>>
             \/ part = "refs" /\ Next /\ UNCHANGED <<part, ringVars, dataVars>>
             \/ part = "data" /\ D!Next /\ UNCHANGED <<part, ringVars, vars>>

PartsSpec == PartsInit /\ [][PartsNext]_<<part, ringVars, vars, dataVars>>

-----------------------------------------------------------------------------
\* The loops of pipe_inode_read, pipe_inode_write, proc_sys_read and proc_sys_write,
\* run iteration by iteration on every ring that comes up, have the effect of the
\* closed forms of PipeRing and Chunks that the other modules use.
LoopsAgree == part = "ring" => Loops!RingLoopsAgree /\ Loops!ChunkLoopsAgree

\* What is in a pipe is, writer by writer, exactly what write has reported and
\* nobody has read yet, in order: no byte is lost, duplicated or reordered by
\* partial writes, blocked calls that are retried, or several writers.
StreamsExact == part = "data" => D!StreamExact

=============================================================================
