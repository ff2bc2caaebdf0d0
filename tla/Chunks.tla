------------------------------- MODULE Chunks -------------------------------
(***************************************************************************)
(* How many bytes the loops of proc_sys_read and proc_sys_write (and of    *)
(* the retries of blocked calls) in src/kernel/proc.c move, chunk by       *)
(* chunk, when only the first part of the user's buffer is mapped.         *)
(***************************************************************************)
EXTENDS Integers

CONSTANT PROC_IO_CHUNK  \* bytes moved at a time; 256 in proc.c

ChunkAssumption == PROC_IO_CHUNK \in Nat \ {0}

\* What leaves the pipe when total bytes are read: all of them, or the chunks up
\* to and including the first that cannot be copied out.
Drained(total, mapped) ==
  LET tried == (mapped \div PROC_IO_CHUNK + 1) * PROC_IO_CHUNK
  IN  IF total <= mapped \/ total <= tried THEN total ELSE tried

\* The bytes copied in for a write before a chunk cannot be.
Sendable(length, mapped) ==
  IF length <= mapped THEN length ELSE (mapped \div PROC_IO_CHUNK) * PROC_IO_CHUNK

=============================================================================
