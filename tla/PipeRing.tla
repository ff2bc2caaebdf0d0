------------------------------ MODULE PipeRing ------------------------------
(***************************************************************************)
(* The ring buffer of a pipe (vfs_pipe_t in src/kernel/vfs.c): what the    *)
(* loops of pipe_inode_read and pipe_inode_write leave behind, as          *)
(* functions of the ring and the bytes.                                    *)
(***************************************************************************)
EXTENDS Integers, Sequences

CONSTANTS
  VFS_PIPE_BUFFER_SIZE,  \* 1024 in vfs.h
  Byte,                  \* the bytes that are sent
  NoByte                 \* what kzalloc leaves in the buffer

RingAssumption == VFS_PIPE_BUFFER_SIZE \in Nat \ {0}

Index == 0 .. VFS_PIPE_BUFFER_SIZE - 1

Ring == [buffer : [Index -> Byte \cup {NoByte}],
         read_index : Index,
         write_index : Index,
         buffered : 0 .. VFS_PIPE_BUFFER_SIZE]

EmptyRing == [buffer |-> [i \in Index |-> NoByte],
              read_index |-> 0, write_index |-> 0, buffered |-> 0]

Smaller(a, b) == IF a <= b THEN a ELSE b

\* (i + n) % VFS_PIPE_BUFFER_SIZE, for n up to the size.
Advance(i, n) == IF i + n >= VFS_PIPE_BUFFER_SIZE THEN i + n - VFS_PIPE_BUFFER_SIZE ELSE i + n

\* How far slot i is ahead of slot from, going round.
Ahead(from, i) == IF i >= from THEN i - from ELSE i - from + VFS_PIPE_BUFFER_SIZE

\* The bytes a read of up to n takes, oldest first.
Oldest(r, n) == [j \in 1 .. Smaller(n, r.buffered) |-> r.buffer[Advance(r.read_index, j - 1)]]

Contents(r) == Oldest(r, r.buffered)

PipeRead(r, n) ==
  LET copied == Smaller(n, r.buffered)
  IN  [r EXCEPT !.read_index = Advance(@, copied), !.buffered = @ - copied]

\* Mutant: a write that does not fit stores the last bytes it was given.
PipeWriteTail(r, bytes) ==
  LET written == Smaller(Len(bytes), VFS_PIPE_BUFFER_SIZE - r.buffered)
  IN  [buffer |-> [i \in Index |-> IF Ahead(r.write_index, i) < written
                                     THEN bytes[Len(bytes) - written + Ahead(r.write_index, i) + 1]
                                     ELSE r.buffer[i]],
       read_index |-> r.read_index,
       write_index |-> Advance(r.write_index, written),
       buffered |-> r.buffered + written]

PipeWrite(r, bytes) ==
  LET written == Smaller(Len(bytes), VFS_PIPE_BUFFER_SIZE - r.buffered)
  IN  [buffer |-> [i \in Index |-> IF Ahead(r.write_index, i) < written
                                     THEN bytes[Ahead(r.write_index, i) + 1]
                                     ELSE r.buffer[i]],
       read_index |-> r.read_index,
       write_index |-> Advance(r.write_index, written),
       buffered |-> r.buffered + written]

=============================================================================
