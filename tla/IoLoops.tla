------------------------------ MODULE IoLoops -------------------------------
(***************************************************************************)
(* The loops of src/kernel/vfs.c and src/kernel/proc.c that move bytes     *)
(* through a pipe, iteration by iteration, compared with the closed forms  *)
(* of PipeRing and Chunks that Files and PipeQueue use.                    *)
(***************************************************************************)
EXTENDS PipeQueue, Chunks

CONSTANT MaxLength  \* bound: longest read or write

-----------------------------------------------------------------------------
RECURSIVE ReadBytes(_, _, _)
\* while (copied < length && pipe->buffered != 0)
ReadBytes(r, bytes, n) ==
  IF Len(bytes) < n /\ r.buffered # 0
    THEN ReadBytes([r EXCEPT !.read_index = (@ + 1) % VFS_PIPE_BUFFER_SIZE, !.buffered = @ - 1],
                   Append(bytes, r.buffer[r.read_index]), n)
    ELSE [ring |-> r, bytes |-> bytes]

RECURSIVE WriteBytes(_, _, _)
\* while (written < length && pipe->buffered < VFS_PIPE_BUFFER_SIZE)
WriteBytes(r, written, bytes) ==
  IF written < Len(bytes) /\ r.buffered < VFS_PIPE_BUFFER_SIZE
    THEN WriteBytes([r EXCEPT !.buffer[r.write_index] = bytes[written + 1],
                              !.write_index = (@ + 1) % VFS_PIPE_BUFFER_SIZE, !.buffered = @ + 1],
                    written + 1, bytes)
    ELSE r

RECURSIVE ReadChunks(_, _, _, _)
\* while (done < length), with left bytes in the pipe; what has left the pipe in the end.
ReadChunks(length, mapped, done, left) ==
  LET chunk == Smaller(length - done, PROC_IO_CHUNK)
      got == Smaller(chunk, left)
  IN  IF done = length \/ got = 0 THEN done
      ELSE IF done + got > mapped \/ got < chunk THEN done + got
      ELSE ReadChunks(length, mapped, done + got, left - got)

RECURSIVE WriteChunks(_, _, _, _)
\* while (done < length), with room for some more bytes; what write returns.
WriteChunks(length, mapped, done, room) ==
  LET chunk == Smaller(length - done, PROC_IO_CHUNK)
      put == Smaller(chunk, room)
  IN  IF done = length \/ done + chunk > mapped \/ put = 0 THEN done
      ELSE IF put < chunk THEN done + put
      ELSE WriteChunks(length, mapped, done + put, room - put)

-----------------------------------------------------------------------------
\* The loops of pipe_inode_read and pipe_inode_write, which advance an index modulo
\* the size for every byte, leave the ring PipeRead and PipeWrite describe in
\* one step, wherever the bytes lie in the buffer.
RingLoopsAgree ==
  /\ \A n \in 1 .. MaxLength :
       ReadBytes(ring, <<>>, n) = [ring |-> PipeRead(ring, n), bytes |-> Oldest(ring, n)]
  /\ \A bytes \in Offers : WriteBytes(ring, 0, bytes) = PipeWrite(ring, bytes)

\* The loops of proc_sys_read and proc_sys_write stop where Drained and Sendable
\* say, at every relation of length, chunk size, bytes or room in the pipe and
\* the end of the mapped buffer.
ChunkLoopsAgree ==
  \A length \in 1 .. MaxLength, mapped \in 0 .. MaxLength :
    LET room == VFS_PIPE_BUFFER_SIZE - ring.buffered
    IN  /\ ReadChunks(length, mapped, 0, ring.buffered) = Drained(Smaller(length, ring.buffered), mapped)
        /\ WriteChunks(length, mapped, 0, room) = Smaller(Sendable(length, mapped), room)

=============================================================================
