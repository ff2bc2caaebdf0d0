----------------------------- MODULE PipeQueue ------------------------------
(***************************************************************************)
(* One pipe with readers and writers: pipe_inode_read and pipe_inode_write *)
(* of src/kernel/vfs.c while both ends are open. A call that would block   *)
(* changes nothing.                                                        *)
(***************************************************************************)
EXTENDS PipeRing

CONSTANTS
  Offers,   \* the byte sequences writers offer
  Requests  \* the numbers of bytes readers ask for

CallAssumption == Offers \subseteq Seq(Byte) /\ Requests \subseteq Nat

VARIABLES
  ring,     \* the pipe
  offered,  \* the bytes the last write was given
  taken     \* the bytes the last read returned

vars == <<ring, offered, taken>>

Init == ring = EmptyRing /\ offered = <<>> /\ taken = <<>>

Write(bytes) == /\ bytes # <<>> /\ ring.buffered < VFS_PIPE_BUFFER_SIZE
                /\ ring' = PipeWrite(ring, bytes)
                /\ offered' = bytes
                /\ UNCHANGED taken

Read(n) == /\ n > 0 /\ ring.buffered # 0
           /\ ring' = PipeRead(ring, n)
           /\ taken' = Oldest(ring, n)
           /\ UNCHANGED offered

Next == \/ \E bytes \in Offers : Write(bytes)
        \/ \E n \in Requests : Read(n)

Spec == Init /\ [][Next]_vars

-----------------------------------------------------------------------------
\* Type invariant: the ring is well formed, and write_index is where the bytes
\* that are buffered end.
RingOK == /\ ring \in Ring
          /\ ring.write_index = Advance(ring.read_index, ring.buffered)
          /\ offered \in Seq(Byte) /\ taken \in Seq(Byte \cup {NoByte})

Fifo == INSTANCE BoundedFifo WITH Capacity <- VFS_PIPE_BUFFER_SIZE, queue <- Contents(ring)

\* The ring is a bounded queue: bytes come out once each, in order, as many as
\* were asked for, and a write loses none of those it accepts.
PipeIsFifo == Fifo!Spec

=============================================================================
