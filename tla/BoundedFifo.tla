---------------------------- MODULE BoundedFifo -----------------------------
(***************************************************************************)
(* What a pipe promises its readers and writers: a queue of bounded length *)
(* from which bytes come out once each, in the order they went in.         *)
(***************************************************************************)
EXTENDS Integers, Sequences

CONSTANTS
  Capacity,  \* the most bytes it holds
  Offers,    \* the byte sequences writers offer
  Requests   \* the numbers of bytes readers ask for

VARIABLES
  queue,    \* the bytes in the pipe
  offered,  \* the bytes the last write was given
  taken     \* the bytes the last read returned

Least(a, b) == IF a <= b THEN a ELSE b

Init == queue = <<>> /\ offered = <<>> /\ taken = <<>>

\* A write puts in the first of its bytes, as many as fit, and at least one.
Put(bytes) == LET n == Least(Len(bytes), Capacity - Len(queue))
              IN  /\ n > 0
                  /\ queue' = queue \o SubSeq(bytes, 1, n)
                  /\ offered' = bytes
                  /\ UNCHANGED taken

\* A read takes the oldest bytes out, as many as it asks for and there are.
Get(request) == LET n == Least(request, Len(queue))
                IN  /\ n > 0
                    /\ taken' = SubSeq(queue, 1, n)
                    /\ queue' = SubSeq(queue, n + 1, Len(queue))
                    /\ UNCHANGED offered

Next == \/ \E bytes \in Offers : Put(bytes)
        \/ \E request \in Requests : Get(request)

Spec == Init /\ [][Next]_<<queue, offered, taken>>

=============================================================================
