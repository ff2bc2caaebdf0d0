----------------------------- MODULE PipeProofs -----------------------------
(***************************************************************************)
(* Proofs about PipeQueue, for every buffer size, byte set, offer and      *)
(* request: the ring stays well formed, and it implements BoundedFifo.     *)
(***************************************************************************)
EXTENDS PipeQueue, SequenceTheorems, TLAPS

Stored == Byte \cup {NoByte}
Size == VFS_PIPE_BUFFER_SIZE

\* An index of the buffer stays one when it goes round.
LEMMA AdvanceIndex ==
  ASSUME RingAssumption, NEW i \in Index, NEW n \in 0 .. Size
  PROVE  Advance(i, n) \in Index
BY RingAssumption DEF RingAssumption, Advance, Index, Size

\* Two advances are one.
LEMMA AdvanceSum ==
  ASSUME RingAssumption, NEW i \in Index, NEW m \in Nat, NEW n \in Nat, m + n <= Size
  PROVE  Advance(Advance(i, m), n) = Advance(i, m + n)
BY RingAssumption DEF RingAssumption, Advance, Index, Size

\* The slots of the m-th byte, seen from where b bytes end.
LEMMA AheadOld ==
  ASSUME RingAssumption, NEW i \in Index, NEW b \in 0 .. Size, NEW m \in 0 .. b - 1
  PROVE  Ahead(Advance(i, b), Advance(i, m)) = Size - b + m
BY RingAssumption DEF RingAssumption, Advance, Ahead, Index, Size

\* The slots after the end of b bytes, seen from there.
LEMMA AheadNew ==
  ASSUME RingAssumption, NEW i \in Index, NEW b \in 0 .. Size, NEW m \in b .. Size - 1
  PROVE  Ahead(Advance(i, b), Advance(i, m)) = m - b
BY RingAssumption DEF RingAssumption, Advance, Ahead, Index, Size

\* The sequence of the oldest bytes, by length and element.
LEMMA OldestSeq ==
  ASSUME RingAssumption, NEW r \in Ring, NEW n \in Nat
  PROVE  LET k == Smaller(n, r.buffered)
         IN  /\ k \in 0 .. r.buffered
             /\ Oldest(r, n) \in Seq(Stored) /\ Len(Oldest(r, n)) = k
             /\ \A j \in 1 .. k : Oldest(r, n)[j] = r.buffer[Advance(r.read_index, j - 1)]
<1> DEFINE k == Smaller(n, r.buffered)
<1>1. k \in 0 .. r.buffered /\ r.buffered \in 0 .. Size /\ Size \in Nat \ {0} /\ r.read_index \in Index
      /\ r.buffer \in [Index -> Stored]
  BY RingAssumption DEF RingAssumption, Ring, Smaller, Size, Stored
<1>2. \A j \in 1 .. k : Advance(r.read_index, j - 1) \in Index
  BY <1>1 DEF Advance, Index, Size
<1> HIDE DEF k
<1>3. \A j \in 1 .. k : r.buffer[Advance(r.read_index, j - 1)] \in Stored
  BY <1>1, <1>2
<1>4. Oldest(r, n) = [j \in 1 .. k |-> r.buffer[Advance(r.read_index, j - 1)]]
  BY DEF Oldest, k
<1> QED BY <1>1, <1>3, <1>4 DEF k

\* A write keeps the ring well formed.
LEMMA WriteRing ==
  ASSUME RingAssumption, NEW r \in Ring, r.write_index = Advance(r.read_index, r.buffered), NEW bytes \in Seq(Byte)
  PROVE  /\ PipeWrite(r, bytes) \in Ring
         /\ PipeWrite(r, bytes).write_index =
              Advance(PipeWrite(r, bytes).read_index, PipeWrite(r, bytes).buffered)
<1> DEFINE k == Smaller(Len(bytes), Size - r.buffered)
           w == PipeWrite(r, bytes)
<1>1. /\ Size \in Nat \ {0} /\ r.buffered \in 0 .. Size
      /\ r.read_index \in Index /\ r.write_index \in Index /\ r.buffer \in [Index -> Stored]
  BY RingAssumption DEF RingAssumption, Ring, Size, Stored
<1>2. k \in 0 .. Size - r.buffered /\ k <= Len(bytes) /\ Len(bytes) \in Nat
  BY <1>1 DEF Smaller
<1>3. /\ w = [buffer |-> [i \in Index |-> IF Ahead(r.write_index, i) < k
                                            THEN bytes[Ahead(r.write_index, i) + 1] ELSE r.buffer[i]],
              read_index |-> r.read_index,
              write_index |-> Advance(r.write_index, k),
              buffered |-> r.buffered + k]
  BY DEF PipeWrite, Size
<1> HIDE DEF k, w
<1>4. ASSUME NEW i \in Index
      PROVE  (IF Ahead(r.write_index, i) < k THEN bytes[Ahead(r.write_index, i) + 1] ELSE r.buffer[i])
               \in Stored
  <2>1. Ahead(r.write_index, i) \in Nat
    BY <1>1 DEF Ahead, Index, Size
  <2>2. CASE Ahead(r.write_index, i) < k
    <3>1. Ahead(r.write_index, i) + 1 \in 1 .. Len(bytes)
      BY <1>2, <2>1, <2>2
    <3> QED BY <2>2, <3>1 DEF Stored
  <2> QED BY <1>1, <2>2
<1>5. k \in 0 .. Size /\ r.buffered + k \in 0 .. Size
  BY <1>1, <1>2
<1>6. Advance(r.write_index, k) \in Index
  BY <1>1, <1>5, AdvanceIndex
<1>7. Advance(r.write_index, k) = Advance(r.read_index, r.buffered + k)
  <2>1. r.buffered \in Nat /\ k \in Nat /\ r.buffered + k <= Size
    BY <1>1, <1>5
  <2> QED BY <1>1, <2>1, AdvanceSum
<1>8. w \in Ring
  BY <1>1, <1>3, <1>4, <1>5, <1>6 DEF Ring, Stored, Size
<1>9. w.write_index = Advance(w.read_index, w.buffered)
  BY <1>3, <1>7
<1> QED BY <1>8, <1>9 DEF w

\* A read keeps the ring well formed.
LEMMA ReadRing ==
  ASSUME RingAssumption, NEW r \in Ring, r.write_index = Advance(r.read_index, r.buffered), NEW n \in Nat
  PROVE  /\ PipeRead(r, n) \in Ring
         /\ PipeRead(r, n).write_index =
              Advance(PipeRead(r, n).read_index, PipeRead(r, n).buffered)
<1> DEFINE k == Smaller(n, r.buffered)
           w == PipeRead(r, n)
<1>1. /\ Size \in Nat \ {0} /\ r.buffered \in 0 .. Size
      /\ r.read_index \in Index /\ r.write_index \in Index
  BY RingAssumption DEF RingAssumption, Ring, Size
<1>2. k \in 0 .. r.buffered
  BY <1>1 DEF Smaller
<1> HIDE DEF k
<1>3. w = [r EXCEPT !.read_index = Advance(r.read_index, k), !.buffered = r.buffered - k]
  BY DEF PipeRead, k
<1>4. Advance(r.read_index, k) \in Index /\ r.buffered - k \in 0 .. Size
  <2>1. k \in 0 .. Size /\ r.buffered - k \in 0 .. Size
    BY <1>1, <1>2
  <2> QED BY <1>1, <2>1, AdvanceIndex
<1>5. Advance(Advance(r.read_index, k), r.buffered - k) = Advance(r.read_index, r.buffered)
  <2>1. k \in Nat /\ r.buffered - k \in Nat /\ k + (r.buffered - k) = r.buffered
        /\ r.buffered <= Size
    BY <1>1, <1>2
  <2> QED BY <1>1, <2>1, AdvanceSum
<1> HIDE DEF w
<1>6. w \in Ring
  BY <1>3, <1>4 DEF Ring, Size
<1>7. w.write_index = r.write_index /\ w.read_index = Advance(r.read_index, k)
      /\ w.buffered = r.buffered - k
  BY <1>3 DEF Ring
<1> QED BY <1>5, <1>6, <1>7 DEF w

\* The bytes in a pipe, by length and element.
LEMMA ContentsSeq ==
  ASSUME RingAssumption, NEW r \in Ring
  PROVE  /\ r.buffered \in 0 .. Size /\ r.read_index \in Index
         /\ Contents(r) \in Seq(Stored) /\ Len(Contents(r)) = r.buffered
         /\ \A j \in 1 .. r.buffered : Contents(r)[j] = r.buffer[Advance(r.read_index, j - 1)]
<1>1. r.buffered \in 0 .. Size /\ r.buffered \in Nat /\ r.read_index \in Index
  BY RingAssumption DEF RingAssumption, Ring, Size
<1>2. Smaller(r.buffered, r.buffered) = r.buffered
  BY DEF Smaller
<1> QED BY <1>1, <1>2, OldestSeq DEF Contents

\* What a write appends to the bytes in the pipe.
LEMMA WriteContents ==
  ASSUME RingAssumption, NEW r \in Ring, r.write_index = Advance(r.read_index, r.buffered), NEW bytes \in Seq(Byte)
  PROVE  LET k == Smaller(Len(bytes), Size - r.buffered)
         IN  Contents(PipeWrite(r, bytes)) = Contents(r) \o SubSeq(bytes, 1, k)
<1> DEFINE k == Smaller(Len(bytes), Size - r.buffered)
           w == PipeWrite(r, bytes)
           new == SubSeq(bytes, 1, k)
<1>1. /\ Size \in Nat \ {0} /\ r.buffered \in 0 .. Size /\ r.read_index \in Index
      /\ k \in 0 .. Size - r.buffered /\ k <= Len(bytes) /\ Len(bytes) \in Nat
  BY RingAssumption DEF RingAssumption, Ring, Size, Smaller
<1>2. /\ w.buffer = [i \in Index |-> IF Ahead(r.write_index, i) < k
                                       THEN bytes[Ahead(r.write_index, i) + 1] ELSE r.buffer[i]]
      /\ w.read_index = r.read_index /\ w.buffered = r.buffered + k
  BY DEF PipeWrite, Size
<1>3. w \in Ring
  BY WriteRing
<1> HIDE DEF k, w
<1>4. new \in Seq(Stored) /\ Len(new) = k /\ \A i \in 1 .. k : new[i] = bytes[i]
  <2>1. \A i \in 1 .. k : bytes[i] \in Stored
    BY <1>1 DEF Stored
  <2> QED BY <1>1, <2>1, SubSeqProperties
<1> HIDE DEF new
<1>5. /\ Contents(r) \o new \in Seq(Stored)
      /\ Len(Contents(r) \o new) = r.buffered + k
      /\ \A j \in 1 .. r.buffered + k :
           (Contents(r) \o new)[j] = IF j <= r.buffered THEN Contents(r)[j] ELSE new[j - r.buffered]
  <2> DEFINE c == Contents(r)
  <2>1. c \in Seq(Stored) /\ Len(c) = r.buffered
    BY ContentsSeq
  <2> HIDE DEF c
  <2>2. /\ c \o new \in Seq(Stored) /\ Len(c \o new) = Len(c) + Len(new)
        /\ \A j \in 1 .. Len(c) + Len(new) :
             (c \o new)[j] = IF j <= Len(c) THEN c[j] ELSE new[j - Len(c)]
    BY <1>4, <2>1, ConcatProperties
  <2> QED BY <1>4, <2>1, <2>2 DEF c
<1>6. ASSUME NEW j \in 1 .. r.buffered + k
      PROVE  Contents(w)[j] = (Contents(r) \o new)[j]
  <2>1. j - 1 \in 0 .. Size - 1 /\ j - 1 \in 0 .. Size /\ j \in Nat
    BY <1>1
  <2>2. Advance(r.read_index, j - 1) \in Index
    BY <1>1, <2>1, AdvanceIndex
  <2>3. Contents(w)[j] = w.buffer[Advance(r.read_index, j - 1)]
    BY <1>2, <1>3, ContentsSeq
  <2>4. CASE j <= r.buffered
    <3>1. j - 1 \in 0 .. r.buffered - 1
      BY <1>1, <2>1, <2>4
    <3>2. Ahead(r.write_index, Advance(r.read_index, j - 1)) = Size - r.buffered + (j - 1)
      BY <1>1, <3>1, AheadOld
    <3>3. ~(Ahead(r.write_index, Advance(r.read_index, j - 1)) < k)
      BY <1>1, <2>1, <3>2
    <3>4. Contents(w)[j] = r.buffer[Advance(r.read_index, j - 1)]
      BY <1>2, <2>2, <2>3, <3>3
    <3> QED BY <1>5, <2>1, <2>4, <3>4, ContentsSeq
  <2>5. CASE ~(j <= r.buffered)
    <3>1. j - 1 \in r.buffered .. Size - 1 /\ j - r.buffered \in 1 .. k
      BY <1>1, <2>1, <2>5
    <3>2. Ahead(r.write_index, Advance(r.read_index, j - 1)) = j - 1 - r.buffered
      BY <1>1, <3>1, AheadNew
    <3>3. /\ Ahead(r.write_index, Advance(r.read_index, j - 1)) < k
          /\ Ahead(r.write_index, Advance(r.read_index, j - 1)) + 1 = j - r.buffered
      BY <1>1, <2>1, <3>1, <3>2
    <3>4. Contents(w)[j] = bytes[j - r.buffered]
      BY <1>2, <2>2, <2>3, <3>3
    <3> QED BY <1>4, <1>5, <2>5, <3>1, <3>4
  <2> QED BY <2>4, <2>5
<1>7. Contents(w) \in Seq(Stored) /\ Len(Contents(w)) = r.buffered + k
  BY <1>2, <1>3, ContentsSeq
<1>8. Contents(w) = Contents(r) \o new
  BY <1>5, <1>6, <1>7, SeqEqual
<1> QED BY <1>8 DEF k, w, new

\* What a read returns and what it leaves in the pipe.
LEMMA ReadContents ==
  ASSUME RingAssumption, NEW r \in Ring, r.write_index = Advance(r.read_index, r.buffered), NEW n \in Nat
  PROVE  LET k == Smaller(n, r.buffered)
         IN  /\ Oldest(r, n) = SubSeq(Contents(r), 1, k)
             /\ Contents(PipeRead(r, n)) = SubSeq(Contents(r), k + 1, r.buffered)
<1> DEFINE k == Smaller(n, r.buffered)
           w == PipeRead(r, n)
           c == Contents(r)
           out == SubSeq(c, 1, k)
           rest == SubSeq(c, k + 1, r.buffered)
<1>1. /\ Size \in Nat \ {0} /\ r.buffered \in 0 .. Size /\ r.read_index \in Index
      /\ k \in 0 .. r.buffered
  BY RingAssumption DEF RingAssumption, Ring, Size, Smaller
<1>2. /\ Oldest(r, n) \in Seq(Stored) /\ Len(Oldest(r, n)) = k
      /\ \A j \in 1 .. k : Oldest(r, n)[j] = r.buffer[Advance(r.read_index, j - 1)]
  BY OldestSeq
<1>3. /\ w.buffer = r.buffer /\ w.read_index = Advance(r.read_index, k)
      /\ w.buffered = r.buffered - k
  BY DEF PipeRead, Ring
<1>4. w \in Ring
  BY ReadRing
<1>5. /\ c \in Seq(Stored) /\ Len(c) = r.buffered
      /\ \A j \in 1 .. r.buffered : c[j] = r.buffer[Advance(r.read_index, j - 1)]
  BY ContentsSeq
<1>6. /\ Contents(w) \in Seq(Stored) /\ Len(Contents(w)) = r.buffered - k
      /\ \A j \in 1 .. r.buffered - k :
           Contents(w)[j] = r.buffer[Advance(Advance(r.read_index, k), j - 1)]
  BY <1>3, <1>4, ContentsSeq
<1> HIDE DEF k, w, c
<1>7. out \in Seq(Stored) /\ Len(out) = k /\ \A i \in 1 .. k : out[i] = c[i]
  <2>1. \A i \in 1 .. k : c[i] \in Stored
    BY <1>1, <1>5
  <2> QED BY <1>1, <2>1, SubSeqProperties
<1>8. /\ rest \in Seq(Stored) /\ Len(rest) = r.buffered - k
      /\ \A i \in 1 .. r.buffered - k : rest[i] = c[k + i]
  <2>1. \A i \in k + 1 .. r.buffered : c[i] \in Stored
    BY <1>1, <1>5
  <2> QED BY <1>1, <2>1, SubSeqProperties
<1> HIDE DEF out, rest
<1>9. Oldest(r, n) = out
  <2>1. ASSUME NEW j \in 1 .. k PROVE Oldest(r, n)[j] = out[j]
    <3>1. j \in 1 .. r.buffered
      BY <1>1
    <3> QED BY <1>2, <1>5, <1>7, <3>1
  <2> QED BY <1>2, <1>7, <2>1, SeqEqual
<1>10. Contents(w) = rest
  <2>1. ASSUME NEW j \in 1 .. r.buffered - k PROVE Contents(w)[j] = rest[j]
    <3>1. /\ k \in Nat /\ j - 1 \in Nat /\ k + (j - 1) <= Size /\ k + (j - 1) = (k + j) - 1
          /\ k + j \in 1 .. r.buffered
      BY <1>1
    <3>2. Advance(Advance(r.read_index, k), j - 1) = Advance(r.read_index, (k + j) - 1)
      BY <1>1, <3>1, AdvanceSum
    <3> QED BY <1>5, <1>6, <1>8, <3>1, <3>2
  <2> QED BY <1>6, <1>8, <2>1, SeqEqual
<1> QED BY <1>9, <1>10 DEF k, w, c, out, rest

-----------------------------------------------------------------------------
(* Theorems *)

\* A new pipe, zeroed by kzalloc, is well formed.
LEMMA EmptyIsRing ==
  ASSUME RingAssumption
  PROVE  EmptyRing \in Ring /\ EmptyRing.write_index = Advance(EmptyRing.read_index, EmptyRing.buffered)
BY RingAssumption DEF RingAssumption, EmptyRing, Ring, Index, Advance

\* Every step keeps the ring well formed.
LEMMA RingStep ==
  ASSUME RingAssumption, CallAssumption
  PROVE  RingOK /\ [Next]_vars => RingOK'
<1> SUFFICES ASSUME RingOK, [Next]_vars PROVE RingOK'
  OBVIOUS
<1>1. ring \in Ring /\ ring.write_index = Advance(ring.read_index, ring.buffered)
      /\ offered \in Seq(Byte) /\ taken \in Seq(Stored)
  BY DEF RingOK, Stored
<1>2. ASSUME NEW bytes \in Offers, Write(bytes) PROVE RingOK'
  BY <1>1, <1>2, WriteRing, CallAssumption DEF CallAssumption, Write, RingOK, Stored
<1>3. ASSUME NEW n \in Requests, Read(n) PROVE RingOK'
  BY <1>1, <1>3, ReadRing, OldestSeq, CallAssumption DEF CallAssumption, Read, RingOK, Stored
<1>4. CASE UNCHANGED vars
  BY <1>4 DEF vars, RingOK
<1> QED BY <1>2, <1>3, <1>4 DEF Next

\* The ring of a pipe stays well formed, with write_index where the buffered bytes
\* end, whatever is written and read.
THEOREM RingWellFormed ==
  ASSUME RingAssumption, CallAssumption
  PROVE  Spec => []RingOK
<1>1. Init => RingOK
  BY EmptyIsRing DEF Init, RingOK
<1> QED BY <1>1, RingStep, PTL DEF Spec

\* pipe_inode_read and pipe_inode_write implement a bounded FIFO queue: every
\* byte that is accepted comes out once, in order, for every size of the buffer.
THEOREM PipeImplementsFifo ==
  ASSUME RingAssumption, CallAssumption
  PROVE  Spec => PipeIsFifo
<1>1. Init => Fifo!Init
  <2> SUFFICES ASSUME Init PROVE Fifo!Init
    OBVIOUS
  <2>1. Contents(EmptyRing) \in Seq(Stored) /\ Len(Contents(EmptyRing)) = 0
    BY EmptyIsRing, ContentsSeq DEF EmptyRing
  <2> QED BY <2>1 DEF Init, Fifo!Init
<1>2. RingOK /\ [Next]_vars => [Fifo!Next]_<<Contents(ring), offered, taken>>
  <2> SUFFICES ASSUME RingOK, [Next]_vars
               PROVE  [Fifo!Next]_<<Contents(ring), offered, taken>>
    OBVIOUS
  <2>1. ring \in Ring /\ ring.write_index = Advance(ring.read_index, ring.buffered)
        /\ Len(Contents(ring)) = ring.buffered /\ ring.buffered \in 0 .. Size
        /\ Size \in Nat \ {0}
    BY ContentsSeq, RingAssumption DEF RingOK, RingAssumption, Size
  <2>2. ASSUME NEW bytes \in Offers, Write(bytes) PROVE Fifo!Put(bytes)
    <3> DEFINE k == Smaller(Len(bytes), Size - ring.buffered)
    <3>1. /\ bytes \in Seq(Byte) /\ bytes # <<>> /\ ring.buffered < Size
          /\ ring' = PipeWrite(ring, bytes) /\ offered' = bytes /\ taken' = taken
      BY <2>2, CallAssumption DEF CallAssumption, Write, Size
    <3>2. k > 0
      BY <2>1, <3>1 DEF Smaller
    <3>3. k = Fifo!Least(Len(bytes), Size - Len(Contents(ring)))
      BY <2>1 DEF Fifo!Least, Smaller
    <3>4. Contents(ring)' = Contents(ring) \o SubSeq(bytes, 1, k)
      BY <2>1, <3>1, WriteContents
    <3> QED BY <3>1, <3>2, <3>3, <3>4 DEF Fifo!Put, Size
  <2>3. ASSUME NEW n \in Requests, Read(n) PROVE Fifo!Get(n)
    <3> DEFINE k == Smaller(n, ring.buffered)
    <3>1. /\ n \in Nat \ {0} /\ ring.buffered # 0
          /\ ring' = PipeRead(ring, n) /\ taken' = Oldest(ring, n) /\ offered' = offered
      BY <2>3, CallAssumption DEF CallAssumption, Read
    <3>2. k > 0
      BY <2>1, <3>1 DEF Smaller
    <3>3. k = Fifo!Least(n, Len(Contents(ring)))
      BY <2>1 DEF Fifo!Least, Smaller
    <3>4. Oldest(ring, n) = SubSeq(Contents(ring), 1, k)
          /\ Contents(ring)' = SubSeq(Contents(ring), k + 1, ring.buffered)
      BY <2>1, <3>1, ReadContents
    <3> QED BY <2>1, <3>1, <3>2, <3>3, <3>4 DEF Fifo!Get
  <2>4. CASE UNCHANGED vars
    BY <2>4 DEF vars
  <2> QED BY <2>2, <2>3, <2>4 DEF Next, Fifo!Next
<1> QED BY <1>1, <1>2, RingWellFormed, PTL DEF Spec, PipeIsFifo, Fifo!Spec

=============================================================================
