----------------------------- MODULE TraceRing -----------------------------
(***************************************************************************)
(* The kernel trace: a ring of the last records (trace.c), and the program *)
(* that prints the latest of them (user/trace.c) while others are logged.  *)
(* Sequence numbers are 32 bits wide; here they wrap at SEQUENCES, which   *)
(* the capacity divides as it divides 2^32.                                *)
(***************************************************************************)
EXTENDS Naturals, Sequences

CONSTANTS TRACE_CAPACITY, SEQUENCES,
          Asked,       \* how many records the program may be asked for
          MaxLogged     \* bound

VARIABLES
    trace,      \* [ring, next, count]
    logged,     \* history: how many records were logged; the n-th one carries n
    printer     \* the trace program: [pc, next, sequence, printed]

vars == <<trace, logged, printer>>

Record(sequence, id) == [sequence |-> sequence, id |-> id]
NoRecord == Record(0, 0)

TraceLog ==
    /\ logged < MaxLogged
    /\ logged' = logged + 1
    /\ trace' = [ring |-> [trace.ring EXCEPT ![trace.next % TRACE_CAPACITY] = Record(trace.next, logged + 1)],
                 next |-> (trace.next + 1) % SEQUENCES,
                 count |-> IF trace.count < TRACE_CAPACITY THEN trace.count + 1 ELSE trace.count]
    /\ UNCHANGED printer

\* Mutant: one record too many is thought to be in the ring.
OldestOneEarly == IF trace.next > trace.count THEN trace.next - trace.count - 1 ELSE 0

OldestSequence == IF trace.next > trace.count THEN trace.next - trace.count ELSE 0

\* The record, or NoRecord for a number that is not in the ring.
TraceRead(sequence) ==
    IF trace.count = 0 \/ sequence < OldestSequence \/ sequence >= trace.next THEN NoRecord
    ELSE trace.ring[sequence % TRACE_CAPACITY]

\* The program asks how much there is, then for the records one by one.
StartPrinting(n) ==
    /\ printer.pc = "idle" /\ trace.count # 0
    /\ LET count == IF n > trace.count THEN trace.count ELSE n
       IN  printer' = [pc |-> "printing", next |-> trace.next, printed |-> <<>>,
                       sequence |-> (trace.next + SEQUENCES - count) % SEQUENCES]
    /\ UNCHANGED <<trace, logged>>

PrintNext ==
    /\ printer.pc = "printing"
    /\ LET record == TraceRead(printer.sequence)
       IN  printer' = IF printer.sequence >= printer.next THEN [printer EXCEPT !.pc = "idle"]
                      ELSE [printer EXCEPT !.sequence = (@ + 1) % SEQUENCES,
                                           !.printed = IF record = NoRecord THEN @ ELSE Append(@, record)]
    /\ UNCHANGED <<trace, logged>>

Init ==
    /\ trace = [ring |-> [s \in 0..TRACE_CAPACITY - 1 |-> NoRecord], next |-> 0, count |-> 0]
    /\ logged = 0
    /\ printer = [pc |-> "idle", next |-> 0, sequence |-> 0, printed |-> <<>>]

Next == TraceLog \/ (\E n \in Asked : StartPrinting(n)) \/ PrintNext

Spec == Init /\ [][Next]_vars

-----------------------------------------------------------------------------
(* Properties *)

\* The latest record logged with a sequence number.
Latest(sequence) == CHOOSE id \in 1..logged : /\ (id - 1) % SEQUENCES = sequence
                                              /\ id + SEQUENCES > logged

\* Whatever number is read, before or after the numbers wrap, the record is the latest one
\* logged under it; what is printed is in the order it was logged; and until the numbers
\* wrap the last TRACE_CAPACITY records can all be read (trace_log, trace_read). After the
\* wrap the records from before it cannot be read although they are counted.
TraceExact ==
    /\ \A s \in 0..SEQUENCES - 1 :
         TraceRead(s) # NoRecord => TraceRead(s) = Record(s, Latest(s))
    /\ logged < SEQUENCES =>
         \A id \in 1..logged : id + TRACE_CAPACITY > logged => TraceRead(id - 1).id = id
    /\ \A i, j \in 1..Len(printer.printed) : i < j => printer.printed[i].id < printer.printed[j].id
=============================================================================
