------------------------------ MODULE Console ------------------------------
(***************************************************************************)
(* Console input: the serial port and the keyboard are polled into one     *)
(* queue (input.c), reads of /dev/console take characters from it and edit *)
(* the line (console_inode_read of vfs.c), and the shell collects a line   *)
(* with readline_fd (user/libc/stdio.c).                                   *)
(*                                                                         *)
(* Reads and polls run with the other tasks locked out, the serial port    *)
(* and the keyboard controller work beside them.                           *)
(***************************************************************************)
EXTENDS Naturals, Sequences, SequencesExt, FiniteSets

CONSTANTS
    INPUT_QUEUE_CAPACITY,
    SH_LINE_MAX,
    Lengths,        \* lengths of reads
    SerialChars,    \* characters that arrive on the serial port
    KeyEvents,      \* what happens at the keyboard: records [key, extended, up]
    MaxTyped        \* bound: characters and key events

VARIABLES
    uart,       \* characters in the serial port
    port,       \* bytes in the keyboard controller
    input,      \* input_queue, its indices, and the keyboard state
    reader,     \* the program that reads the console
    typed,      \* history: what was typed, [serial, keys]
    popped      \* history: every character taken from the queue

vars == <<uart, port, input, reader, typed, popped>>

Newline == "LF"
Return == "CR"
Erase == {"BS", "DEL"}
NoChar == "none"

-----------------------------------------------------------------------------
(* input.c *)

\* Mutant: a full queue takes the character and counts as before.
PushOverwrites(i, ch) ==
    [i EXCEPT !.queue[i.write] = ch, !.write = (@ + 1) % INPUT_QUEUE_CAPACITY,
              !.buffered = IF @ < INPUT_QUEUE_CAPACITY THEN @ + 1 ELSE @]

\* A character that finds the queue full is lost.
Push(i, ch) ==
    IF i.buffered >= INPUT_QUEUE_CAPACITY THEN [i EXCEPT !.lost = TRUE]
    ELSE [i EXCEPT !.queue[i.write] = ch, !.write = (@ + 1) % INPUT_QUEUE_CAPACITY, !.buffered = @ + 1]

Popped(i) == [i EXCEPT !.read = (@ + 1) % INPUT_QUEUE_CAPACITY, !.buffered = @ - 1]

\* The two tables of characters, cut down to a letter, a digit and the keys that edit.
Unshifted == [a |-> "a", one |-> "1", enter |-> Newline, backspace |-> "BS"]
Shifted == [a |-> "A", one |-> "!", enter |-> Newline, backspace |-> "BS"]
Alpha == {"a"}

TranslateChar(code, shift, caps) ==
    IF code \notin DOMAIN Unshifted THEN NoChar
    ELSE IF (IF code \in Alpha THEN shift # caps ELSE shift) THEN Shifted[code] ELSE Unshifted[code]

\* input_process_xt_scancode. Both prefixes make the next byte one to ignore.
ProcessScancode(i, b) ==
    IF b.code = "prefix" THEN [i EXCEPT !.prefix = TRUE]
    ELSE IF i.prefix THEN [i EXCEPT !.prefix = FALSE]
    ELSE IF b.code = "shift" THEN [i EXCEPT !.shift = ~b.released]
    ELSE IF b.code = "caps" /\ ~b.released THEN [i EXCEPT !.caps = ~@]
    ELSE IF b.released \/ TranslateChar(b.code, i.shift, i.caps) = NoChar THEN i
    ELSE Push(i, TranslateChar(b.code, i.shift, i.caps))

\* input_poll: the serial port is emptied first, then the keyboard controller, whose
\* mouse bytes are thrown away. A Hyper-V keyboard comes last; its keystrokes become the
\* bytes a keyboard controller would hold.
InputPoll(i) ==
    FoldLeft(LAMBDA s, b : IF b.code = "aux" THEN s ELSE ProcessScancode(s, b), FoldLeft(Push, i, uart), port)

-----------------------------------------------------------------------------
(* console_inode_read and readline_fd *)

Idle == [pc |-> "idle", length |-> 0, bytes |-> <<>>, seen |-> <<>>, line |-> <<>>, typed |-> <<>>]

\* read(fd, buffer, n) of some program, or the first read of readline_fd.
StartRead(n) ==
    /\ reader.pc \in {"idle", "returned"}
    /\ reader' = [Idle EXCEPT !.pc = "read", !.length = n]
    /\ UNCHANGED <<uart, port, input, typed, popped>>

StartLine ==
    /\ reader.pc \in {"idle", "returned"}
    /\ reader' = [Idle EXCEPT !.pc = "line", !.length = 1]
    /\ UNCHANGED <<uart, port, input, typed, popped>>

\* A call of console_inode_read has its result. readline_fd takes one character at a time
\* until it has a line or its buffer is full.
Returned(r) ==
    CASE r.pc = "read" -> [r EXCEPT !.pc = "returned"]
      [] r.pc = "line" -> LET line == r.line \o r.bytes
                          IN  [r EXCEPT !.line = line, !.typed = @ \o r.seen, !.bytes = <<>>, !.seen = <<>>,
                                        !.pc = IF Last(line) = Newline \/ Len(line) + 1 >= SH_LINE_MAX
                                                 THEN "returned" ELSE "line"]

\* Mutant: a backspace takes back nothing.
EraseNothing(bytes) == bytes

\* A backspace takes back a character of this read, if there is one.
EraseLast(bytes) == IF bytes = <<>> THEN bytes ELSE SubSeq(bytes, 1, Len(bytes) - 1)

\* One turn of the loop of console_inode_read. With nothing to take, a read that has
\* characters returns them; one that has none would block, and starts again when the
\* scheduler services the blocked task.
ReadChar ==
    /\ reader.pc \in {"read", "line"}
    /\ uart' = <<>> /\ port' = <<>>
    /\ LET i  == InputPoll(input)
           ch == i.queue[i.read]
           c  == IF ch = Return THEN Newline ELSE ch
           seen == Append(reader.seen, ch)
       IN  IF i.buffered = 0
             THEN /\ input' = i
                  /\ reader' = IF reader.bytes # <<>> THEN Returned(reader) ELSE [reader EXCEPT !.seen = <<>>, !.typed = @ \o reader.seen]
                  /\ UNCHANGED popped
             ELSE /\ input' = Popped(i)
                  /\ popped' = Append(popped, ch)
                  /\ LET bytes == IF ch \in Erase THEN EraseLast(reader.bytes) ELSE Append(reader.bytes, c)
                         r     == [reader EXCEPT !.bytes = bytes, !.seen = seen]
                     IN  reader' = IF ch \notin Erase /\ (c = Newline \/ Len(bytes) = reader.length)
                                     THEN Returned(r) ELSE r
    /\ UNCHANGED typed

\* proc_schedule polls the input before it retries blocked reads.
SchedulerPolls ==
    /\ uart # <<>> \/ port # <<>>
    /\ input' = InputPoll(input)
    /\ uart' = <<>> /\ port' = <<>>
    /\ UNCHANGED <<reader, typed, popped>>

-----------------------------------------------------------------------------
(* External: the terminal and the keyboard *)

TypedCount == Len(typed.serial) + Len(typed.keys)

SerialArrives(ch) ==
    /\ TypedCount < MaxTyped
    /\ uart' = Append(uart, ch)
    /\ typed' = [typed EXCEPT !.serial = Append(@, ch)]
    /\ UNCHANGED <<port, input, reader, popped>>

Byte(code, released) == [code |-> code, released |-> released]

\* An extended key sends two bytes, and the second may arrive after a poll.
KeyMoves(e) ==
    /\ TypedCount < MaxTyped
    /\ \A k \in 1..Len(typed.keys) : typed.keys[k].extended => typed.sent >= k
    /\ port' = Append(port, IF e.extended THEN Byte("prefix", FALSE) ELSE Byte(e.key, e.up))
    /\ typed' = [typed EXCEPT !.keys = Append(@, e), !.sent = IF e.extended THEN @ ELSE Len(typed.keys) + 1]
    /\ UNCHANGED <<uart, input, reader, popped>>

SecondByte ==
    /\ typed.keys # <<>> /\ typed.sent < Len(typed.keys)
    /\ port' = Append(port, Byte(Last(typed.keys).key, Last(typed.keys).up))
    /\ typed' = [typed EXCEPT !.sent = Len(typed.keys)]
    /\ UNCHANGED <<uart, input, reader, popped>>

MouseMoves ==
    /\ \A k \in 1..Len(port) : port[k].code # "aux"
    /\ port' = Append(port, Byte("aux", FALSE))
    /\ UNCHANGED <<uart, input, reader, typed, popped>>

\* input_init: the controller is emptied, and the answer to the enable command is read
\* there or stays in the port.
Init ==
    /\ uart = <<>> /\ port \in {<<>>, <<Byte("ack", TRUE)>>}
    /\ input = [queue |-> [k \in 0..INPUT_QUEUE_CAPACITY - 1 |-> NoChar], read |-> 0, write |-> 0, buffered |-> 0,
                shift |-> FALSE, caps |-> FALSE, prefix |-> FALSE, lost |-> FALSE]
    /\ reader = Idle
    /\ typed = [serial |-> <<>>, keys |-> <<>>, sent |-> 0]
    /\ popped = <<>>

Next ==
    \/ \E n \in Lengths : StartRead(n)
    \/ StartLine \/ ReadChar \/ SchedulerPolls
    \/ \E ch \in SerialChars : SerialArrives(ch)
    \/ \E e \in KeyEvents : KeyMoves(e)
    \/ SecondByte \/ MouseMoves

Spec == Init /\ [][Next]_vars

-----------------------------------------------------------------------------
(* Properties *)

\* What is in the queue, oldest first.
Queued == [k \in 1..input.buffered |-> input.queue[(input.read + k - 1) % INPUT_QUEUE_CAPACITY]]

\* The characters meant by a sequence of key events: one for each press of a character
\* key, shifted if the last shift key to move before it went down, letters also by caps
\* lock if it was pressed an odd number of times.
Shift(keys, k) ==
    \E j \in 1..k - 1 : /\ keys[j].key = "shift" /\ ~keys[j].extended /\ ~keys[j].up
                        /\ \A l \in j + 1..k - 1 : keys[l].key = "shift" => keys[l].extended
Caps(keys, k) ==
    Cardinality({j \in 1..k - 1 : keys[j].key = "caps" /\ ~keys[j].extended /\ ~keys[j].up}) % 2 = 1
Meant(keys) ==
    LET char(k) == IF keys[k].up \/ keys[k].extended THEN NoChar
                   ELSE TranslateChar(keys[k].key, Shift(keys, k), Caps(keys, k))
    IN  SelectSeq([k \in 1..Len(keys) |-> char(k)], LAMBDA ch : ch # NoChar)

\* Until the queue overflows, what readers took and what is queued is what was typed: each
\* device's characters once, in order, whatever the polls cut a key's bytes into; and all
\* of them once the devices are empty (input_poll, input_process_xt_scancode).
KeysDelivered ==
    LET delivered == popped \o Queued
        serial == SelectSeq(delivered, LAMBDA ch : ch \in SerialChars)
        keyboard == SelectSeq(delivered, LAMBDA ch : ch \notin SerialChars)
    IN  ~input.lost =>
          /\ IsPrefix(serial, typed.serial) /\ IsPrefix(keyboard, Meant(typed.keys))
          /\ uart = <<>> => serial = typed.serial
          /\ port = <<>> => keyboard = Meant(typed.keys)

\* Line editing: characters with each backspace and the character before it taken out.
Edited(chars) ==
    FoldLeft(LAMBDA s, ch : IF ch \notin Erase THEN Append(s, IF ch = Return THEN Newline ELSE ch)
                            ELSE IF s = <<>> THEN s ELSE SubSeq(s, 1, Len(s) - 1), <<>>, chars)

\* A read returns the edited form of exactly the characters it took; it returns something,
\* no more than was asked for, and nothing after a newline (console_inode_read).
ReadEdited ==
    reader.pc = "returned" /\ reader.length > 0 /\ reader.line = <<>> =>
      /\ reader.bytes = Edited(reader.seen)
      /\ Len(reader.bytes) \in 1..reader.length
      /\ \A k \in 1..Len(reader.bytes) - 1 : reader.bytes[k] # Newline

\* The shell's line is what was typed with backspace editing applied.
LineEdited ==
    reader.pc = "returned" /\ reader.line # <<>> => reader.line = Edited(reader.typed)
=============================================================================
