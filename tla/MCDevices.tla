----------------------------- MODULE MCDevices ------------------------------
(***************************************************************************)
(* Instances for TLC of what lies between the kernel and its devices, and  *)
(* of the shell at the terminal. A behaviour is of one part throughout; the *)
(* variables of the other parts keep their initial values.                 *)
(***************************************************************************)
EXTENDS BlockStack, VmBus, SequencesExt

CONSTANTS p1, p2            \* the programs that ping, model values

VARIABLES
    part,
    tick, net, task, wire,                                                  \* Net
    uart, port, input, reader, typed, popped,                               \* Console
    vga, fb, written, drawn,                                                \* Terminal
    trace, logged, printer,                                                 \* TraceRing
    line, shell, child, ends, full                                          \* Shell

netVars == <<tick, net, task, wire>>
consoleVars == <<uart, port, input, reader, typed, popped>>
terminalVars == <<vga, fb, written, drawn>>
traceVars == <<trace, logged, printer>>
shellVars == <<line, shell, child, ends, full>>

-----------------------------------------------------------------------------
(* The block layer *)

\* Virtually contiguous pages are scattered in memory. Pages 0 to 3 hold the buffers
\* and, at the end, the stack, pages 4 and 5 the multiboot module.
MCFrameOf == [p \in 0..5 |-> CASE p = 0 -> 2 [] p = 1 -> 0 [] p = 2 -> 3 [] p = 3 -> 1 [] OTHER -> p]

Part(name, first, last) == [type |-> "linux", name |-> name, first |-> first, last |-> last]
Gpt(valid, count, lba, entries) == [valid |-> valid, entry_count |-> count, entry_lba |-> lba, entries |-> entries]
Esp == Part("esp", 1, 2)
Free == [Part("riverix-rootfs", 0, 1) EXCEPT !.type = "zero"]
Found == Gpt(TRUE, 3, 2, <<Esp, Free, Part("riverix-rootfs", 3, 7)>>)
Empty == [present |-> FALSE, active |-> FALSE, sata |-> FALSE, stops |-> TRUE]
Cdrom == [Empty EXCEPT !.present = TRUE, !.active = TRUE]
Disk == [Cdrom EXCEPT !.sata = TRUE]
Function(class, ports) == [class |-> class, abar |-> TRUE, maps |-> TRUE, ports |-> ports]
Ahci == <<Function("other", <<>>), Function("ahci", <<Empty, Cdrom, Disk>>)>>
Stuck == <<Function("ahci", <<[Disk EXCEPT !.stops = FALSE]>>)>>
NoAbar == <<[Function("ahci", <<Disk>>) EXCEPT !.abar = FALSE]>>
NoWindow == <<[Function("ahci", <<Disk>>) EXCEPT !.maps = FALSE]>>
Drive == [answers |-> TRUE, packet |-> FALSE, ready |-> TRUE]
NoDrive == [Drive EXCEPT !.answers = FALSE]
Module == <<[rootfs |-> FALSE, start |-> 16, end |-> 17], [rootfs |-> TRUE, start |-> 16, end |-> 20]>>

Machine(policy, functions, ata, gpt, modules) ==
    [blocks |-> 9, policy |-> policy, functions |-> functions, ata |-> ata, gpt |-> gpt, modules |-> modules,
     pages |-> 3, identify |-> [count28 |-> 9, count48 |-> 9]]

\* An AHCI disk beside a CD-ROM; an AHCI port that does not stop, with an ATA disk; a disk
\* whose first root partition does not fit; one whose partition table lies past its end;
\* one whose table is said to lie at a block that 32 bits cut to block 2; a controller
\* whose registers have no address, or cannot be mapped; and a machine told to use its
\* ramdisk.
MCMachines ==
    {Machine("auto", Ahci, NoDrive, Found, Module),
     Machine("disk", Stuck, Drive, Found, <<>>),
     [Machine("auto", Ahci, Drive, Gpt(TRUE, 3, 2, <<Free, Part("riverix-rootfs", 3, 9), Part("riverix-rootfs", 3, 7)>>),
              Module) EXCEPT !.identify.count48 = 99],
     Machine("disk", Ahci, NoDrive, Gpt(TRUE, 3, 8, Found.entries), Module),
     Machine("disk", Ahci, NoDrive, Gpt(TRUE, 3, MAX_BLOCKS + 3, Found.entries), <<>>),
     Machine("auto", NoAbar, NoDrive, Found, Module), Machine("auto", NoWindow, NoDrive, Found, Module),
     Machine("ramdisk", Ahci, Drive, Found, Module)}

-----------------------------------------------------------------------------
(* The network *)

MCFrame(kind, from) == [kind |-> kind, from |-> from, to |-> "me", id |-> 0, session |-> 0]

\* The two programs are alike.
MCSymmetry == Permutations({p1, p2})

\* Two programs ping a host behind the gateway, or nobody, with a tick counter of six values
\* and two identifiers: three sessions, the last with the identifier of the first, or two
\* while another host asks for our address.
Network == INSTANCE Net WITH
    E1000_TX_RING_COUNT <- 2, E1000_RX_RING_COUNT <- 3, NoFrame <- [MCFrame("none", "nobody") EXCEPT !.to = "nobody"],
    Adapters <- {[found |-> TRUE, memory_bar |-> TRUE, resets |-> r, pages |-> 7] : r \in BOOLEAN},
    Pids <- {p1, p2}, Local <- {"gw", "host"}, Gateway <- "gw", Targets <- {"far", "nobody"},
    HALF <- 3, RETRY <- 1, DEFAULT <- 2, Timeouts <- {0, 4}, IDS <- 2, BUDGET <- 1,
    Loads <- {[unasked |-> {}, pings |-> 3], [unasked |-> {MCFrame("arp_request", "host")}, pings |-> 2]}

-----------------------------------------------------------------------------
(* The keyboard of a Hyper-V guest *)

Key(code, released, prefixes, unicode) ==
    [code |-> code, released |-> released, e0 |-> "e0" \in prefixes, e1 |-> "e1" \in prefixes, unicode |-> unicode]

MCVersions == <<53, 50, 41>>
MCKeys == {Key(30, FALSE, {}, FALSE), Key(72, TRUE, {"e0"}, FALSE), Key(29, FALSE, {"e1"}, FALSE), Key(97, FALSE, {}, TRUE)}

\* What the proofs of VmBusProofs rest on.
ASSUME KeyboardAssumption == VmBusAssumption

-----------------------------------------------------------------------------
(* The console and the screens *)

Press(key, extended, up) == [key |-> key, extended |-> extended, up |-> up]

\* A queue of two characters, which three key presses or a line overflow.
Input == INSTANCE Console WITH
    INPUT_QUEUE_CAPACITY <- 2, SH_LINE_MAX <- 4, Lengths <- {3}, SerialChars <- {"x", "CR", "BS"}, MaxTyped <- 3,
    KeyEvents <- {Press("a", FALSE, FALSE), Press("a", TRUE, FALSE), Press("shift", FALSE, FALSE),
                  Press("shift", FALSE, TRUE), Press("shift", TRUE, FALSE), Press("caps", FALSE, FALSE)}

\* A text screen of two rows, and framebuffers with and without scan lines below the last row.
Screens == INSTANCE Terminal WITH
    VGA_WIDTH <- 3, VGA_HEIGHT <- 2, FONT_HEIGHT <- 2, TextChars <- {"x"}, MaxWritten <- 5,
    Modes <- {[usable |-> FALSE, columns |-> 3, height |-> 5], [usable |-> TRUE, columns |-> 3, height |-> 5],
              [usable |-> TRUE, columns |-> 5, height |-> 1], [usable |-> TRUE, columns |-> 2, height |-> 4]}

-----------------------------------------------------------------------------
(* The trace and the shell *)

\* The numbers of the records wrap after six, and the ring holds two.
Tracing == INSTANCE TraceRing WITH TRACE_CAPACITY <- 2, SEQUENCES <- 6, Asked <- {1, 2, 5}, MaxLogged <- 9

\* All lines of up to five characters.
Sh == INSTANCE Shell WITH
    SH_MAX_ARGS <- 3, SH_MAX_STAGES <- 3, MaxLines <- 1, MaxWrites <- 2,
    Lines <- BoundedSeq({" ", "|", ">", "#", "w"}, 5)

-----------------------------------------------------------------------------
Parts == {"block", "net", "keyboard", "console", "screens", "trace", "shell"}

\* The choices that a part makes when it starts are fixed in the behaviours of the others.
PartsInit ==
    /\ part \in Parts
    /\ BlockInit /\ (part # "block" => machine = CHOOSE m \in MCMachines : m.policy = "ramdisk")
    /\ Network!Init /\ (part # "net" => tick = 0 /\ net.ready /\ net.load.pings = 2)
    /\ Init
    /\ Input!Init /\ (part # "console" => port = <<>>)
    /\ Screens!Init /\ Tracing!Init /\ Sh!Init

PartsNext ==
    \/ part = "block" /\ BlockNext
       /\ UNCHANGED <<part, netVars, vars, consoleVars, terminalVars, traceVars, shellVars>>
    \/ part = "net" /\ Network!Next
       /\ UNCHANGED <<part, blockVars, vars, consoleVars, terminalVars, traceVars, shellVars>>
    \/ part = "keyboard" /\ Next
       /\ UNCHANGED <<part, blockVars, netVars, consoleVars, terminalVars, traceVars, shellVars>>
    \/ part = "console" /\ Input!Next
       /\ UNCHANGED <<part, blockVars, netVars, vars, terminalVars, traceVars, shellVars>>
    \/ part = "screens" /\ Screens!Next
       /\ UNCHANGED <<part, blockVars, netVars, vars, consoleVars, traceVars, shellVars>>
    \/ part = "trace" /\ Tracing!Next
       /\ UNCHANGED <<part, blockVars, netVars, vars, consoleVars, terminalVars, shellVars>>
    \/ part = "shell" /\ Sh!Next
       /\ UNCHANGED <<part, blockVars, netVars, vars, consoleVars, terminalVars, traceVars>>

partsVars == <<part, blockVars, netVars, vars, consoleVars, terminalVars, traceVars, shellVars>>

PartsSpec == PartsInit /\ [][PartsNext]_partsVars

-----------------------------------------------------------------------------
(* Properties *)

\* A task blocked on a ping owns the running session and has its deadline ahead of it,
\* across the wrap of the tick counter (net_ping4_start, proc_service_blocked_net).
PingEnds == Network!PingEnds

\* A ping reports success only on an answer to this very session, or to one whose identifier
\* it uses again after a whole round, and a timeout only after it tried (process_icmp,
\* net_ping4_start, drive_ping).
ResultEarned == Network!ResultEarned

\* The driver and the adapter agree on the descriptor rings, unless every transmit
\* descriptor is in use (e1000_transmit, e1000_receive).
RingsAgree == part = "net" => Network!RingsAgree

\* The scan codes that a keyboard sends for a key.
Codes(key) ==
    LET code == key.code + (IF key.released THEN 128 ELSE 0)
    IN  CASE key.unicode -> <<>>
          [] ~key.unicode /\ ~key.e0 /\ ~key.e1 -> <<code>>
          [] ~key.unicode /\ key.e0 /\ ~key.e1 -> <<224, code>>
          [] ~key.unicode /\ key.e1 -> <<225, code>>

\* Every key becomes its scan codes once and in order, through the wrap of the ring; while
\* there is something to read the read index is at the start of a packet, and once there is
\* nothing no key is missing (vmbus_recv_packet, hyperv_keyboard_handle_message).
KeysInOrder ==
    LET codes == FoldLeft(LAMBDA sofar, key : sofar \o Codes(key), <<>>, pressed)
    IN  /\ IsPrefix(processed, codes)
        /\ guest.pc = "ready" =>
             IF BytesToRead = 0 THEN processed = codes ELSE At(guest.index).kind = "descriptor"

\* Until the queue overflows, each device's characters come out once and in order,
\* whatever the polls cut a key's bytes into (input_poll, input_process_xt_scancode).
KeysDelivered == part = "console" => Input!KeysDelivered

\* A read returns the edited form of exactly the characters it took, no more than was
\* asked for, and nothing after a newline (console_inode_read).
ReadEdited == part = "console" => Input!ReadEdited

\* However lines wrap and scroll, each screen shows the end of what was written to it
\* (vga_write_char, framebuffer_write_char).
ScreensShowEnd == part = "screens" => Screens!ScreensShowEnd

\* Whatever number is read, before or after the numbers wrap, the record is the latest
\* one logged under it, and records are printed in order (trace_log, trace_read).
TraceExact == part = "trace" => Tracing!TraceExact

\* A command line says what it runs: cut at the bars, each stage's words are its
\* arguments, but for a redirection (split_pipeline, tokenize_stage).
ParsesWords == part = "shell" => Sh!ParsesWords

\* While the shell waits for a pipeline, some process of it can go on, and back at the
\* prompt the shell holds no pipe and has no child (run_pipeline).
PipelineEnds == part = "shell" => Sh!PipelineEnds

=============================================================================
