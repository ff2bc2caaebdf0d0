------------------------------- MODULE VmBus -------------------------------
(***************************************************************************)
(* The Hyper-V keyboard path: the SynIC message slot (hyperv.c), the VMBus *)
(* connection, its channel and ring (vmbus.c), the synthetic keyboard      *)
(* (hyperv_keyboard.c). The guest polls; the host works beside it, so a    *)
(* step of the host may fall between any two steps of the guest.           *)
(*                                                                         *)
(* Lengths of packets are counted in units of 8 bytes, as in the packet    *)
(* descriptor.                                                             *)
(***************************************************************************)
EXTENDS Naturals, Sequences

CONSTANTS
    Versions,       \* vmbus_supported_versions, in the order they are tried
    NewVersions,    \* those from 5.0 on
    HostVersions,   \* the versions the host accepts
    RING,           \* units of the inbound ring
    DESCRIPTOR, TRAILER, REQUEST, KEYSTROKE,    \* units: 2, 1, 1, 2
    Keys,           \* keystrokes: a code, released or not, with a prefix or not, or a character
    MaxKeys,        \* bound: keys pressed
    MaxGiveUps      \* bound: waits that end without the answer

\* The list of versions has entries, none of them 0: vmbus.protocol_version is 0 until the bus
\* is connected.
VmBusAssumption == Versions \in Seq(Nat \ {0}) /\ Versions # <<>>

VARIABLES
    guest,      \* the driver's variables
    slot,       \* the message slot of the SynIC page: [message, pending]
    mail,       \* messages the guest posted, not yet handled by the host
    host,       \* what the host has agreed to
    ring,       \* the inbound ring: [data, read, write]
    pressed, processed

vars == <<guest, slot, mail, host, ring, pressed, processed>>

Message(kind, good, conn) == [kind |-> kind, good |-> good, conn |-> conn]
NoMessage == Message("none", FALSE, 0)
Post(kind, version, conn) == [kind |-> kind, version |-> version, conn |-> conn]
Unit(kind, value) == [kind |-> kind, value |-> value]

OldConnection == 1
NewConnection == 4
GivenConnection == 9    \* the msg_conn_id of a version response

\* The control messages in the order vmbus_init and vmbus_open_channel post them, and the
\* flag each one waits for.
Waits == [contact |-> "version", offers |-> "all_offers", gpadl |-> "gpadl", open |-> "opened"]
After == [gpadl |-> "open", open |-> "request"]

-----------------------------------------------------------------------------
(* The guest: setting up the pages it shares with the hypervisor *)

SynicPages == 5     \* messages, events, posts, two monitor pages

\* hyperv_init: the hypercall page, then the SynIC pages; vmbus_init adds the interrupt
\* page. What the hypervisor offers and how many frames palloc has left is open. A set-up
\* that fails half-way keeps the pages that it has.
HypervInit(hv1, features, frames) ==
    /\ guest.pc = "boot"
    /\ guest' = [guest EXCEPT !.hypercall = hv1 /\ frames >= 1,
                              !.synic = hv1 /\ features /\ frames >= 1 + SynicPages,
                              !.pc = IF hv1 /\ features /\ frames > 1 + SynicPages THEN "contact" ELSE "failed"]
    /\ UNCHANGED <<slot, mail, host, ring, pressed, processed>>

-----------------------------------------------------------------------------
(* The guest: posting a control message and waiting for the answer *)

ContactConnection(v, conn) == IF Versions[v] \in NewVersions THEN conn ELSE OldConnection

\* Mutant: an answer that came before still counts.
KeepFlag(g, kind) == g

\* The flag is cleared before the message is posted.
ResetFlag(g, kind) == [g EXCEPT !.have = @ \ {Waits[kind]}]

\* The host may have no buffer (the post is tried again) or may not know the connection.
\* A failed post ends the attempt as a refusal does.
PostControl(accepted) ==
    /\ guest.pc \in DOMAIN Waits
    /\ accepted => guest.hypercall /\ guest.synic
    /\ LET conn == IF guest.pc = "contact" THEN ContactConnection(guest.v, guest.conn) ELSE guest.conn
           told == ResetFlag([guest EXCEPT !.conn = conn], guest.pc)
       IN  IF accepted
             THEN /\ guest' = [told EXCEPT !.waiting = guest.pc, !.pc = "wait"]
                  /\ mail' = Append(mail, Post(guest.pc, Versions[guest.v], conn))
             ELSE /\ guest' = [told EXCEPT !.waiting = guest.pc, !.pc = "refused"]
                  /\ UNCHANGED mail
    /\ UNCHANGED <<slot, host, ring, pressed, processed>>

\* vmbus_find_offer and the head of vmbus_open_channel, which allocates the ring pages when
\* palloc has that many together. The keyboard is looked for on any connected bus, the list
\* of offers complete or not.
OpensChannel(g, room) == IF g.offer /\ room THEN [g EXCEPT !.pc = "gpadl", !.pages = "held"]
                                            ELSE [g EXCEPT !.pc = "failed"]

\* The next version, or the end of the attempt. A channel that could not be opened gives
\* its ring pages back.
Refused ==
    /\ guest.pc = "refused"
    /\ \E room \in BOOLEAN :
         guest' = CASE guest.waiting = "contact" /\ guest.v < Len(Versions)
                         -> [guest EXCEPT !.pc = "contact", !.v = @ + 1]
                    [] guest.waiting = "contact" /\ guest.v = Len(Versions)
                         -> [guest EXCEPT !.pc = "failed"]
                    [] guest.waiting = "offers" -> OpensChannel(guest, room)
                    [] guest.waiting \in {"gpadl", "open"}
                         -> [guest EXCEPT !.pc = "failed", !.pages = "freed"]
    /\ UNCHANGED <<slot, mail, host, ring, pressed, processed>>

\* The flag is set: look at the response. There is one response of each kind, the last
\* one that arrived.
Answered ==
    /\ guest.pc = "wait" /\ guest.poll = "idle"
    /\ Waits[guest.waiting] \in guest.have
    /\ \E room \in BOOLEAN :
         guest' = IF ~guest.response[guest.waiting].good THEN [guest EXCEPT !.pc = "refused"]
                  ELSE IF guest.waiting = "contact"
                    THEN [guest EXCEPT !.pc = "offers", !.protocol = Versions[guest.v],
                                       !.conn = IF guest.response["contact"].conn # 0
                                                  THEN guest.response["contact"].conn ELSE @]
                  ELSE IF guest.waiting = "offers" THEN OpensChannel(guest, room)
                  ELSE [guest EXCEPT !.pc = After[guest.waiting]]
    /\ UNCHANGED <<slot, mail, host, ring, pressed, processed>>

\* The flag is still clear after 1,000,000 polls.
GivesUp ==
    /\ guest.pc = "wait" /\ guest.poll = "idle"
    /\ Waits[guest.waiting] \notin guest.have
    /\ guest.gaveup < MaxGiveUps
    /\ guest' = [guest EXCEPT !.pc = "refused", !.gaveup = @ + 1]
    /\ UNCHANGED <<slot, mail, host, ring, pressed, processed>>

-----------------------------------------------------------------------------
(* hyperv_poll_message, in the steps the host can fall between: the message is copied   *)
(* and the pending flag read; the slot is cleared; the end of message is signalled if   *)
(* the flag was set. Then vmbus_poll looks at the message.                              *)

Polls == guest.pc \in {"wait", "hello", "ready"}

PollCopies ==
    /\ Polls /\ guest.poll = "idle"
    /\ slot.message # NoMessage
    /\ guest' = [guest EXCEPT !.poll = "copied", !.copy = slot.message, !.pending = slot.pending]
    /\ UNCHANGED <<slot, mail, host, ring, pressed, processed>>

PollClears ==
    /\ guest.poll = "copied"
    /\ slot' = [slot EXCEPT !.message = NoMessage]
    /\ guest' = [guest EXCEPT !.poll = "cleared"]
    /\ UNCHANGED <<mail, host, ring, pressed, processed>>

Handled(g, m) ==
    CASE m.kind = "version"    -> [g EXCEPT !.have = @ \union {"version"}, !.response["contact"] = m]
      [] m.kind = "offer"      -> [g EXCEPT !.offer = TRUE]
      [] m.kind = "all_offers" -> [g EXCEPT !.have = @ \union {"all_offers"}]
      [] m.kind = "gpadl"      -> [g EXCEPT !.have = @ \union {"gpadl"}, !.response["gpadl"] = m]
      [] m.kind = "opened"     -> [g EXCEPT !.have = @ \union {"opened"}, !.response["open"] = m]

\* Mutant: the host is not told that the slot is empty.
EndOfMessageNever(pending) == FALSE

EndOfMessage(pending) == pending

PollEnds ==
    /\ guest.poll = "cleared"
    /\ host' = IF EndOfMessage(guest.pending) THEN [host EXCEPT !.blocked = FALSE] ELSE host
    /\ guest' = [Handled(guest, guest.copy) EXCEPT !.poll = "idle", !.copy = NoMessage, !.pending = FALSE]
    /\ UNCHANGED <<slot, mail, ring, pressed, processed>>

-----------------------------------------------------------------------------
(* The channel and the keyboard *)

\* vmbus_signal_channel: the host hears of a packet, by the monitor page or by a hypercall.
Signalled(packets, packet) == Append(packets, packet)

\* vmbus_send_inband of the protocol request, the only packet sent: the outbound ring is
\* empty, so the channel is signalled.
SendsRequest ==
    /\ guest.pc = "request"
    /\ mail' = Signalled(mail, Post("request", Versions[guest.v], 0))
    /\ guest' = [guest EXCEPT !.pc = "hello"]
    /\ UNCHANGED <<slot, host, ring, pressed, processed>>

BytesToRead == IF ring.write >= ring.read THEN ring.write - ring.read ELSE (RING - ring.read) + ring.write
At(i) == ring.data[i % RING]

\* Mutant: the trailer is not counted.
AdvancedToTrailer(index, units) == (index + units - TRAILER) % RING

Advanced(index, units) == (index + units) % RING

\* hyperv_keyboard_handle_message: the scan codes that a packet stands for. A keystroke
\* given as a character is dropped; a released key has the top bit of its code set.
E0 == 224
E1 == 225
RELEASED == 128
HandleMessage(unit) ==
    IF unit.kind # "key" \/ unit.value.unicode THEN <<>>
    ELSE (IF unit.value.e0 THEN <<E0>> ELSE <<>>) \o (IF unit.value.e1 THEN <<E1>> ELSE <<>>)
         \o <<(unit.value.code % RELEASED) + (IF unit.value.released THEN RELEASED ELSE 0)>>

\* vmbus_recv_packet, for the keyboard. The driver keeps its own read index and stores it
\* in the ring.
Receives ==
    /\ guest.pc \in {"hello", "ready"} /\ guest.poll = "idle"
    /\ BytesToRead >= DESCRIPTOR
    /\ LET length == At(guest.index).value
           first  == At(guest.index + DESCRIPTOR)
           next   == Advanced(guest.index, length + TRAILER)
       IN  /\ guest' = [guest EXCEPT !.index = next,
                                     !.pc = IF first.kind = "accepted" THEN "ready" ELSE @]
           /\ ring' = [ring EXCEPT !.read = next]
           /\ processed' = processed \o HandleMessage(first)
    /\ UNCHANGED <<slot, mail, host, pressed>>

\* vmbus_close_channel tells the host nothing.
Closed(g) == [g EXCEPT !.pc = "failed", !.pages = "freed"]

\* No answer to the protocol request.
HelloGivesUp ==
    /\ guest.pc = "hello" /\ guest.poll = "idle"
    /\ guest.gaveup < MaxGiveUps
    /\ guest' = [Closed(guest) EXCEPT !.gaveup = @ + 1]
    /\ UNCHANGED <<slot, mail, host, ring, pressed, processed>>

-----------------------------------------------------------------------------
(* External: the host *)

Space == RING - BytesToRead

\* The units of a packet whose payload fills n units.
Packet(kind, value, n) ==
    [i \in 1..DESCRIPTOR + n + TRAILER |->
       IF i = 1 THEN Unit("descriptor", DESCRIPTOR + n)
       ELSE IF i = DESCRIPTOR + 1 THEN Unit(kind, value) ELSE Unit("filler", 0)]

Written(packet) ==
    [ring EXCEPT !.data = [i \in 0..RING - 1 |->
                             LET k == ((i + RING - ring.write) % RING) + 1
                             IN  IF k <= Len(packet) THEN packet[k] ELSE ring.data[i]],
                 !.write = (@ + Len(packet)) % RING]

HostHandles ==
    /\ mail # <<>>
    /\ LET m == Head(mail)
           answer(messages) == host.queue \o messages
       IN  \/ /\ m.kind = "contact" /\ m.version \in HostVersions
              /\ LET given == IF m.version \in NewVersions THEN GivenConnection ELSE 0
                 IN  host' = [host EXCEPT !.version = m.version,
                                          !.conn = IF given # 0 THEN given ELSE OldConnection,
                                          !.queue = answer(<<Message("version", TRUE, given)>>)]
              /\ UNCHANGED ring
           \/ /\ m.kind = "contact" /\ m.version \notin HostVersions
              /\ host' = [host EXCEPT !.queue = answer(<<Message("version", FALSE, 0)>>)]
              /\ UNCHANGED ring
           \/ /\ m.kind = "offers"
              /\ host' = [host EXCEPT !.queue = answer(<<Message("offer", TRUE, 0), Message("all_offers", TRUE, 0)>>)]
              /\ UNCHANGED ring
           \/ /\ m.kind = "gpadl"
              /\ \E good \in BOOLEAN : host' = [host EXCEPT !.queue = answer(<<Message("gpadl", good, 0)>>)]
              /\ UNCHANGED ring
           \/ /\ m.kind = "open"
              /\ \E good \in BOOLEAN :
                    host' = [host EXCEPT !.open = good, !.queue = answer(<<Message("opened", good, 0)>>)]
              /\ UNCHANGED ring
           \/ /\ m.kind = "request" /\ Space > DESCRIPTOR + REQUEST + TRAILER
              /\ ring' = Written(Packet("accepted", 0, REQUEST))
              /\ UNCHANGED host
    /\ mail' = Tail(mail)
    /\ UNCHANGED <<guest, slot, pressed, processed>>

\* A message goes into an empty slot. A host that finds the slot taken sets the pending
\* flag, and tries again when the guest signals the end of message.
HostDelivers ==
    /\ host.queue # <<>> /\ ~host.blocked
    /\ IF slot.message = NoMessage
         THEN /\ slot' = [message |-> Head(host.queue), pending |-> FALSE]
              /\ host' = [host EXCEPT !.queue = Tail(@)]
              /\ UNCHANGED guest
         ELSE /\ slot' = [slot EXCEPT !.pending = TRUE]
              /\ host' = [host EXCEPT !.blocked = TRUE]
              /\ guest' = [guest EXCEPT !.raced = @ \/ guest.poll = "copied"]
    /\ UNCHANGED <<mail, ring, pressed, processed>>

HostTypes(k) ==
    /\ host.open /\ Len(pressed) < MaxKeys /\ Space > DESCRIPTOR + KEYSTROKE + TRAILER
    /\ ring' = Written(Packet("key", k, KEYSTROKE))
    /\ pressed' = Append(pressed, k)
    /\ UNCHANGED <<guest, slot, mail, host, processed>>

Init ==
    /\ guest = [pc |-> "boot", hypercall |-> FALSE, synic |-> FALSE, v |-> 1, conn |-> NewConnection, waiting |-> "none", have |-> {},
                response |-> [k \in DOMAIN Waits |-> Message("none", k = "offers", 0)],
                protocol |-> 0, offer |-> FALSE, pages |-> "none", index |-> 0,
                poll |-> "idle", copy |-> NoMessage, pending |-> FALSE, gaveup |-> 0, raced |-> FALSE]
    /\ slot = [message |-> NoMessage, pending |-> FALSE]
    /\ mail = <<>>
    /\ host = [version |-> 0, conn |-> 0, open |-> FALSE, queue |-> <<>>, blocked |-> FALSE]
    /\ ring = [data |-> [i \in 0..RING - 1 |-> Unit("filler", 0)], read |-> 0, write |-> 0]
    /\ pressed = <<>> /\ processed = <<>>

Next ==
    \/ \E hv1, features \in BOOLEAN, frames \in 0..2 + SynicPages : HypervInit(hv1, features, frames)
    \/ \E accepted \in BOOLEAN : PostControl(accepted)
    \/ Refused \/ Answered \/ GivesUp
    \/ PollCopies \/ PollClears \/ PollEnds
    \/ SendsRequest \/ Receives \/ HelloGivesUp
    \/ HostHandles \/ HostDelivers
    \/ \E k \in Keys : HostTypes(k)

Spec == Init /\ [][Next]_vars

-----------------------------------------------------------------------------
(* Properties *)

\* Once the guest is connected it speaks the version the host accepted, on the connection
\* the host named, and an open channel's ring pages are the guest's; all this as long as
\* no wait was given up. After a wait that was given up a late answer is taken for the
\* answer to a later question, and pages the host still uses are freed (vmbus_init,
\* vmbus_open_channel, vmbus_close_channel).
HostAgrees ==
    guest.gaveup = 0 =>
      /\ guest.protocol # 0 => guest.protocol = host.version /\ guest.conn = host.conn
      /\ host.open => guest.pages = "held"

\* The guest will signal the end of message: it has read the pending flag and is on its way,
\* or it will find the flag beside the message when it polls next.
WillSignal ==
    \/ guest.poll # "idle" /\ guest.pending
    \/ guest.poll # "copied" /\ slot.message # NoMessage /\ slot.pending

\* A host that waits for the end of message gets it from a guest that polls, unless it found
\* the slot taken after the guest had read the pending flag and before the guest cleared the
\* slot. A driver that failed polls no more, and leaves the host waiting only if it had given
\* up a wait (hyperv_poll_message, vmbus_wait_for_flag, hyperv_keyboard_init).
NeverStuck ==
    host.blocked /\ ~guest.raced =>
      IF guest.pc = "failed" THEN guest.gaveup # 0 ELSE WillSignal
=============================================================================
