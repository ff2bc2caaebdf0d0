---------------------------- MODULE VmBusProofs ----------------------------
(***************************************************************************)
(* Proofs about VmBus, for every list of versions, every host and any      *)
(* number of waits that are given up: when a host waits for the end of     *)
(* message, and that guest and host agree while no wait is given up.       *)
(*                                                                         *)
(* The driver posts one control message at a time and waits for its        *)
(* answer, so at most one answer is ever under way, and what it says is    *)
(* what the host did (Conversation).                                       *)
(***************************************************************************)
EXTENDS VmBus, TLAPS

-----------------------------------------------------------------------------
(* The invariant of VmBus *)

Pcs == {"boot", "contact", "offers", "gpadl", "open", "wait", "refused", "request", "hello",
        "ready", "failed"}
Kinds == {"version", "offer", "all_offers", "gpadl", "opened"}
Reply == [kind : Kinds, good : BOOLEAN, conn : Nat]
Controls == {"contact", "offers", "gpadl", "open"}

GuestFields == {"pc", "hypercall", "synic", "v", "conn", "waiting", "have", "response", "protocol",
                "offer", "pages", "index", "poll", "copy", "pending", "gaveup", "raced"}
HostFields == {"version", "conn", "open", "queue", "blocked"}

\* r has these fields.
IsRecord(r, fields) == r = [f \in fields |-> r[f]]

GuestOK ==
  /\ IsRecord(guest, GuestFields)
  /\ guest.pc \in Pcs
  /\ guest.pc \in {"wait", "refused"} => guest.waiting \in Controls
  /\ guest.v \in 1 .. Len(Versions)
  /\ guest.gaveup \in Nat
  /\ IsRecord(guest.response, Controls)
  /\ guest.response["offers"].good

\* hyperv_poll_message and the slot it polls.
SlotOK ==
  /\ IsRecord(slot, {"message", "pending"})
  /\ slot.message \in Reply \cup {NoMessage}
  /\ slot.pending \in BOOLEAN
  /\ guest.pending \in BOOLEAN /\ guest.raced \in BOOLEAN
  /\ guest.poll \in {"idle", "copied", "cleared"}
  /\ IF guest.poll = "idle" THEN guest.copy = NoMessage ELSE guest.copy \in Reply
  /\ guest.poll = "copied" => slot.message = guest.copy

HostOK ==
  /\ IsRecord(host, HostFields)
  /\ host.queue \in Seq(Reply)
  /\ host.blocked \in BOOLEAN /\ host.open \in BOOLEAN
  /\ host.blocked => host.queue # <<>>

\* What a host that waits for the end of message waits for: the guest has seen, or is going
\* to see, the pending flag.
Waited ==
  host.blocked /\ ~guest.raced =>
    \/ slot.message # NoMessage /\ slot.pending /\ (guest.poll = "copied" => guest.pending)
    \/ guest.poll = "cleared" /\ guest.pending

\* Nothing, or an offer: a message that answers nothing.
Quiet(m) == m = NoMessage \/ m = Message("offer", TRUE, 0)

\* No answer is under way.
Silent == host.queue = <<>> /\ Quiet(slot.message) /\ Quiet(guest.copy)

\* The answer m is under way, and no other: in the host's queue, in the slot or copied.
UnderWay(m) ==
  \/ /\ host.queue = <<m>> \/ host.queue = <<Message("offer", TRUE, 0), m>>
     /\ Quiet(slot.message) /\ Quiet(guest.copy)
  \/ /\ host.queue = <<>> /\ slot.message = m
     /\ IF guest.poll = "copied" THEN guest.copy = m ELSE Quiet(guest.copy)
  \/ /\ host.queue = <<>> /\ slot.message = NoMessage
     /\ guest.poll = "cleared" /\ guest.copy = m

\* What an answer to the control message of kind w says is what the host did.
Honest(w, m) ==
  /\ w = "contact" /\ m.good => /\ host.version = Versions[guest.v]
                                /\ host.conn = IF m.conn # 0 THEN m.conn ELSE guest.conn
  /\ w = "open" /\ host.open => m.good

\* A contact names the connection the version calls for.
Addressed == guest.pc = "wait" /\ guest.waiting = "contact" /\ Versions[guest.v] \notin NewVersions =>
               guest.conn = OldConnection

\* The control message is posted and not yet handled.
Asked == /\ guest.pc = "wait" /\ Waits[guest.waiting] \notin guest.have
         /\ mail = <<Post(guest.waiting, Versions[guest.v], guest.conn)>>
         /\ Silent /\ ~host.open

\* Its answer is under way.
Answering == /\ guest.pc = "wait" /\ Waits[guest.waiting] \notin guest.have
             /\ mail = <<>>
             /\ \E m \in Reply : m.kind = Waits[guest.waiting] /\ Honest(guest.waiting, m) /\ UnderWay(m)

\* Its answer has arrived.
Heard == /\ guest.pc = "wait" /\ Waits[guest.waiting] \in guest.have
         /\ mail = <<>>
         /\ Silent /\ Honest(guest.waiting, guest.response[guest.waiting])

\* Nothing is asked.
Unasked == /\ guest.pc # "wait" /\ Silent
           /\ \/ mail = <<>>
              \/ /\ guest.pc \in {"hello", "ready", "failed"}
                 /\ mail = <<Post("request", Versions[guest.v], 0)>>

Conversation == Asked \/ Answering \/ Heard \/ Unasked

\* How far the attempt has come.
Progress ==
  /\ guest.protocol # 0 => /\ guest.protocol = host.version /\ guest.conn = host.conn
                           /\ guest.pc \notin {"boot", "contact"}
                           /\ guest.pc \in {"wait", "refused"} => guest.waiting # "contact"
  /\ \/ guest.pc \in {"gpadl", "open", "request"}
     \/ guest.pc \in {"wait", "refused"} /\ guest.waiting \in {"gpadl", "open"}
     => guest.pages = "held"
  /\ host.open => /\ guest.pages = "held"
                  /\ \/ guest.pc \in {"request", "hello", "ready"}
                     \/ guest.pc = "wait" /\ guest.waiting = "open"

Agreement == guest.gaveup = 0 => Conversation /\ Addressed /\ Progress

Inv == GuestOK /\ SlotOK /\ HostOK /\ Waited /\ Agreement

-----------------------------------------------------------------------------
(* Initially *)

\* The invariant holds initially.
LEMMA InitInv == VmBusAssumption /\ Init => Inv
<1> SUFFICES ASSUME VmBusAssumption, Init PROVE Inv
  OBVIOUS
<1>1. GuestOK
  <2>1. 1 \in 1 .. Len(Versions)
    BY DEF VmBusAssumption
  <2>2. IsRecord(guest, GuestFields) /\ guest.pc = "boot" /\ guest.v = 1 /\ guest.gaveup = 0
    BY Zenon DEF Init, IsRecord, GuestFields
  <2>3. DOMAIN Waits = Controls
    BY DEF Waits, Controls
  <2>4. guest.response = [k \in Controls |-> Message("none", k = "offers", 0)]
    BY <2>3 DEF Init
  <2>5. IsRecord(guest.response, Controls) /\ guest.response["offers"].good
    <3>1. guest.response["offers"].good = ("offers" = "offers")
      BY <2>4, SMTT(30) DEF Controls, Message
    <3> QED BY <2>4, <3>1, Zenon DEF IsRecord
  <2> QED BY <2>1, <2>2, <2>5 DEF GuestOK, Pcs
<1>2. SlotOK /\ HostOK /\ Waited
  BY SMTT(30) DEF Init, SlotOK, HostOK, Waited, IsRecord, HostFields, Message, NoMessage
<1>3. Agreement
  BY DEF Init, Agreement, Conversation, Unasked, Silent, Quiet, Addressed, Progress
<1> QED BY <1>1, <1>2, <1>3 DEF Inv

-----------------------------------------------------------------------------
(* The guest's steps *)

\* Setting up the pages starts the first attempt or ends it.
LEMMA HypervInitInv ==
  ASSUME Inv, NEW hv1 \in BOOLEAN, NEW features \in BOOLEAN, NEW frames \in Nat,
         HypervInit(hv1, features, frames)
  PROVE  Inv'
<1>1. /\ guest.pc = "boot" /\ guest'.pc \in {"contact", "failed"}
      /\ IsRecord(guest', GuestFields)
      /\ UNCHANGED <<slot, mail, host>>
      /\ guest'.v = guest.v /\ guest'.conn = guest.conn /\ guest'.response = guest.response
      /\ guest'.protocol = guest.protocol /\ guest'.pages = guest.pages /\ guest'.gaveup = guest.gaveup
      /\ guest'.poll = guest.poll /\ guest'.copy = guest.copy /\ guest'.pending = guest.pending
      /\ guest'.raced = guest.raced
  BY Zenon DEF Inv, GuestOK, HypervInit, IsRecord, GuestFields
<1>2. GuestOK'
  BY <1>1, SMTT(30) DEF Inv, GuestOK, Pcs
<1>3. SlotOK' /\ HostOK' /\ Waited'
  BY <1>1, SMTT(30) DEF Inv, SlotOK, HostOK, Waited
<1>4. Agreement'
  BY <1>1, SMTT(30) DEF Inv, Agreement, Conversation, Asked, Answering, Heard, Unasked, Silent, Addressed, Progress
<1> QED BY <1>2, <1>3, <1>4 DEF Inv

\* Posting a control message asks a question, or fails and leaves nothing behind.
LEMMA PostControlInv ==
  ASSUME Inv, NEW accepted \in BOOLEAN, PostControl(accepted)
  PROVE  Inv'
<1> DEFINE conn == IF guest.pc = "contact" THEN ContactConnection(guest.v, guest.conn) ELSE guest.conn
<1>0. DOMAIN Waits = Controls /\ guest.pc \in Controls /\ guest.pc # "wait"
  BY DEF PostControl, Waits, Controls
<1>1. /\ IsRecord(guest', GuestFields)
      /\ UNCHANGED <<slot, host>>
      /\ guest'.v = guest.v /\ guest'.conn = conn /\ guest'.response = guest.response
      /\ guest'.protocol = guest.protocol /\ guest'.pages = guest.pages /\ guest'.gaveup = guest.gaveup
      /\ guest'.poll = guest.poll /\ guest'.copy = guest.copy /\ guest'.pending = guest.pending
      /\ guest'.raced = guest.raced
      /\ guest'.waiting = guest.pc /\ guest'.have = guest.have \ {Waits[guest.pc]}
  BY ZenonT(60) DEF Inv, GuestOK, PostControl, ResetFlag, IsRecord, GuestFields
<1>2. \/ /\ guest'.pc = "wait"
         /\ mail' = Append(mail, Post(guest.pc, Versions[guest.v], conn))
      \/ guest'.pc = "refused" /\ mail' = mail
  BY Zenon DEF Inv, GuestOK, PostControl, ResetFlag, IsRecord, GuestFields
<1>3. GuestOK'
  BY <1>0, <1>1, <1>2 DEF Inv, GuestOK, Pcs
<1>4. SlotOK' /\ HostOK' /\ Waited'
  BY <1>1 DEF Inv, SlotOK, HostOK, Waited
<1>5. ASSUME guest.gaveup = 0
      PROVE  Conversation' /\ Addressed' /\ Progress'
  <2>1. Unasked /\ Progress /\ mail = <<>> /\ ~host.open
    BY <1>0, <1>5 DEF Inv, Agreement, Conversation, Asked, Answering, Heard, Unasked, Progress, Controls
  <2>2. Conversation'
    <3>1. Silent'
      BY <1>1, <2>1, SMTT(30) DEF Unasked, Silent
    <3>2. CASE guest'.pc = "wait"
      <4>1. mail' = <<Post(guest.pc, Versions[guest.v], conn)>>
        BY <1>2, <2>1, <3>2
      <4> QED BY <1>0, <1>1, <2>1, <3>1, <3>2, <4>1, SMTT(30) DEF Conversation, Asked
    <3>3. CASE guest'.pc = "refused"
      BY <1>2, <2>1, <3>1, <3>3, SMTT(30) DEF Conversation, Unasked
    <3> QED BY <1>2, <3>2, <3>3, SMTT(30)
  <2>3. Addressed'
    BY <1>1, SMTT(30) DEF Addressed, ContactConnection
  <2>4. Progress'
    BY <1>0, <1>1, <1>2, <2>1, SMTT(30) DEF Progress, Controls
  <2> QED BY <2>2, <2>3, <2>4, SMTT(30)
<1> QED BY <1>1, <1>3, <1>4, <1>5 DEF Inv, Agreement

\* A refusal moves on to the next version, to the channel or to the end; nothing is under way.
LEMMA RefusedInv == ASSUME Inv, Refused PROVE Inv'
<1>1. /\ IsRecord(guest', GuestFields)
      /\ UNCHANGED <<slot, mail, host>>
      /\ guest.pc = "refused" /\ guest.waiting \in Controls
      /\ guest'.v \in 1 .. Len(Versions)
      /\ guest'.conn = guest.conn /\ guest'.response = guest.response
      /\ guest'.protocol = guest.protocol /\ guest'.gaveup = guest.gaveup
      /\ guest'.poll = guest.poll /\ guest'.copy = guest.copy /\ guest'.pending = guest.pending
      /\ guest'.raced = guest.raced
      /\ \/ guest.waiting = "contact" /\ guest'.pc = "contact" /\ guest'.pages = guest.pages
         \/ guest.waiting = "offers" /\ guest'.pc = "gpadl" /\ guest'.pages = "held"
         \/ guest'.pc = "failed"
  <2>1. /\ guest.pc = "refused" /\ guest.waiting \in Controls /\ UNCHANGED <<slot, mail, host>>
        /\ IsRecord(guest, GuestFields) /\ guest.v \in 1 .. Len(Versions)
    BY DEF Inv, GuestOK, Refused
  <2>2. CASE guest.waiting = "contact" /\ guest.v < Len(Versions)
    <3>1. guest' = [guest EXCEPT !.pc = "contact", !.v = @ + 1]
      <4>1. guest.v # Len(Versions)
        BY <2>1, <2>2
      <4> QED BY <2>2, <4>1 DEF Refused
    <3>2. guest.v + 1 \in 1 .. Len(Versions)
      BY <2>1, <2>2
    <3> QED BY <2>1, <2>2, <3>1, <3>2, Zenon DEF IsRecord, GuestFields
  <2>3. CASE guest.waiting = "contact" /\ guest.v = Len(Versions)
    <3>1. guest' = [guest EXCEPT !.pc = "failed"]
      BY <2>3 DEF Refused
    <3> QED BY <2>1, <2>3, <3>1, Zenon DEF IsRecord, GuestFields
  <2>4. CASE guest.waiting = "offers"
    <3>1. \E room \in BOOLEAN : guest' = OpensChannel(guest, room)
      BY <2>4 DEF Refused
    <3> QED BY <2>1, <2>4, <3>1, Zenon DEF IsRecord, GuestFields, OpensChannel
  <2>5. CASE guest.waiting \in {"gpadl", "open"}
    <3>1. guest' = [guest EXCEPT !.pc = "failed", !.pages = "freed"]
      BY <2>5 DEF Refused
    <3> QED BY <2>1, <2>5, <3>1, Zenon DEF IsRecord, GuestFields
  <2>6. guest.v < Len(Versions) \/ guest.v = Len(Versions)
    BY <2>1, SMTT(30)
  <2> QED BY <2>1, <2>2, <2>3, <2>4, <2>5, <2>6 DEF Controls
<1>2. GuestOK'
  BY <1>1, SMTT(30) DEF Inv, GuestOK, Pcs
<1>3. SlotOK' /\ HostOK' /\ Waited'
  BY <1>1 DEF Inv, SlotOK, HostOK, Waited
<1>4. ASSUME guest.gaveup = 0
      PROVE  Conversation' /\ Addressed' /\ Progress'
  <2>1. Unasked /\ Progress /\ mail = <<>>
    BY <1>1, <1>4, ZenonT(60) DEF Inv, Agreement, Conversation, Asked, Answering, Heard, Unasked
  <2>2. Conversation' /\ Addressed'
    BY <1>1, <2>1, SMTT(30) DEF Conversation, Unasked, Silent, Addressed
  <2>3. Progress'
    BY <1>1, <2>1, SMTT(30) DEF Progress
  <2> QED BY <2>2, <2>3, SMTT(30)
<1> QED BY <1>1, <1>2, <1>3, <1>4, SMTT(30) DEF Inv, Agreement

\* The answer has arrived: the attempt goes on as the answer says, or is refused.
LEMMA AnsweredInv == ASSUME Inv, Answered PROVE Inv'
<1> DEFINE w == guest.waiting
           answer == guest.response[guest.waiting]
<1>1. /\ guest.pc = "wait" /\ w \in Controls /\ Waits[w] \in guest.have
      /\ UNCHANGED <<slot, mail, host>> /\ IsRecord(guest, GuestFields)
  BY DEF Inv, GuestOK, Answered
<1>2. PICK room \in BOOLEAN :
        guest' = IF ~answer.good THEN [guest EXCEPT !.pc = "refused"]
                 ELSE IF w = "contact"
                   THEN [guest EXCEPT !.pc = "offers", !.protocol = Versions[guest.v],
                                      !.conn = IF answer.conn # 0 THEN answer.conn ELSE @]
                 ELSE IF w = "offers" THEN OpensChannel(guest, room)
                 ELSE [guest EXCEPT !.pc = After[w]]
  BY Zenon DEF Answered
<1> HIDE DEF answer
<1>3. /\ IsRecord(guest', GuestFields)
      /\ guest'.v = guest.v /\ guest'.response = guest.response /\ guest'.waiting = w
      /\ guest'.gaveup = guest.gaveup /\ guest'.poll = guest.poll /\ guest'.copy = guest.copy
      /\ guest'.pending = guest.pending /\ guest'.raced = guest.raced
  BY <1>1, <1>2, ZenonT(60) DEF IsRecord, GuestFields, OpensChannel
<1>4. \/ /\ ~answer.good /\ guest'.pc = "refused" /\ guest'.protocol = guest.protocol
         /\ guest'.conn = guest.conn /\ guest'.pages = guest.pages
      \/ /\ answer.good /\ w = "contact" /\ guest'.pc = "offers" /\ guest'.protocol = Versions[guest.v]
         /\ guest'.conn = (IF answer.conn # 0 THEN answer.conn ELSE guest.conn)
         /\ guest'.pages = guest.pages
      \/ /\ w = "offers" /\ guest'.protocol = guest.protocol /\ guest'.conn = guest.conn
         /\ \/ guest'.pc = "gpadl" /\ guest'.pages = "held"
            \/ guest'.pc = "failed" /\ guest'.pages = guest.pages
      \/ /\ answer.good /\ w = "gpadl" /\ guest'.pc = "open" /\ guest'.protocol = guest.protocol
         /\ guest'.conn = guest.conn /\ guest'.pages = guest.pages
      \/ /\ answer.good /\ w = "open" /\ guest'.pc = "request" /\ guest'.protocol = guest.protocol
         /\ guest'.conn = guest.conn /\ guest'.pages = guest.pages
  <2>1. CASE ~answer.good
    BY <1>1, <1>2, <2>1 DEF IsRecord, GuestFields
  <2>2. CASE answer.good /\ w = "contact"
    BY <1>1, <1>2, <2>2 DEF IsRecord, GuestFields
  <2>3. CASE answer.good /\ w = "offers"
    BY <1>1, <1>2, <2>3 DEF IsRecord, GuestFields, OpensChannel
  <2>4. CASE answer.good /\ w \in {"gpadl", "open"}
    <3>1. guest' = [guest EXCEPT !.pc = After[w]]
      BY <1>2, <2>4, SMTT(30)
    <3>2. (w = "gpadl" => After[w] = "open") /\ (w = "open" => After[w] = "request")
      BY SMTT(30) DEF After
    <3> QED BY <1>1, <2>4, <3>1, <3>2 DEF IsRecord, GuestFields
  <2> QED BY <1>1, <2>1, <2>2, <2>3, <2>4, ZenonT(60) DEF Controls
<1>5. GuestOK'
  BY <1>1, <1>3, <1>4, SMTT(30) DEF Inv, GuestOK, Pcs
<1>6. SlotOK' /\ HostOK' /\ Waited'
  BY <1>1, <1>3, SMTT(30) DEF Inv, SlotOK, HostOK, Waited
<1>7. ASSUME guest.gaveup = 0
      PROVE  Conversation' /\ Addressed' /\ Progress'
  <2>1. Heard /\ Progress
    BY <1>1, <1>7, SMTT(30) DEF Inv, Agreement, Conversation, Asked, Answering, Heard, Unasked
  <2>2. Conversation' /\ Addressed'
    BY <1>1, <1>3, <1>4, <2>1 DEF Conversation, Unasked, Heard, Silent, Addressed
  <2>3. Honest(w, answer)
    BY <2>1, SMTT(30) DEF Heard, answer
  <2>4. Progress'
    BY <1>1, <1>3, <1>4, <2>1, <2>3 DEF Progress, Honest
  <2> QED BY <2>2, <2>4
<1> QED BY <1>3, <1>5, <1>6, <1>7 DEF Inv, Agreement

\* A wait that is given up, or a channel closed without an answer, ends the agreement.
LEMMA GivesUpInv == ASSUME Inv, GivesUp \/ HelloGivesUp PROVE Inv'
<1>1. /\ IsRecord(guest', GuestFields)
      /\ UNCHANGED <<slot, mail, host>>
      /\ \/ guest.pc = "wait" /\ guest'.pc = "refused"
         \/ guest'.pc = "failed"
      /\ guest'.waiting = guest.waiting
      /\ guest'.v = guest.v /\ guest'.response = guest.response
      /\ guest'.gaveup = guest.gaveup + 1
      /\ guest'.poll = guest.poll /\ guest'.copy = guest.copy /\ guest'.pending = guest.pending
      /\ guest'.raced = guest.raced
  BY ZenonT(60) DEF Inv, GuestOK, GivesUp, HelloGivesUp, Closed, IsRecord, GuestFields
<1>2. GuestOK'
  BY <1>1 DEF Inv, GuestOK, Pcs
<1>3. SlotOK' /\ HostOK' /\ Waited'
  BY <1>1, SMTT(30) DEF Inv, SlotOK, HostOK, Waited
<1>4. Agreement'
  BY <1>1 DEF Inv, GuestOK, Agreement
<1> QED BY <1>2, <1>3, <1>4 DEF Inv

\* The protocol request is sent and packets are received while nothing is asked.
LEMMA ChannelInv == ASSUME Inv, SendsRequest \/ Receives PROVE Inv'
<1>1. /\ IsRecord(guest', GuestFields)
      /\ UNCHANGED <<slot, host>>
      /\ guest'.waiting = guest.waiting /\ guest'.v = guest.v /\ guest'.conn = guest.conn
      /\ guest'.response = guest.response /\ guest'.protocol = guest.protocol
      /\ guest'.pages = guest.pages /\ guest'.gaveup = guest.gaveup
      /\ guest'.poll = guest.poll /\ guest'.copy = guest.copy /\ guest'.pending = guest.pending
      /\ guest'.raced = guest.raced
      /\ \/ /\ guest.pc = "request" /\ guest'.pc = "hello"
            /\ mail' = Append(mail, Post("request", Versions[guest.v], 0))
         \/ guest.pc \in {"hello", "ready"} /\ guest'.pc \in {"hello", "ready"} /\ mail' = mail
  <2>1. IsRecord(guest, GuestFields)
    BY DEF Inv, GuestOK
  <2>2. CASE SendsRequest
    BY <2>1, <2>2, Zenon DEF SendsRequest, Signalled, IsRecord, GuestFields
  <2>3. CASE Receives
    <3>1. PICK index, pc : /\ guest' = [guest EXCEPT !.index = index, !.pc = pc]
                           /\ pc \in {"ready", guest.pc}
      BY <2>3, Zenon DEF Receives
    <3>2. guest.pc \in {"hello", "ready"} /\ UNCHANGED <<slot, mail, host>>
      BY <2>3, SMTT(30) DEF Receives
    <3> QED BY <2>1, <3>1, <3>2, Zenon DEF IsRecord, GuestFields
  <2> QED BY <2>2, <2>3
<1>2. GuestOK'
  BY <1>1, SMTT(30) DEF Inv, GuestOK, Pcs
<1>3. SlotOK' /\ HostOK' /\ Waited'
  BY <1>1 DEF Inv, SlotOK, HostOK, Waited
<1>4. ASSUME guest.gaveup = 0
      PROVE  Conversation' /\ Addressed' /\ Progress'
  <2>1. Unasked /\ Progress /\ (guest.pc = "request" => mail = <<>>)
    BY <1>1, <1>4, ZenonT(60) DEF Inv, Agreement, Conversation, Asked, Answering, Heard, Unasked
  <2>2. Conversation'
    <3>1. guest.pc = "request" => mail' = <<Post("request", Versions[guest.v], 0)>>
      BY <1>1, <2>1, SMTT(30)
    <3> QED BY <1>1, <2>1, <3>1, SMTT(30) DEF Conversation, Unasked, Silent
  <2>3. Addressed' /\ Progress'
    BY <1>1, <2>1 DEF Addressed, Progress
  <2> QED BY <2>2, <2>3, SMTT(30)
<1> QED BY <1>1, <1>2, <1>3, <1>4, SMTT(30) DEF Inv, Agreement

-----------------------------------------------------------------------------
(* A message on its way to the guest *)

\* Nothing in the slot is not an answer.
LEMMA NoReply == ASSUME NEW m \in Reply PROVE m # NoMessage
BY DEF Reply, Kinds, NoMessage, Message

\* A step that only moves messages on keeps the agreement.
LEMMA MessagesMove ==
  ASSUME Inv, UNCHANGED mail,
         guest'.pc = guest.pc, guest'.v = guest.v, guest'.conn = guest.conn,
         guest'.waiting = guest.waiting, guest'.have = guest.have,
         guest'.response = guest.response, guest'.protocol = guest.protocol,
         guest'.pages = guest.pages, guest'.gaveup = guest.gaveup,
         host'.version = host.version, host'.conn = host.conn, host'.open = host.open,
         Silent => Silent', \A m \in Reply : m.kind # "offer" /\ UnderWay(m) => UnderWay(m)'
  PROVE  Agreement'
<1> SUFFICES ASSUME guest.gaveup = 0
             PROVE  Conversation' /\ Addressed' /\ Progress'
  BY SMTT(30) DEF Agreement
<1>1. Conversation /\ Addressed /\ Progress
  BY SMTT(30) DEF Inv, Agreement
<1>2. Addressed' /\ Progress'
  BY <1>1, ZenonT(60) DEF Addressed, Progress
<1>3. ASSUME Asked PROVE Conversation'
  BY <1>3, ZenonT(60) DEF Asked, Conversation
<1>4. ASSUME Answering PROVE Conversation'
  <2>1. PICK m \in Reply : m.kind = Waits[guest.waiting] /\ Honest(guest.waiting, m) /\ UnderWay(m)
    BY <1>4, ZenonT(60) DEF Answering
  <2>2. Honest(guest.waiting, m)' /\ UnderWay(m)'
    <3>1. guest.waiting \in Controls
      BY <1>4, SMTT(30) DEF Inv, GuestOK, Answering
    <3>2. m.kind # "offer"
      BY <2>1, <3>1, SMTT(30) DEF Waits, Controls
    <3> QED BY <2>1, <3>2, ZenonT(60) DEF Honest
  <2>3. Answering'
    BY <1>4, <2>1, <2>2 DEF Answering
  <2> QED BY <2>3, SMTT(30) DEF Conversation
<1>5. ASSUME Heard PROVE Conversation'
  <2>1. Honest(guest.waiting, guest.response[guest.waiting])'
    BY <1>5 DEF Heard, Honest
  <2> QED BY <1>5, <2>1, SMTT(30) DEF Heard, Conversation
<1>6. ASSUME Unasked PROVE Conversation'
  BY <1>6 DEF Unasked, Conversation
<1> QED BY <1>1, <1>2, <1>3, <1>4, <1>5, <1>6, SMTT(30) DEF Conversation

\* hyperv_poll_message copies the message and the pending flag.
LEMMA PollCopiesInv == ASSUME Inv, PollCopies PROVE Inv'
<1>1. /\ IsRecord(guest', GuestFields)
      /\ UNCHANGED <<slot, mail, host>>
      /\ guest'.pc = guest.pc /\ guest'.v = guest.v /\ guest'.conn = guest.conn
      /\ guest'.waiting = guest.waiting /\ guest'.have = guest.have
      /\ guest'.response = guest.response /\ guest'.protocol = guest.protocol
      /\ guest'.pages = guest.pages /\ guest'.gaveup = guest.gaveup /\ guest'.raced = guest.raced
      /\ guest.poll = "idle" /\ slot.message # NoMessage
      /\ guest'.poll = "copied" /\ guest'.copy = slot.message /\ guest'.pending = slot.pending
  BY ZenonT(60) DEF Inv, GuestOK, PollCopies, IsRecord, GuestFields
<1>2. GuestOK' /\ HostOK'
  BY <1>1, SMTT(30) DEF Inv, GuestOK, HostOK
<1>3. SlotOK' /\ Waited'
  BY <1>1, SMTT(30) DEF Inv, SlotOK, Waited
<1>4. Silent => Silent'
  BY <1>1 DEF Silent
<1>5. ASSUME NEW m \in Reply, UnderWay(m)
      PROVE  UnderWay(m)'
  BY <1>1, <1>5, Zenon DEF UnderWay
<1>6. Agreement'
  BY <1>1, <1>4, <1>5, MessagesMove
<1> QED BY <1>2, <1>3, <1>6 DEF Inv

\* It clears the slot.
LEMMA PollClearsInv == ASSUME Inv, PollClears PROVE Inv'
<1>1. /\ IsRecord(guest', GuestFields) /\ IsRecord(slot', {"message", "pending"})
      /\ UNCHANGED <<mail, host>>
      /\ guest'.pc = guest.pc /\ guest'.v = guest.v /\ guest'.conn = guest.conn
      /\ guest'.waiting = guest.waiting /\ guest'.have = guest.have
      /\ guest'.response = guest.response /\ guest'.protocol = guest.protocol
      /\ guest'.pages = guest.pages /\ guest'.gaveup = guest.gaveup /\ guest'.raced = guest.raced
      /\ guest.poll = "copied" /\ guest'.poll = "cleared"
      /\ guest'.copy = guest.copy /\ guest'.pending = guest.pending
      /\ slot'.message = NoMessage /\ slot'.pending = slot.pending
      /\ guest.copy \in Reply /\ slot.message = guest.copy
  BY Zenon DEF Inv, GuestOK, SlotOK, PollClears, IsRecord, GuestFields
<1>2. GuestOK' /\ HostOK'
  BY <1>1, SMTT(30) DEF Inv, GuestOK, HostOK
<1>3. SlotOK' /\ Waited'
  BY <1>1 DEF Inv, SlotOK, Waited
<1>4. Silent => Silent'
  BY <1>1, Zenon DEF Silent, Quiet
<1>5. ASSUME NEW m \in Reply, UnderWay(m)
      PROVE  UnderWay(m)'
  BY <1>1, <1>5, ZenonT(60) DEF UnderWay, Quiet
<1>6. Agreement'
  BY <1>1, <1>4, <1>5, MessagesMove
<1> QED BY <1>2, <1>3, <1>6 DEF Inv

\* The host puts its next message into the empty slot, or finds the slot taken and waits.
LEMMA HostDeliversInv == ASSUME Inv, HostDelivers PROVE Inv'
<1>1. CASE slot.message = NoMessage
  <2>1. /\ IsRecord(host', HostFields) /\ UNCHANGED <<guest, mail>>
        /\ slot' = [message |-> Head(host.queue), pending |-> FALSE]
        /\ host.queue # <<>> /\ host'.queue = Tail(host.queue)
        /\ host'.version = host.version /\ host'.conn = host.conn /\ host'.open = host.open
        /\ ~host.blocked /\ host'.blocked = host.blocked
    BY <1>1 DEF Inv, HostOK, HostDelivers, IsRecord, HostFields
  <2>2. /\ IsRecord(slot', {"message", "pending"})
        /\ slot'.message = Head(host.queue) /\ slot'.pending = FALSE
        /\ Head(host.queue) \in Reply /\ Tail(host.queue) \in Seq(Reply)
    BY <2>1 DEF Inv, HostOK, IsRecord
  <2>3. guest.poll # "copied"
    BY <1>1, NoReply, SMTT(30) DEF Inv, SlotOK
  <2>4. GuestOK' /\ HostOK' /\ SlotOK' /\ Waited'
    BY <2>1, <2>2, <2>3, SMTT(30) DEF Inv, GuestOK, HostOK, SlotOK, Waited
  <2>5. ~Silent
    BY <2>1 DEF Silent
  <2>6. ASSUME NEW m \in Reply, UnderWay(m)
        PROVE  UnderWay(m)'
    <3>1. /\ host.queue = <<m>> \/ host.queue = <<Message("offer", TRUE, 0), m>>
          /\ Quiet(guest.copy)
      BY <2>1, <2>6, Zenon DEF UnderWay
    <3>2. CASE host.queue = <<m>>
      <4>1. host'.queue = <<>> /\ slot'.message = m
        BY <2>1, <2>2, <3>2
      <4> QED BY <2>1, <2>3, <3>1, <4>1, ZenonT(60) DEF UnderWay, Quiet
    <3>3. CASE host.queue = <<Message("offer", TRUE, 0), m>>
      <4>1. host'.queue = <<m>> /\ slot'.message = Message("offer", TRUE, 0)
        BY <2>1, <2>2, <3>3, SMTT(30)
      <4> QED BY <2>1, <3>1, <4>1, ZenonT(60) DEF UnderWay, Quiet
    <3> QED BY <3>1, <3>2, <3>3, Zenon
  <2>7. Agreement'
    BY <2>1, <2>5, <2>6, MessagesMove
  <2> QED BY <2>4, <2>7 DEF Inv
<1>2. CASE slot.message # NoMessage
  <2>1. /\ IsRecord(host', HostFields) /\ IsRecord(guest', GuestFields)
        /\ IsRecord(slot', {"message", "pending"}) /\ UNCHANGED mail
        /\ slot'.message = slot.message /\ slot'.pending = TRUE
        /\ host'.queue = host.queue /\ host'.version = host.version /\ host'.conn = host.conn
        /\ host'.open = host.open /\ host'.blocked = TRUE /\ host.queue # <<>>
        /\ guest'.pc = guest.pc /\ guest'.v = guest.v /\ guest'.conn = guest.conn
        /\ guest'.waiting = guest.waiting /\ guest'.have = guest.have
        /\ guest'.response = guest.response /\ guest'.protocol = guest.protocol
        /\ guest'.pages = guest.pages /\ guest'.gaveup = guest.gaveup
        /\ guest'.poll = guest.poll /\ guest'.copy = guest.copy /\ guest'.pending = guest.pending
    BY <1>2 DEF Inv, HostOK, GuestOK, SlotOK, HostDelivers, IsRecord, HostFields, GuestFields
  <2>2. guest'.raced = (guest.raced \/ guest.poll = "copied")
    BY <1>2 DEF Inv, GuestOK, HostDelivers, IsRecord, GuestFields
  <2>3. GuestOK' /\ HostOK'
    BY <2>1, Zenon DEF Inv, GuestOK, HostOK
  <2>4. SlotOK'
    BY <2>1, <2>2, Zenon DEF Inv, SlotOK
  <2>5. Waited'
    BY <1>2, <2>1, <2>2, Zenon DEF Inv, SlotOK, Waited
  <2>6. (Silent => Silent') /\ \A m \in Reply : UnderWay(m) => UnderWay(m)'
    BY <2>1, ZenonT(60) DEF Silent, UnderWay
  <2>7. Agreement'
    BY <2>1, <2>6, MessagesMove, SMTT(30)
  <2> QED BY <2>3, <2>4, <2>5, <2>7 DEF Inv
<1> QED BY <1>1, <1>2

\* vmbus_handle_message: an answer sets its flag and is kept as the response of its kind.
LEMMA HandledIs ==
  ASSUME NEW g, IsRecord(g, GuestFields), IsRecord(g.response, Controls), NEW m \in Reply,
         NEW h, h = Handled(g, m)
  PROVE  /\ IsRecord(h, GuestFields) /\ IsRecord(h.response, Controls)
         /\ h.pc = g.pc /\ h.v = g.v /\ h.conn = g.conn /\ h.waiting = g.waiting
         /\ h.protocol = g.protocol /\ h.pages = g.pages /\ h.gaveup = g.gaveup /\ h.raced = g.raced
         /\ h.pending = g.pending
         /\ h.response["offers"] = g.response["offers"]
         /\ m.kind = "offer" => h.have = g.have /\ h.response = g.response
         /\ m.kind # "offer" => h.have = g.have \cup {m.kind}
         /\ \A w \in Controls : Waits[w] = m.kind /\ w # "offers" => h.response[w] = m
<1>0. /\ Waits["contact"] = "version" /\ Waits["offers"] = "all_offers"
      /\ Waits["gpadl"] = "gpadl" /\ Waits["open"] = "opened"
  BY ZenonT(60) DEF Waits
<1>1. CASE m.kind = "version"
  <2>1. h = [g EXCEPT !.have = @ \union {"version"}, !.response["contact"] = m]
    BY <1>1 DEF Handled
  <2>2. /\ IsRecord(h, GuestFields) /\ h.response = [g.response EXCEPT !["contact"] = m]
        /\ h.pc = g.pc /\ h.v = g.v /\ h.conn = g.conn /\ h.waiting = g.waiting
        /\ h.protocol = g.protocol /\ h.pages = g.pages /\ h.gaveup = g.gaveup /\ h.raced = g.raced
        /\ h.pending = g.pending /\ h.have = g.have \cup {m.kind}
    BY <1>1, <2>1, ZenonT(60) DEF IsRecord, GuestFields
  <2>3. /\ IsRecord(h.response, Controls) /\ h.response["contact"] = m
        /\ h.response["offers"] = g.response["offers"]
    BY <2>2 DEF IsRecord, Controls
  <2>4. \A w \in Controls : Waits[w] = m.kind => w = "contact"
    BY <1>0, <1>1 DEF Controls
  <2> QED BY <1>1, <2>2, <2>3, <2>4
<1>2. CASE m.kind = "offer"
  <2>1. h = [g EXCEPT !.offer = TRUE]
    BY <1>2 DEF Handled
  <2> QED BY <1>0, <1>2, <2>1 DEF IsRecord, GuestFields, Controls
<1>3. CASE m.kind = "all_offers"
  <2>1. h = [g EXCEPT !.have = @ \union {"all_offers"}]
    BY <1>3, SMTT(30) DEF Handled
  <2> QED BY <1>0, <1>3, <2>1 DEF IsRecord, GuestFields, Controls
<1>4. CASE m.kind = "gpadl"
  <2>1. h = [g EXCEPT !.have = @ \union {"gpadl"}, !.response["gpadl"] = m]
    BY <1>4 DEF Handled
  <2>2. /\ IsRecord(h, GuestFields) /\ h.response = [g.response EXCEPT !["gpadl"] = m]
        /\ h.pc = g.pc /\ h.v = g.v /\ h.conn = g.conn /\ h.waiting = g.waiting
        /\ h.protocol = g.protocol /\ h.pages = g.pages /\ h.gaveup = g.gaveup /\ h.raced = g.raced
        /\ h.pending = g.pending /\ h.have = g.have \cup {m.kind}
    BY <1>4, <2>1, ZenonT(60) DEF IsRecord, GuestFields
  <2>3. /\ IsRecord(h.response, Controls) /\ h.response["gpadl"] = m
        /\ h.response["offers"] = g.response["offers"]
    BY <2>2, SMTT(30) DEF IsRecord, Controls
  <2>4. \A w \in Controls : Waits[w] = m.kind => w = "gpadl"
    BY <1>0, <1>4, SMTT(30) DEF Controls
  <2> QED BY <1>4, <2>2, <2>3, <2>4
<1>5. CASE m.kind = "opened"
  <2>1. h = [g EXCEPT !.have = @ \union {"opened"}, !.response["open"] = m]
    BY <1>5 DEF Handled
  <2>2. /\ IsRecord(h, GuestFields) /\ h.response = [g.response EXCEPT !["open"] = m]
        /\ h.pc = g.pc /\ h.v = g.v /\ h.conn = g.conn /\ h.waiting = g.waiting
        /\ h.protocol = g.protocol /\ h.pages = g.pages /\ h.gaveup = g.gaveup /\ h.raced = g.raced
        /\ h.pending = g.pending /\ h.have = g.have \cup {m.kind}
    BY <1>5, <2>1, ZenonT(60) DEF IsRecord, GuestFields
  <2>3. /\ IsRecord(h.response, Controls) /\ h.response["open"] = m
        /\ h.response["offers"] = g.response["offers"]
    BY <2>2, SMTT(30) DEF IsRecord, Controls
  <2>4. \A w \in Controls : Waits[w] = m.kind => w = "open"
    BY <1>0, <1>5 DEF Controls
  <2> QED BY <1>5, <2>2, <2>3, <2>4
<1> QED BY <1>1, <1>2, <1>3, <1>4, <1>5, ZenonT(60) DEF Reply, Kinds

\* The guest signals the end of message and looks at what it copied.
LEMMA PollEndsInv == ASSUME Inv, PollEnds PROVE Inv'
<1> DEFINE m == guest.copy
           h == Handled(guest, guest.copy)
<1>1. /\ guest.poll = "cleared" /\ m \in Reply
      /\ IsRecord(guest, GuestFields) /\ IsRecord(guest.response, Controls)
      /\ IsRecord(host, HostFields)
      /\ UNCHANGED <<slot, mail>>
  BY DEF Inv, GuestOK, SlotOK, HostOK, PollEnds
<1>2. /\ guest' = [h EXCEPT !.poll = "idle", !.copy = NoMessage, !.pending = FALSE]
      /\ host' = IF guest.pending THEN [host EXCEPT !.blocked = FALSE] ELSE host
  BY SMTT(30) DEF PollEnds, EndOfMessage
<1> HIDE DEF m, h
<1>3. /\ IsRecord(h, GuestFields) /\ IsRecord(h.response, Controls)
      /\ h.pc = guest.pc /\ h.v = guest.v /\ h.conn = guest.conn /\ h.waiting = guest.waiting
      /\ h.protocol = guest.protocol /\ h.pages = guest.pages /\ h.gaveup = guest.gaveup
      /\ h.raced = guest.raced
      /\ h.response["offers"] = guest.response["offers"]
      /\ m.kind = "offer" => h.have = guest.have /\ h.response = guest.response
      /\ m.kind # "offer" => h.have = guest.have \cup {m.kind}
      /\ \A w \in Controls : Waits[w] = m.kind /\ w # "offers" => h.response[w] = m
  BY <1>1, HandledIs DEF h, m
<1>4. /\ IsRecord(guest', GuestFields)
      /\ guest'.pc = guest.pc /\ guest'.v = guest.v /\ guest'.conn = guest.conn
      /\ guest'.waiting = guest.waiting /\ guest'.protocol = guest.protocol
      /\ guest'.pages = guest.pages /\ guest'.gaveup = guest.gaveup /\ guest'.raced = guest.raced
      /\ guest'.have = h.have /\ guest'.response = h.response
      /\ guest'.poll = "idle" /\ guest'.copy = NoMessage /\ guest'.pending = FALSE
  BY <1>2, <1>3, Zenon DEF IsRecord, GuestFields
<1>5. /\ IsRecord(host', HostFields)
      /\ host'.version = host.version /\ host'.conn = host.conn /\ host'.open = host.open
      /\ host'.queue = host.queue
      /\ host'.blocked = (host.blocked /\ ~guest.pending)
  <2>1. host.blocked \in BOOLEAN /\ guest.pending \in BOOLEAN
    BY SMTT(30) DEF Inv, HostOK, SlotOK
  <2> QED BY <1>1, <1>2, <2>1, ZenonT(60) DEF IsRecord, HostFields
<1>6. GuestOK'
  BY <1>3, <1>4, ZenonT(60) DEF Inv, GuestOK
<1>7. SlotOK' /\ HostOK'
  <2>1. host'.blocked \in BOOLEAN
    BY <1>5
  <2> QED BY <1>1, <1>4, <1>5, <2>1, ZenonT(60) DEF Inv, SlotOK, HostOK
<1>8. Waited'
  BY <1>1, <1>4, <1>5, Zenon DEF Inv, Waited
<1>9. CASE m.kind = "offer"
  <2>1. Silent => Silent'
    BY <1>1, <1>4, <1>5, Zenon DEF Silent, Quiet
  <2>2. ASSUME NEW a \in Reply, a.kind # "offer", UnderWay(a)
        PROVE  UnderWay(a)'
    BY <1>1, <1>4, <1>5, <1>9, <2>2, ZenonT(60) DEF UnderWay, Quiet, m
  <2>3. Agreement'
    BY <1>1, <1>3, <1>4, <1>5, <1>9, <2>1, <2>2, MessagesMove, ZenonT(60)
  <2> QED BY <1>6, <1>7, <1>8, <2>3 DEF Inv
<1>10. CASE m.kind # "offer"
  <2>1. ~Quiet(m)
    BY <1>1, <1>10, NoReply DEF Quiet, Message
  <2>2. ASSUME guest.gaveup = 0
        PROVE  Conversation' /\ Addressed' /\ Progress'
    <3>1. Addressed /\ Progress /\ Answering
      BY <2>1, <2>2, SMTT(30) DEF Inv, Agreement, Conversation, Asked, Heard, Unasked, Silent, m
    <3>2. PICK a \in Reply : a.kind = Waits[guest.waiting] /\ Honest(guest.waiting, a) /\ UnderWay(a)
      BY <3>1 DEF Answering
    <3>3. a = m /\ host.queue = <<>> /\ slot.message = NoMessage
      BY <1>1, <2>1, <3>2, ZenonT(60) DEF UnderWay, m
    <3>4. guest.pc = "wait" /\ guest.waiting \in Controls
      BY <3>1, SMTT(30) DEF Inv, GuestOK, Answering
    <3>5. Honest(guest.waiting, guest.response[guest.waiting])'
      BY <1>3, <1>4, <1>5, <3>2, <3>3, <3>4, ZenonT(60) DEF Honest
    <3>6. Heard'
      BY <1>1, <1>3, <1>4, <1>5, <1>10, <3>1, <3>2, <3>3, <3>5, ZenonT(60) DEF Heard, Answering, Silent, Quiet
    <3>7. Addressed' /\ Progress'
      BY <1>4, <1>5, <3>1, ZenonT(60) DEF Addressed, Progress
    <3> QED BY <3>6, <3>7, SMTT(30) DEF Conversation
  <2> QED BY <1>4, <1>6, <1>7, <1>8, <2>2, ZenonT(60) DEF Inv, Agreement
<1> QED BY <1>9, <1>10

-----------------------------------------------------------------------------
(* The host handles what the guest posted *)

\* What handling a message does to the host: each control message is answered as it is
\* decided, and the request is answered in the ring.
HostDecides(m, replies) ==
  /\ IsRecord(host', HostFields) /\ host'.blocked = host.blocked
  /\ host'.queue = host.queue \o replies
  /\ \/ /\ m.kind = "contact" /\ replies[1].good /\ host'.open = host.open
        /\ host'.version = m.version
        /\ host'.conn = IF replies[1].conn # 0 THEN replies[1].conn ELSE OldConnection
        /\ m.version \in NewVersions => replies[1].conn # 0
     \/ /\ m.kind = "contact" /\ ~replies[1].good /\ host'.open = host.open
        /\ host'.version = host.version /\ host'.conn = host.conn
     \/ /\ m.kind \in {"offers", "gpadl"} /\ host'.open = host.open
        /\ host'.version = host.version /\ host'.conn = host.conn
     \/ /\ m.kind = "open" /\ host'.open = replies[1].good
        /\ host'.version = host.version /\ host'.conn = host.conn

\* The answers to a control message.
Replies(kind) ==
  IF kind = "offers" THEN {<<Message("offer", TRUE, 0), Message("all_offers", TRUE, 0)>>}
                     ELSE {<<m>> : m \in {r \in Reply : r.kind = Waits[kind]}}

\* A message is a reply.
LEMMA MessageIsReply ==
  ASSUME NEW kind \in Kinds, NEW good \in BOOLEAN, NEW conn \in Nat
  PROVE  /\ Message(kind, good, conn) \in Reply /\ Message(kind, good, conn).kind = kind
         /\ Message(kind, good, conn).good = good /\ Message(kind, good, conn).conn = conn
BY DEF Message, Reply

\* The host answers the first message of the mail, or accepts the protocol request.
LEMMA HostHandlesIs ==
  ASSUME Inv, HostHandles
  PROVE  LET m == Head(mail)
         IN  /\ mail # <<>> /\ mail' = Tail(mail) /\ UNCHANGED <<guest, slot>>
             /\ \/ m.kind = "request" /\ UNCHANGED host
                \/ m.kind \in Controls /\ \E replies \in Replies(m.kind) : HostDecides(m, replies)
<1> DEFINE m == Head(mail)
<1>1. mail # <<>> /\ mail' = Tail(mail) /\ UNCHANGED <<guest, slot>>
  BY Zenon DEF HostHandles
<1>2. /\ Waits["contact"] = "version" /\ Waits["gpadl"] = "gpadl" /\ Waits["open"] = "opened"
  BY DEF Waits
<1>3. IsRecord(host, HostFields) /\ host.open \in BOOLEAN
  BY DEF Inv, HostOK
<1>4. CASE m.kind = "contact" /\ m.version \in HostVersions
  <2> DEFINE given == IF m.version \in NewVersions THEN GivenConnection ELSE 0
             reply == Message("version", TRUE, given)
  <2>1. host' = [host EXCEPT !.version = m.version,
                             !.conn = IF given # 0 THEN given ELSE OldConnection,
                             !.queue = host.queue \o <<reply>>]
    BY <1>4, Zenon DEF HostHandles
  <2>2. given \in Nat /\ (m.version \in NewVersions => given # 0)
    BY DEF GivenConnection
  <2> HIDE DEF given
  <2>3. reply \in Reply /\ reply.kind = "version" /\ reply.good /\ reply.conn = given
    BY <2>2 DEF Message, Reply, Kinds
  <2> HIDE DEF reply
  <2>4. <<reply>> \in Replies(m.kind)
    BY <1>2, <1>4, <2>3 DEF Replies
  <2>5. <<reply>>[1] = reply
    OBVIOUS
  <2> HIDE DEF m
  <2>6. /\ IsRecord(host', HostFields) /\ host'.blocked = host.blocked /\ host'.open = host.open
        /\ host'.queue = host.queue \o <<reply>> /\ host'.version = m.version
        /\ host'.conn = IF given # 0 THEN given ELSE OldConnection
    BY <1>3, <2>1, ZenonT(60) DEF IsRecord, HostFields
  <2>7. HostDecides(m, <<reply>>)
    BY <1>4, <2>2, <2>3, <2>5, <2>6, SMTT(30) DEF HostDecides
  <2> QED BY <1>1, <1>4, <2>4, <2>7 DEF m, Controls
<1>5. CASE m.kind = "contact" /\ m.version \notin HostVersions
  <2> DEFINE reply == Message("version", FALSE, 0)
  <2>1. host' = [host EXCEPT !.queue = host.queue \o <<reply>>]
    BY <1>5, Zenon DEF HostHandles
  <2>2. reply \in Reply /\ reply.kind = "version" /\ ~reply.good
    BY DEF Message, Reply, Kinds
  <2> HIDE DEF reply
  <2>3. <<reply>> \in Replies(m.kind) /\ <<reply>>[1] = reply
    BY <1>2, <1>5, <2>2 DEF Replies
  <2> HIDE DEF m
  <2>4. HostDecides(m, <<reply>>)
    BY <1>3, <1>5, <2>1, <2>2, <2>3, Zenon DEF HostDecides, IsRecord, HostFields
  <2> QED BY <1>1, <1>5, <2>3, <2>4 DEF m, Controls
<1>6. CASE m.kind = "offers"
  <2> DEFINE replies == <<Message("offer", TRUE, 0), Message("all_offers", TRUE, 0)>>
  <2>1. host' = [host EXCEPT !.queue = host.queue \o replies]
    BY <1>6, Zenon DEF HostHandles
  <2>2. replies \in Replies(m.kind)
    BY <1>6 DEF Replies
  <2> HIDE DEF m, replies
  <2>3. HostDecides(m, replies)
    BY <1>3, <1>6, <2>1, Zenon DEF HostDecides, IsRecord, HostFields
  <2> QED BY <1>1, <1>6, <2>2, <2>3 DEF m, Controls
<1>7. CASE m.kind = "gpadl"
  <2>1. PICK good \in BOOLEAN : host' = [host EXCEPT !.queue = host.queue \o <<Message("gpadl", good, 0)>>]
    BY <1>7, Zenon DEF HostHandles
  <2> DEFINE reply == Message("gpadl", good, 0)
  <2>2. reply \in Reply /\ reply.kind = "gpadl"
    BY MessageIsReply DEF Kinds
  <2> HIDE DEF reply
  <2>3. <<reply>> \in Replies(m.kind)
    BY <1>2, <1>7, <2>2 DEF Replies
  <2> HIDE DEF m
  <2>4. HostDecides(m, <<reply>>)
    BY <1>3, <1>7, <2>1, ZenonT(60) DEF HostDecides, IsRecord, HostFields, reply
  <2> QED BY <1>1, <1>7, <2>3, <2>4 DEF m, Controls
<1>8. CASE m.kind = "open"
  <2>1. PICK good \in BOOLEAN :
          host' = [host EXCEPT !.open = good, !.queue = host.queue \o <<Message("opened", good, 0)>>]
    BY <1>8, Zenon DEF HostHandles
  <2> DEFINE reply == Message("opened", good, 0)
  <2>2. reply \in Reply /\ reply.kind = "opened" /\ reply.good = good
    BY MessageIsReply DEF Kinds
  <2>3. host' = [host EXCEPT !.open = good, !.queue = host.queue \o <<reply>>]
    BY <2>1
  <2> HIDE DEF reply
  <2>4. <<reply>> \in Replies(m.kind) /\ <<reply>>[1] = reply
    BY <1>2, <1>8, <2>2 DEF Replies
  <2> HIDE DEF m
  <2>5. HostDecides(m, <<reply>>)
    BY <1>3, <1>8, <2>2, <2>3, <2>4, Zenon DEF HostDecides, IsRecord, HostFields
  <2> QED BY <1>1, <1>8, <2>4, <2>5 DEF m, Controls
<1>9. CASE m.kind = "request"
  BY <1>1, <1>9, Zenon DEF HostHandles
<1> QED BY <1>4, <1>5, <1>6, <1>7, <1>8, <1>9, Zenon DEF HostHandles

\* One or two messages are a queue.
LEMMA OneOrTwo ==
  ASSUME NEW S, NEW a \in S, NEW b \in S
  PROVE  <<b>> \in Seq(S) /\ <<a, b>> \in Seq(S)
OBVIOUS

\* The host handles a message of the guest.
LEMMA HostHandlesInv == ASSUME Inv, HostHandles PROVE Inv'
<1> DEFINE m == Head(mail)
<1>1. /\ mail # <<>> /\ mail' = Tail(mail) /\ UNCHANGED <<guest, slot>>
      /\ \/ m.kind = "request" /\ UNCHANGED host
         \/ m.kind \in Controls /\ \E replies \in Replies(m.kind) : HostDecides(m, replies)
  BY HostHandlesIs, SMTT(30)
<1> HIDE DEF m
<1>2. GuestOK' /\ SlotOK'
  BY <1>1, SMTT(30) DEF Inv, GuestOK, SlotOK
<1>3. ASSUME guest.gaveup = 0
      PROVE  /\ Addressed /\ Progress /\ Silent
             /\ \/ /\ Asked /\ m = Post(guest.waiting, Versions[guest.v], guest.conn)
                   /\ mail' = <<>> /\ m.kind = guest.waiting /\ m.version = Versions[guest.v]
                   /\ guest.waiting \in Controls
                \/ Unasked /\ m.kind = "request" /\ mail' = <<>>
  <2>1. Addressed /\ Progress /\ (Asked \/ Unasked)
    BY <1>1, <1>3, SMTT(30) DEF Inv, Agreement, Conversation, Answering, Heard
  <2>2. CASE Asked
    <3>1. /\ m = Post(guest.waiting, Versions[guest.v], guest.conn) /\ mail' = <<>>
          /\ guest.waiting \in Controls
      <4>1. mail = <<Post(guest.waiting, Versions[guest.v], guest.conn)>>
        BY <2>2 DEF Asked
      <4>2. guest.waiting \in Controls
        BY <2>2, SMTT(30) DEF Asked, Inv, GuestOK
      <4> QED BY <1>1, <4>1, <4>2, SMTT(30) DEF m
    <3> QED BY <2>1, <2>2, <3>1, SMTT(30) DEF Asked, Post
  <2>3. CASE Unasked
    <3>1. m = Post("request", Versions[guest.v], 0) /\ mail' = <<>>
      BY <1>1, <2>3 DEF Unasked, m
    <3> QED BY <2>1, <2>3, <3>1 DEF Unasked, Post
  <2> QED BY <2>1, <2>2, <2>3, SMTT(30)
<1>4. CASE m.kind = "request" /\ UNCHANGED host
  <2>1. HostOK' /\ Waited'
    BY <1>1, <1>4 DEF Inv, HostOK, Waited
  <2>2. ASSUME guest.gaveup = 0
        PROVE  Conversation' /\ Addressed' /\ Progress'
    <3>1. Unasked /\ mail' = <<>> /\ Addressed /\ Progress
      BY <1>3, <1>4, <2>2, SMTT(30) DEF Controls
    <3>2. Unasked'
      BY <1>1, <1>4, <3>1, SMTT(30) DEF Unasked, Silent
    <3>3. Addressed' /\ Progress'
      BY <1>1, <1>4, <3>1 DEF Addressed, Progress
    <3> QED BY <3>2, <3>3 DEF Conversation
  <2> QED BY <1>1, <1>2, <2>1, <2>2 DEF Inv, Agreement
<1>5. ASSUME m.kind \in Controls, NEW replies \in Replies(m.kind), HostDecides(m, replies)
      PROVE  Inv'
  <2>1. PICK r \in Reply :
          /\ r.kind = Waits[m.kind]
          /\ replies = <<r>> \/ (m.kind = "offers" /\ replies = <<Message("offer", TRUE, 0), r>>)
    <3>1. Message("offer", TRUE, 0) \in Reply /\ Message("all_offers", TRUE, 0) \in Reply
      BY SMTT(30) DEF Message, Reply, Kinds
    <3>2. Waits["offers"] = "all_offers" /\ Message("all_offers", TRUE, 0).kind = "all_offers"
      BY DEF Waits, Message
    <3>3. CASE m.kind = "offers"
      BY <1>5, <3>1, <3>2, <3>3, Zenon DEF Replies
    <3>4. CASE m.kind # "offers"
      BY <1>5, <3>4, Zenon DEF Replies
    <3> QED BY <3>3, <3>4, Zenon
  <2>2. replies \in Seq(Reply)
    <3>1. Message("offer", TRUE, 0) \in Reply
      BY DEF Message, Reply, Kinds
    <3>2. <<r>> \in Seq(Reply) /\ <<Message("offer", TRUE, 0), r>> \in Seq(Reply)
      BY <3>1, OneOrTwo, Zenon
    <3> QED BY <2>1, <3>2, Zenon
  <2>3. m.kind # "offers" => replies[1] = r
    <3>1. <<r>>[1] = r
      BY SMTT(30)
    <3> QED BY <2>1, <3>1, Zenon
  <2>4. HostOK'
    <3>1. host'.queue \in Seq(Reply)
      BY <1>5, <2>2, SMTT(30) DEF Inv, HostOK, HostDecides
    <3>2. host'.open \in BOOLEAN
      <4>1. host.open \in BOOLEAN /\ r.good \in BOOLEAN
        BY SMTT(30) DEF Inv, HostOK, Reply
      <4> QED BY <1>5, <2>3, <4>1 DEF HostDecides
    <3> QED BY <1>5, <3>1, <3>2, SMTT(30) DEF Inv, HostOK, HostDecides
  <2>5. Waited'
    BY <1>1, <1>5, ZenonT(60) DEF Inv, Waited, HostDecides
  <2>6. ASSUME guest.gaveup = 0
        PROVE  Conversation' /\ Addressed' /\ Progress'
    <3>1. /\ Addressed /\ Progress /\ Asked /\ Silent
          /\ mail' = <<>> /\ m.kind = guest.waiting /\ m.version = Versions[guest.v]
          /\ ~host.open /\ guest.pc = "wait"
      BY <1>3, <1>5, <2>6, SMTT(30) DEF Controls, Asked
    <3>2. host'.queue = replies
      BY <1>5, <2>2, <3>1, SMTT(30) DEF HostDecides, Silent
    <3>3. UnderWay(r)'
      BY <1>1, <2>1, <3>1, <3>2, ZenonT(60) DEF UnderWay, Silent
    <3>4. Honest(guest.waiting, r)'
      BY <1>1, <1>5, <2>3, <3>1, ZenonT(60) DEF Honest, HostDecides, Addressed
    <3>5. Answering'
      BY <1>1, <2>1, <3>1, <3>3, <3>4, ZenonT(60) DEF Answering, Asked
    <3>6. Addressed' /\ Progress'
      BY <1>1, <1>5, <3>1, ZenonT(60) DEF Addressed, Progress, HostDecides
    <3> QED BY <3>5, <3>6, SMTT(30) DEF Conversation
  <2> QED BY <1>1, <1>2, <2>4, <2>5, <2>6 DEF Inv, Agreement
<1> QED BY <1>1, <1>4, <1>5, SMTT(30)

-----------------------------------------------------------------------------
(* Theorems *)

\* A key that is pressed changes only the ring, and a stuttering step nothing.
LEMMA OthersInv ==
  ASSUME Inv, (\E k \in Keys : HostTypes(k)) \/ UNCHANGED vars
  PROVE  Inv'
<1>1. UNCHANGED <<guest, slot, mail, host>>
  BY SMTT(30) DEF HostTypes, vars
<1>2. GuestOK' /\ SlotOK' /\ HostOK' /\ Waited'
  BY <1>1 DEF Inv, GuestOK, SlotOK, HostOK, Waited
<1>3. (Silent => Silent') /\ \A m \in Reply : UnderWay(m) => UnderWay(m)'
  BY <1>1, Zenon DEF Silent, UnderWay
<1>4. Agreement'
  BY <1>1, <1>3, MessagesMove, SMTT(30)
<1> QED BY <1>2, <1>4 DEF Inv

\* Every step preserves the invariant.
LEMMA NextInv == Inv /\ [Next]_vars => Inv'
<1> SUFFICES ASSUME Inv, [Next]_vars PROVE Inv'
  OBVIOUS
<1>1. ASSUME NEW hv1 \in BOOLEAN, NEW features \in BOOLEAN, NEW frames \in 0 .. 2 + SynicPages,
             HypervInit(hv1, features, frames)
      PROVE  Inv'
  <2>1. frames \in Nat
    BY DEF SynicPages
  <2> QED BY <1>1, <2>1, HypervInitInv
<1> QED BY <1>1, PostControlInv, RefusedInv, AnsweredInv, GivesUpInv, ChannelInv, PollCopiesInv,
           PollClearsInv, PollEndsInv, HostHandlesInv, HostDeliversInv, OthersInv, SMTT(30) DEF Next

\* A host that waits for an end of message gets it, whatever versions there are, however many
\* answers come late and wherever a step of the host falls between those of
\* hyperv_poll_message, but for the two cases that the property names: the race between the
\* pending flag and the slot, and a driver that gave up a wait and failed.
THEOREM HostNeverStuck ==
  ASSUME VmBusAssumption
  PROVE  Spec => []NeverStuck
<1>1. Init => Inv
  BY InitInv
<1>2. Inv /\ [Next]_vars => Inv'
  BY NextInv
<1>3. Inv => NeverStuck
  <2> SUFFICES ASSUME Inv, host.blocked, ~guest.raced
               PROVE  IF guest.pc = "failed" THEN guest.gaveup # 0 ELSE WillSignal
    BY DEF NeverStuck
  <2>1. WillSignal
    BY DEF Inv, SlotOK, Waited, WillSignal
  <2>2. ASSUME guest.pc = "failed", guest.gaveup = 0
        PROVE  FALSE
    <3>1. host.queue = <<>>
      BY <2>2 DEF Inv, Agreement, Conversation, Asked, Answering, Heard, Unasked, Silent
    <3> QED BY <3>1 DEF Inv, HostOK
  <2> QED BY <2>1, <2>2
<1> QED BY <1>1, <1>2, <1>3, PTL DEF Spec

\* As long as no wait was given up, guest and host agree on the version and the connection,
\* and the pages of an open channel are the guest's, for every list of versions and every
\* host: no answer is taken for the answer to another question.
THEOREM HostAlwaysAgrees ==
  ASSUME VmBusAssumption
  PROVE  Spec => []HostAgrees
<1>1. Init => Inv
  BY InitInv
<1>2. Inv /\ [Next]_vars => Inv'
  BY NextInv
<1>3. Inv => HostAgrees
  BY DEF Inv, Agreement, Progress, HostAgrees
<1> QED BY <1>1, <1>2, <1>3, PTL DEF Spec
=============================================================================
