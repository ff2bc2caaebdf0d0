-------------------------------- MODULE Net --------------------------------
(***************************************************************************)
(* The network path of the kernel (net.c, and the ping system call of      *)
(* proc.c): one echo session at a time, an ARP cache of one entry, the     *)
(* adapter's rings, and a network that loses, delays, duplicates and       *)
(* reorders frames. A frame put on the wire stays there: that the network  *)
(* may deliver it at any later time, more than once or never, is a choice  *)
(* of the delivering step.                                                 *)
(*                                                                         *)
(* Every system call and every timer interrupt runs to its end, through    *)
(* proc_schedule: net_poll first, then the tasks blocked on a ping.        *)
(***************************************************************************)
EXTENDS E1000, Sequences, FiniteSets

CONSTANTS
    Adapters,               \* the network adapter of the machine
    Pids,
    Local, Gateway,         \* the hosts of our network
    Targets,                \* the hosts a program pings
    HALF,                   \* half the range of the tick counter (2^31)
    RETRY, DEFAULT,         \* NET_PING_RETRY_TICKS, NET_PING_DEFAULT_TIMEOUT
    Timeouts,               \* timeouts a program passes; 0 stands for DEFAULT
    IDS,                    \* identifiers (2^16)
    BUDGET,                 \* frames net_poll reads (8)
    Loads                   \* unasked: frames that other hosts send of their own accord;
                            \* pings: the bound on the sessions started beside them

VARIABLES
    tick, net,
    task,       \* per pid: ready, blocked, or the result of the last ping it started
    wire        \* the requests that were put on the wire

vars == <<tick, net, task, wire>>

Me == "me"
Nobody == "nobody"

Frame(kind, from, to, id, session) == [kind |-> kind, from |-> from, to |-> to, id |-> id, session |-> session]

Answer(f) ==
    IF f.kind = "arp_request" THEN Frame("arp_reply", f.to, Me, 0, 0) ELSE Frame("echo_reply", f.to, Me, f.id, f.session)

\* What may arrive: frames nobody asked for, and answers to our requests, any number of
\* times and in any order.
Inbound == net.load.unasked \union {Answer(f) : f \in wire}

\* session, since, tried and refused are histories: the number of the session, the tick it
\* started at, whether it sent a request, whether the transmit ring refused one.
NoPing == [active |-> FALSE, completed |-> FALSE, owner |-> 0, to |-> Nobody, hop |-> Nobody, deadline |-> 0,
           next |-> 0, id |-> 0, stage |-> "idle", result |-> "none",
           session |-> 0, since |-> 0, tried |-> FALSE, refused |-> FALSE]

Range2 == 2 * HALF
Before(a, b) == (a + Range2 - b) % Range2 >= HALF     \* (int32_t)(a - b) < 0

\* The cache of one address.
ArpCacheMatches(s, host) == s.arp = host
ArpCacheStore(s, host) == [s EXCEPT !.arp = host]

RouteNextHop(to) == IF to \in Local THEN to ELSE Gateway

-----------------------------------------------------------------------------
(* net.c: operators on the state s = [ready, ping, arp, tx, rx, next_id, started,       *)
(* accepted, load]; started counts the sessions, accepted is a history, the session that *)
(* the reply which completed this one was an answer to, and load one of Loads.           *)

Running(s) == s.ping.active /\ ~s.ping.completed
Sends(s, frame) == IF CanTransmit(s.tx) THEN [s EXCEPT !.tx = Transmit(@, frame)] ELSE s
PingComplete(s, result) == IF Running(s) THEN [s EXCEPT !.ping.completed = TRUE, !.ping.result = result] ELSE s

ProcessArp(s, f) ==
    LET cached == ArpCacheStore(s, f.from)
        staged == IF /\ Running(s) /\ s.ping.stage = "arp"
                     /\ f.from = s.ping.hop /\ f.kind = "arp_reply"
                    THEN [cached EXCEPT !.ping.stage = "echo", !.ping.next = 0]
                    ELSE cached
    IN  IF f.kind = "arp_request" /\ f.to = Me THEN Sends(staged, Frame("arp_reply", Me, f.from, 0, 0)) ELSE staged

\* Mutant: the identifier of a reply is not compared.
AcceptsAnyIdentifier(s, f) ==
    Running(s) /\ s.ping.stage = "echo" /\ f.from = s.ping.to

\* The session of a frame is a history: the code compares identifiers. Every request
\* has sequence number 1.
Accepts(s, f) ==
    Running(s) /\ s.ping.stage = "echo" /\ f.from = s.ping.to /\ f.id = s.ping.id

ProcessIcmp(s, f) ==
    IF f.kind = "echo_reply" /\ Accepts(s, f) THEN [PingComplete(s, "ok") EXCEPT !.accepted = f.session]
    ELSE IF f.kind = "echo_request" THEN Sends(s, Frame("echo_reply", Me, f.from, f.id, 0)) ELSE s

ProcessFrame(s, f) ==
    CASE f.kind \in {"arp_request", "arp_reply"} -> ProcessArp(s, f)
      [] f.kind \in {"echo_request", "echo_reply"} -> ProcessIcmp(s, f)
      [] OTHER -> s

\* Nothing is sent in the echo stage while the cache holds another host.
Request(s) ==
    IF s.ping.stage = "arp" THEN Frame("arp_request", Me, s.ping.hop, 0, 0)
    ELSE Frame("echo_request", Me, s.ping.to, s.ping.id, s.ping.session)

Expired(s, now) == ~Before(now, s.ping.deadline)

DrivePing(s, now) ==
    IF ~Running(s) THEN s
    ELSE IF Expired(s, now) THEN PingComplete(s, "timeout")
    ELSE IF \/ Before(now, s.ping.next)
            \/ s.ping.stage = "echo" /\ ~ArpCacheMatches(s, s.ping.hop) THEN s
    ELSE IF ~CanTransmit(s.tx) THEN [s EXCEPT !.ping.refused = TRUE]
    ELSE [Sends(s, Request(s)) EXCEPT !.ping.next = (now + RETRY) % Range2, !.ping.tried = TRUE]

RECURSIVE ReadFrames(_, _)
ReadFrames(s, budget) ==
    IF budget = 0 \/ ~CanReceive(s.rx) THEN s
    ELSE LET f    == Received(s.rx)
             read == [s EXCEPT !.rx = Recycle(@)]
         IN  ReadFrames(IF f.kind = "split" THEN read ELSE ProcessFrame(read, f), budget - 1)

NetPoll(s, now) == IF s.ready THEN DrivePing(ReadFrames(s, BUDGET), now) ELSE s

\* Mutant: a ping that goes on is replaced by another.
PingBusyIgnored(s) == FALSE

PingBusy(s) == Running(s)

\* A new session replaces a completed one. next_action_tick = 0 stands for "at once".
PingStart(s, pid, to, timeout, now) ==
    LET hop == RouteNextHop(to)
        new == [NoPing EXCEPT !.active = TRUE, !.owner = pid, !.to = to, !.hop = hop,
                              !.deadline = (now + (IF timeout = 0 THEN DEFAULT ELSE timeout)) % Range2,
                              !.id = s.next_id, !.stage = IF s.arp = hop THEN "echo" ELSE "arp",
                              !.session = s.started + 1, !.since = now]
    IN  DrivePing([s EXCEPT !.ping = new, !.next_id = (@ + 1) % IDS, !.started = @ + 1, !.accepted = 0], now)

\* net_ping4_poll_result: the result of a completed session of this task.
PollResult(s, pid) ==
    CASE ~s.ping.active \/ s.ping.owner # pid -> "invalid"
      [] s.ping.active /\ s.ping.owner = pid /\ ~s.ping.completed -> "blocked"
      [] s.ping.active /\ s.ping.owner = pid /\ s.ping.completed -> s.ping.result

-----------------------------------------------------------------------------
(* proc.c *)

\* proc_schedule, as far as a ping is concerned: net_poll, then every task blocked on a
\* ping asks for its result. Asking for the result ends the session.
ScheduleFrom(s, tasks, now) ==
    LET polled == NetPoll(s, now)
        done(p) == tasks[p] = "blocked" /\ PollResult(polled, p) \notin {"blocked", "invalid"}
    IN  /\ task' = [p \in Pids |-> IF tasks[p] = "blocked" THEN PollResult(polled, p) ELSE tasks[p]]
        /\ net' = IF \E p \in Pids : done(p) THEN [polled EXCEPT !.ping = NoPing] ELSE polled

\* What net_ping4_start turns down, at once and without a trace; the address 0.0.0.0 is
\* Nobody's.
Refuses(s, to) == ~s.ready \/ to = Nobody \/ PingBusy(s)

\* proc_sys_ping4
Ping(p, to, timeout) ==
    /\ task[p] # "blocked" /\ net.started < net.load.pings
    /\ IF Refuses(net, to)
         THEN UNCHANGED <<task, net>>
         ELSE ScheduleFrom(PingStart(net, p, to, timeout, tick), [task EXCEPT ![p] = "blocked"], tick)
    /\ UNCHANGED <<tick, wire>>

TimerInterrupt ==
    /\ tick' = (tick + 1) % Range2
    /\ ScheduleFrom(net, task, tick')
    /\ UNCHANGED wire

-----------------------------------------------------------------------------
(* External: the adapter and the network *)

AdapterSends ==
    /\ Sending(net.tx)
    /\ LET f == net.tx.desc[net.tx.head]
       IN  wire' = IF f.kind \in {"arp_request", "echo_request"} THEN wire \union {f} ELSE wire
    /\ net' = [net EXCEPT !.tx = Sent(@)]
    /\ UNCHANGED <<tick, task>>

AdapterStores(f) ==
    /\ net.ready /\ Storing(net.rx)
    /\ net' = [net EXCEPT !.rx = Stored(@, f)]
    /\ UNCHANGED <<tick, task, wire>>

Init ==
    /\ tick \in 0..Range2 - 1
    /\ \E adapter \in Adapters, load \in Loads :
         net = [ready |-> E1000Init(adapter), ping |-> NoPing, arp |-> Nobody, tx |-> TxProgrammed, rx |-> RxProgrammed, next_id |-> 1,
                started |-> 0, accepted |-> 0, load |-> load]
    /\ task = [p \in Pids |-> "ready"]
    /\ wire = {}

Next ==
    \/ \E p \in Pids, to \in Targets, timeout \in Timeouts : Ping(p, to, timeout)
    \/ TimerInterrupt
    \/ AdapterSends
    \/ \E f \in Inbound : AdapterStores(f)

Spec == Init /\ [][Next]_vars

-----------------------------------------------------------------------------
(* Properties *)

\* The sessions that a reply to session k cannot be told from: their identifiers are the same.
SameIdentifier(k) == {j \in 1..k : (k - j) % IDS = 0}

\* A ping reports success only on an answer to its own session, whatever late or repeated
\* answers to earlier sessions, of this task or another, still arrive: the answer that the
\* latest session took is one to this session, or to one that is a whole round of the
\* identifiers older (process_icmp, net_ping4_start). One that times out has sent a request,
\* unless the transmit ring refused it or the session reached into the upper half of the tick
\* range, where a next_action_tick of 0 lies in the future (drive_ping).
ResultEarned ==
    [][/\ net'.accepted # 0 => net'.accepted \in SameIdentifier(net'.started)
       /\ \A p \in Pids :
            /\ task'[p] = "ok" /\ task[p] # "ok" => net'.accepted # 0
            /\ task'[p] = "timeout" /\ task[p] = "blocked" =>
                 \/ net.ping.tried \/ net.ping.refused
                 \/ ~(net.ping.since < net.ping.deadline /\ net.ping.deadline <= HALF)]_vars

\* A task blocked on a ping owns the running session and has its deadline ahead of it: no
\* other call takes the session over, so the task is never told that its ping was invalid,
\* and the ping is over by its deadline however the network behaves, across the wrap of
\* the tick counter (net_ping4_start, net_ping4_poll_result, proc_service_blocked_net).
PingEnds ==
    \A p \in Pids : /\ task[p] = "blocked" => /\ Running(net) /\ net.ping.owner = p
                                              /\ Before(tick, net.ping.deadline)
                    /\ task[p] # "invalid"

\* The driver and the adapter agree on the rings: what the driver will read next is what
\* the adapter stored first, and what the adapter will send is what the driver handed
\* over. The exception is a transmit ring with every descriptor in use, which the adapter
\* takes for an empty one (e1000_transmit, e1000_receive).
RingsAgree == RxAgrees(net.rx) /\ (TxAgrees(net.tx) \/ TxStalled(net.tx))
=============================================================================
