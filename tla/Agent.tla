------------------------------- MODULE Agent -------------------------------
(***************************************************************************)
(* The forwarding agent of library/services/service_agent.go, with the     *)
(* leader's broker at the other end of its connection.                     *)
(*                                                                         *)
(* Three goroutines share the Agent: Start (dial, handshake, read loop),   *)
(* keepalive (a TICK every 3 s) and the caller of Close.  status is the    *)
(* set of bits of ag.status (Offline, Online, Connect, Disconnect),        *)
(* changed with ^= and |= as in the code, without a lock.  A connection    *)
(* is a number; node is ag.node.conn (0 for nil).  inbox is the bytes the  *)
(* leader has sent on the current connection and the agent has not read   *)
(* yet.  buffer is ag.buffer, never cleared when the agent connects again. *)
(*                                                                         *)
(* The leader's broker decodes the handshake with BrokerRecv's onMessage:  *)
(* pack(CMD_AGENT, "") is answered ERROR and joins no group.  With         *)
(* SpecHandshake the agent sends instead the SET_PRO of spec 4.5 ("the     *)
(* same handshake as a normal subscriber").  Only a connection in a group  *)
(* receives EVENTs, and every TICK is answered.                            *)
(* With Faults a connection can fail at any time (the 3-second read       *)
(* deadline of an unadmitted connection, the leader's exit, the network),  *)
(* and the bytes in flight are lost from any byte on.                      *)
(*                                                                         *)
(* json.Unmarshal of an EVENT's content succeeds exactly on the payloads   *)
(* the leader sends (Events).  sendAllChan1 is a channel of capacity       *)
(* Chan1Cap whose reader is outside the repository; an event decoded while *)
(* it is full is dropped.                                                  *)
(***************************************************************************)
EXTENDS Frame, SequencesExt

CONSTANTS
    Events,       \* EVENT payloads the leader may send (byte sequences)
    CMD_AGENT,    \* the agent's handshake command (not one the broker knows)
    SpecHandshake,\* the agent sends the SET_PRO of spec 4.5 for its handshake
    AgentGroup,   \* the broker's group an agent joins (its name's bytes)
    Faults,       \* connections may fail
    ReadSize,     \* tcpDefaultReadBufferSize
    Chan1Cap,     \* cap(sendAllChan1)
    MaxConns,     \* bound on connections dialled
    MaxEvents,    \* bound on events the leader sends
    MaxTicks      \* bound on keepalives

Offline == "offline"
Online == "online"
Connect == "connect"
Disconnect == "disconnect"

\* Start's agentH := pack(CMD_AGENT, ""), or a SET_PRO with weight 0.
AgentH == IF SpecHandshake THEN Pack(CMD_SET_PRO, <<0, 0, 0, 0>> \o AgentGroup)
          ELSE Pack(CMD_AGENT, <<>>)

\* The leader's broker reading the handshake on a new connection, in one read.
LOCAL BR == INSTANCE BrokerRecv
    WITH Stream <- <<AgentH>>, Groups <- {AgentGroup}, RecvSize <- 4096, ReadSize <- 1024,
         pos <- 0, buf <- <<>>, blen <- 0, recvBytes <- 0, replies <- <<>>,
         group <- <<>>, closed <- FALSE, panicked <- FALSE
HandshakeAnswer ==
    BR!OnMessage([buf |-> BR!Zeros, blen |-> 4096, rb |-> Len(AgentH), out |-> <<>>,
                  group |-> <<>>, ret |-> FALSE, panic |-> FALSE], AgentH)

\* The frames the broker's sender writes for its replies (tcp.pack).
ReplyFrame(cmd) == IF cmd = CMD_ERROR THEN Pack(CMD_ERROR, <<63>>) ELSE Pack(cmd, <<111, 107>>)
ReplyBytes(cmds) == FlattenSeq([i \in 1..Len(cmds) |-> ReplyFrame(cmds[i])])

VARIABLES
    status,       \* ag.status
    spc,          \* where Start is: idle, loop, dial, dialled, read, done
    node,         \* ag.node.conn: 0 or the connection's number
    conns,        \* connections dialled so far
    closedConns,  \* connections the agent has closed
    broken,       \* connections that failed at the leader's side or between
    joined,       \* the leader admitted the current connection
    inbox,        \* bytes sent on the current connection, not yet read
    buffer,       \* ag.buffer
    decoded,      \* EVENT payloads onMessage decoded, in order (pushed or dropped)
    chan1,        \* events in sendAllChan1 not yet taken by its reader
    connRead,     \* bytes read on the current connection
    refDone,      \* events the connections before the current one carried
    sent,         \* events the leader has sent
    ticks,        \* keepalives written
    cpc,          \* where the caller of Close is: idle, offline, done
    toggling,     \* goroutines between disconnect's Connect test and its ^=
    panicked      \* a slice bound was out of range

vars == <<status, spc, node, conns, closedConns, broken, joined, inbox, buffer,
          decoded, chan1, connRead, refDone, sent, ticks, cpc, toggling, panicked>>

Goroutines == {"start", "keepalive", "close"}

Open(c) == c # 0 /\ c \notin closedConns /\ c \notin broken

-----------------------------------------------------------------------------
\* int(b[0]) | int(b[1]) << 8 | int(b[2]) << 16 | int(b[3]) << 24; a length
\* with b[3] > 0 is 2^24 or more, longer than any buffer here, and is given
\* as 2^24 (TLC's integers are 32-bit).
ContentLen(b) == IF b[4] = 0 THEN b[1] + 256 * b[2] + 65536 * b[3] ELSE 2^24

\* `if len(sendAllChan1) < cap(sendAllChan1) { sendAllChan1 <- data }`,
\* else the event is dropped with a warning (service_agent.go 206-210).
\* Mutant: the capacity test off by one.
Push1OffByOne(s) == IF s.chan <= Chan1Cap THEN [s EXCEPT !.chan = @ + 1] ELSE s
Push1(s) == IF s.chan < Chan1Cap THEN [s EXCEPT !.chan = @ + 1] ELSE s

\* onMessage dropping contentLen + 3 bytes of a handled frame.
RECURSIVE AgentDecodeKeepsByte(_)
AgentDecodeKeepsByte(s) ==
    IF s.panic \/ Len(s.buf) < 6 THEN s
    ELSE LET cl == ContentLen(s.buf)
             data == SubSeq(s.buf, 7, 4 + cl)
         IN  IF Len(s.buf) < 4 + cl THEN s
             ELSE IF 6 > 4 + cl THEN [s EXCEPT !.panic = TRUE]
             ELSE LET t == [s EXCEPT !.buf = SubSeq(@, 4 + cl, Len(@))]
                  IN  AgentDecodeKeepsByte(
                        IF s.buf[5] = CMD_EVENT /\ data \in Events
                        THEN Push1([t EXCEPT !.decoded = Append(@, data)]) ELSE t)

\* onMessage's loop after ag.buffer = append(ag.buffer, msg...): wait for
\* 4 + contentLen bytes, slice dataB = buffer[6 : 4 + contentLen] (a panic
\* when contentLen < 2); an EVENT whose JSON parses is decoded and pushed
\* on sendAllChan1 unless it is full; a TICK is ignored; then the frame is
\* dropped.  Other commands go to sendAllChan2 (not kept here).
RECURSIVE AgentDecode(_)
AgentDecode(s) ==
    IF s.panic \/ Len(s.buf) < 6 THEN s
    ELSE LET cl == ContentLen(s.buf)
             cmd == s.buf[5] + 256 * s.buf[6]
         IN  IF Len(s.buf) < 4 + cl THEN s
             ELSE IF 6 > 4 + cl THEN [s EXCEPT !.panic = TRUE]
             ELSE LET data == SubSeq(s.buf, 7, 4 + cl)
                      t    == [s EXCEPT !.buf = SubSeq(@, 5 + cl, Len(@))]
                  IN  AgentDecode(IF cmd = CMD_EVENT /\ data \in Events
                                  THEN Push1([t EXCEPT !.decoded = Append(@, data)]) ELSE t)

\* disconnect() in two steps, as two goroutines can interleave them: first
\* return when ag.node is nil or the Disconnect bit is set, else close the
\* connection and test the Connect bit (service_agent.go 157-162); then,
\* if it was set, status ^= Connect; status |= Disconnect (163-164).
\* toggling holds the goroutines between the two steps.
Disconnected(st) == node = 0 \/ Disconnect \in st
DisconnectConns(st) == IF Disconnected(st) THEN closedConns ELSE closedConns \cup {node}
DisconnectBegin(g, st) ==
    /\ closedConns' = DisconnectConns(st)
    /\ toggling' = IF ~Disconnected(st) /\ Connect \in st THEN toggling \cup {g} ELSE toggling

Toggle(st, bit) == IF bit \in st THEN st \ {bit} ELSE st \cup {bit}
DisconnectStatus(st) == Toggle(st, Connect) \cup {Disconnect}

\* Reference: the EVENT payloads of the whole frames of one connection's
\* bytes, read from a frame boundary (the leader's frames are short).
RECURSIVE RefEvents(_)
RefEvents(bs) ==
    IF Len(bs) < 6 \/ Len(bs) < 4 + bs[1] THEN <<>>
    ELSE (IF bs[5] = CMD_EVENT THEN <<SubSeq(bs, 7, 4 + bs[1])>> ELSE <<>>)
         \o RefEvents(SubSeq(bs, 5 + bs[1], Len(bs)))

-----------------------------------------------------------------------------
\* newAgent: status Offline | Disconnect, an empty buffer, no node.
Init ==
    /\ status = {Offline, Disconnect}
    /\ spc = "idle" /\ cpc = "idle" /\ toggling = {}
    /\ node = 0 /\ conns = 0
    /\ closedConns = {} /\ broken = {}
    /\ joined = FALSE /\ inbox = <<>>
    /\ buffer = <<>> /\ decoded = <<>> /\ chan1 = 0
    /\ connRead = <<>> /\ refDone = <<>>
    /\ sent = 0 /\ ticks = 0 /\ panicked = FALSE

\* Start(ip, port) (ip and port given): Offline becomes Online.
Start ==
    /\ spc = "idle"
    /\ Connect \notin status
    /\ status' = IF Offline \in status THEN Toggle(status, Offline) \cup {Online} ELSE status
    /\ spc' = "loop"
    /\ UNCHANGED <<node, conns, closedConns, broken, joined, inbox, buffer, decoded, chan1,
                   connRead, refDone, sent, ticks, cpc, toggling, panicked>>

\* Start's own steps wait for its disconnect to finish.
StartFree == "start" \notin toggling

\* The outer loop and the read loop return when the Offline bit is set.
StartReturns ==
    /\ spc \in {"loop", "read"} /\ StartFree
    /\ Offline \in status
    /\ spc' = "done"
    /\ UNCHANGED <<status, node, conns, closedConns, broken, joined, inbox, buffer,
                   decoded, chan1, connRead, refDone, sent, ticks, cpc, toggling, panicked>>

\* Outer loop, not Offline: nodeInit disconnects an old connection.
NodeInit ==
    /\ spc = "loop" /\ StartFree
    /\ Offline \notin status
    /\ IF node # 0 THEN DisconnectBegin("start", status) ELSE UNCHANGED <<closedConns, toggling>>
    /\ spc' = "dial"
    /\ UNCHANGED <<status, node, conns, broken, joined, inbox, buffer, decoded, chan1,
                   connRead, refDone, sent, ticks, cpc, panicked>>

\* nodeInit dials: ag.node.conn is the new connection; the buffer stays.
Dial ==
    /\ spc = "dial" /\ StartFree
    /\ conns < MaxConns
    /\ conns' = conns + 1
    /\ node' = conns + 1
    /\ joined' = FALSE /\ inbox' = <<>>
    /\ refDone' = refDone \o RefEvents(connRead) /\ connRead' = <<>>
    /\ spc' = "dialled"
    /\ UNCHANGED <<status, closedConns, broken, buffer, decoded, chan1, sent, ticks, cpc,
                   toggling, panicked>>

\* DialTCP fails: ag.node.conn = nil; sleep 3 s and continue.
DialFail ==
    /\ spc = "dial" /\ StartFree
    /\ node' = 0
    /\ spc' = "loop"
    /\ UNCHANGED <<status, conns, closedConns, broken, joined, inbox, buffer, decoded, chan1,
                   connRead, refDone, sent, ticks, cpc, toggling, panicked>>

\* Disconnect becomes Connect, then the handshake is written.  The broker
\* answers it (and admits the connection or not); a failed write
\* disconnects and goes round the outer loop.
Handshake ==
    /\ spc = "dialled" /\ StartFree
    /\ LET st == IF Disconnect \in status THEN Toggle(status, Disconnect) \cup {Connect}
                 ELSE status
       IN  /\ status' = st
           /\ IF Open(node)
              THEN /\ inbox' = inbox \o ReplyBytes(HandshakeAnswer.out)
                   /\ joined' = (HandshakeAnswer.group # <<>>)
                   /\ spc' = "read"
                   /\ UNCHANGED <<closedConns, toggling>>
              ELSE /\ DisconnectBegin("start", st)
                   /\ spc' = "loop"
                   /\ UNCHANGED <<inbox, joined>>
    /\ UNCHANGED <<node, conns, broken, buffer, decoded, chan1, connRead, refDone, sent,
                   ticks, cpc, panicked>>

\* A read loop that waits for a full buffer (io.ReadFull) before onMessage.
ReadFull(n) ==
    /\ spc = "read" /\ StartFree
    /\ Offline \notin status
    /\ node \notin closedConns
    /\ n = ReadSize /\ n <= Len(inbox)
    /\ LET msg == SubSeq(inbox, 1, n)
           r   == AgentDecode([buf |-> buffer \o msg, decoded |-> decoded, chan |-> chan1,
                               panic |-> FALSE])
       IN  /\ buffer' = r.buf /\ decoded' = r.decoded /\ chan1' = r.chan
           /\ panicked' = r.panic
           /\ inbox' = SubSeq(inbox, n + 1, Len(inbox))
           /\ connRead' = connRead \o msg
    /\ UNCHANGED <<status, spc, node, conns, closedConns, broken, joined, refDone, sent,
                   ticks, cpc, toggling>>

\* The read loop, not Offline: a read returns n bytes and onMessage runs.
Read(n) ==
    /\ spc = "read" /\ StartFree
    /\ Offline \notin status
    /\ node \notin closedConns
    /\ n <= Len(inbox)
    /\ LET msg == SubSeq(inbox, 1, n)
           r   == AgentDecode([buf |-> buffer \o msg, decoded |-> decoded, chan |-> chan1,
                               panic |-> FALSE])
       IN  /\ buffer' = r.buf /\ decoded' = r.decoded /\ chan1' = r.chan
           /\ panicked' = r.panic
           /\ inbox' = SubSeq(inbox, n + 1, Len(inbox))
           /\ connRead' = connRead \o msg
    /\ UNCHANGED <<status, spc, node, conns, closedConns, broken, joined, refDone, sent,
                   ticks, cpc, toggling>>

\* A read fails (the connection was closed, or it failed and all its bytes
\* are read): disconnect and go round the outer loop.
ReadError ==
    /\ spc = "read" /\ StartFree
    /\ Offline \notin status
    /\ node \in closedConns \/ (node \in broken /\ inbox = <<>>)
    /\ DisconnectBegin("start", status)
    /\ spc' = "loop"
    /\ UNCHANGED <<status, node, conns, broken, joined, inbox, buffer, decoded, chan1,
                   connRead, refDone, sent, ticks, cpc, panicked>>

\* keepalive: with a connection, neither Disconnect nor Offline, write a
\* TICK; the broker answers it, or the write fails and disconnects.
Keepalive ==
    /\ "keepalive" \notin toggling
    /\ node # 0 /\ Disconnect \notin status /\ Offline \notin status
    /\ ticks < MaxTicks
    /\ ticks' = ticks + 1
    /\ IF Open(node)
       THEN inbox' = inbox \o ReplyFrame(CMD_TICK) /\ UNCHANGED <<closedConns, toggling>>
       ELSE DisconnectBegin("keepalive", status) /\ UNCHANGED inbox
    /\ UNCHANGED <<status, spc, node, conns, broken, joined, buffer, decoded, chan1,
                   connRead, refDone, sent, cpc, panicked>>

\* The second step of goroutine g's disconnect: the ^= and |= on status.
DisconnectEnd(g) ==
    /\ g \in toggling
    /\ status' = DisconnectStatus(status)
    /\ toggling' = toggling \ {g}
    /\ UNCHANGED <<spc, node, conns, closedConns, broken, joined, inbox, buffer, decoded,
                   chan1, connRead, refDone, sent, ticks, cpc, panicked>>

\* The leader's SendAll pushes an event to the connection, a group member.
LeaderEvent(e) ==
    /\ joined /\ Open(node)
    /\ sent < MaxEvents
    /\ sent' = sent + 1
    /\ inbox' = inbox \o Pack(CMD_EVENT, e)
    /\ UNCHANGED <<status, spc, node, conns, closedConns, broken, joined, buffer, decoded,
                   chan1, connRead, refDone, ticks, cpc, toggling, panicked>>

\* The connection fails; the bytes in flight after any byte are lost.
ConnLost ==
    /\ Faults
    /\ Open(node)
    /\ broken' = broken \cup {node}
    /\ \E j \in 0..Len(inbox) : inbox' = SubSeq(inbox, 1, j)
    /\ UNCHANGED <<status, spc, node, conns, closedConns, joined, buffer, decoded, chan1,
                   connRead, refDone, sent, ticks, cpc, toggling, panicked>>

\* Close(): return when Offline, else disconnect ...
Close ==
    /\ cpc = "idle"
    /\ IF Offline \in status
       THEN cpc' = "done" /\ UNCHANGED <<closedConns, toggling>>
       ELSE cpc' = "offline" /\ DisconnectBegin("close", status)
    /\ UNCHANGED <<status, spc, node, conns, broken, joined, inbox, buffer, decoded, chan1,
                   connRead, refDone, sent, ticks, panicked>>

\* ... then Online becomes Offline.
CloseOffline ==
    /\ cpc = "offline" /\ "close" \notin toggling
    /\ status' = IF Online \in status THEN Toggle(status, Online) \cup {Offline} ELSE status
    /\ cpc' = "done"
    /\ UNCHANGED <<spc, node, conns, closedConns, broken, joined, inbox, buffer, decoded,
                   chan1, connRead, refDone, sent, ticks, toggling, panicked>>

\* The reader of sendAllChan1 (outside the repository) takes an event.
Consume ==
    /\ chan1 > 0
    /\ chan1' = chan1 - 1
    /\ UNCHANGED <<status, spc, node, conns, closedConns, broken, joined, inbox, buffer,
                   decoded, connRead, refDone, sent, ticks, cpc, toggling, panicked>>

Next ==
    \/ Start \/ StartReturns \/ NodeInit \/ Dial \/ DialFail \/ Handshake
    \/ \E n \in 1..ReadSize : Read(n)
    \/ ReadError \/ Keepalive
    \/ \E g \in Goroutines : DisconnectEnd(g)
    \/ \E e \in Events : LeaderEvent(e)
    \/ ConnLost \/ Close \/ CloseOffline \/ Consume

\* Start is one goroutine: while it can take a step (dial, handshake, a read
\* that has bytes to return, a failed read, the end of its disconnect, a
\* return) it takes one.  The leader, the network, keepalive's timer, the
\* caller of Close and the reader of sendAllChan1 get no fairness.
StartStep ==
    \/ Start \/ StartReturns \/ NodeInit \/ Dial \/ DialFail \/ Handshake
    \/ \E n \in 1..ReadSize : Read(n)
    \/ ReadError \/ DisconnectEnd("start")

Spec == Init /\ [][Next]_vars /\ WF_vars(StartStep)

-----------------------------------------------------------------------------
TypeOK ==
    /\ status \subseteq {Offline, Online, Connect, Disconnect}
    /\ spc \in {"idle", "loop", "dial", "dialled", "read", "done"}
    /\ cpc \in {"idle", "offline", "done"} /\ toggling \subseteq Goroutines
    /\ node \in 0..MaxConns /\ conns \in 0..MaxConns
    /\ closedConns \subseteq 1..MaxConns /\ broken \subseteq 1..MaxConns
    /\ joined \in BOOLEAN /\ inbox \in Seq(Byte) /\ buffer \in Seq(Byte)
    /\ decoded \in Seq(Seq(Byte)) /\ chan1 \in 0..Chan1Cap
    /\ connRead \in Seq(Byte) /\ refDone \in Seq(Seq(Byte))
    /\ sent \in 0..MaxEvents /\ ticks \in 0..MaxTicks
    /\ panicked \in BOOLEAN

\* ag.status holds exactly one of Online and Offline and one of Connect and
\* Disconnect (spec 4.5's state machine), whatever order Start, keepalive
\* and Close run the two steps of their disconnect in (service_agent.go
\* 65, 73, 125, 142, 174: no lock is taken around the test and the ^=).
StatusBitsExclusive ==
    status \in {{on, c} : on \in {Online, Offline}, c \in {Connect, Disconnect}}

\* onMessage decodes exactly the events of the whole EVENT frames the
\* agent has read, in order, each connection's bytes decoded from that
\* connection's first byte: no event is lost, duplicated or misframed
\* whatever sizes the reads return (sendAllChan1 may still drop one when
\* it is full, the backpressure of spec 4.2).
EventsDecoded == decoded = refDone \o RefEvents(connRead)

\* Once Close has returned and Start has returned, the agent holds no open
\* connection to the leader: Close's disconnect or Start's exit closed it.
NoConnectionAfterClose ==
    (cpc = "done" /\ spc = "done") => (node = 0 \/ node \in closedConns \/ node \in broken)

\* Whenever Start's read loop runs on an open connection, the leader's
\* broker has admitted that connection to a group, so events can reach it
\* (spec 4.5: the agent performs the handshake of a normal subscriber).
HandshakeAdmits == (spc = "read" /\ Open(node)) => joined

\* An event the leader has sent on the agent's connection is eventually
\* decoded, unless that connection is lost or closed or the agent is
\* closed: Start's read loop keeps reading while the leader's bytes are
\* in flight, and onMessage decodes every frame they complete.
EventsEventuallyDecoded ==
    (sent > Len(decoded)) ~> (Len(decoded) >= sent \/ ~Open(node) \/ Offline \in status)

=============================================================================
