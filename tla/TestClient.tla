----------------------------- MODULE TestClient -----------------------------
(***************************************************************************)
(* The test subscriber of clients/client.go, with the broker's receive     *)
(* path (BrokerRecv) at the other end of each connection.                  *)
(*                                                                         *)
(* Start's goroutine walks client.Services round robin: init (under        *)
(* client.lock: disconnect a connected node, dial, set isClose = false on  *)
(* success), the nil and isConnect checks, the isClose check, the          *)
(* handshake pack(CMD_SET_PRO, groupName), then the read loop until a read *)
(* fails (disconnect, next service) or isClose is seen (return).  The      *)
(* keepalive goroutine writes a TICK under the lock whenever a node        *)
(* exists.  Close (no caller in main) reads isClose, disconnects, then     *)
(* sets isClose under the lock.  A connection is a number; conn is         *)
(* client.node.conn (0 for nil).                                           *)
(*                                                                         *)
(* The broker reads each write whole and answers through tcp.go's          *)
(* onMessage; the handshake carries no weight, so it is answered ERROR and *)
(* the connection never joins (its 3-second read deadline stays set).      *)
(* With Faults the network may also fail a connection, losing the bytes   *)
(* in flight from any byte on.  got is the commands of the frames          *)
(* onMessage decoded (their content is only logged).                       *)
(***************************************************************************)
EXTENDS Frame, SequencesExt

CONSTANTS
    Services,   \* client.Services: each entry's groupName (bytes), in order
    Groups,     \* the groups configured at the brokers
    RecvSize,   \* the broker's TCP_RECV_DEFAULT_SIZE (scaled)
    ReadSize,   \* tcpDefaultReadBufferSize (scaled): the most a Read returns
    Closable,   \* Close is called (once)
    Faults,     \* the network may fail a connection
    MaxDials,   \* bound on successful dials
    MaxTicks    \* bound on keepalives

ASSUME Len(Services) >= 1 /\ ReadSize >= 1

\* Start's keepalive := client.pack(CMD_TICK, "") and clientH.
KeepaliveFrame == ClientPack(CMD_TICK, <<>>)
ClientH(i) == ClientPack(CMD_SET_PRO, Services[i])

LOCAL BR == INSTANCE BrokerRecv
    WITH Stream <- <<>>, Groups <- Groups, RecvSize <- RecvSize, ReadSize <- RecvSize,
         pos <- 0, buf <- <<>>, blen <- 0, recvBytes <- 0, replies <- <<>>,
         group <- <<>>, closed <- FALSE, panicked <- FALSE

\* onConnect's state of a new broker connection.
SrvInit == [buf |-> BR!Zeros, blen |-> RecvSize, rb |-> 0, out |-> <<>>,
            group |-> <<>>, ret |-> FALSE, panic |-> FALSE]

\* The frames the broker's sender writes for its replies (tcp.pack).
ReplyFrame(cmd) == IF cmd = CMD_ERROR THEN Pack(CMD_ERROR, <<63>>) ELSE Pack(cmd, <<111, 107>>)
ReplyBytes(cmds) == FlattenSeq([i \in 1..Len(cmds) |-> ReplyFrame(cmds[i])])

VARIABLES
    spc,        \* where Start is: init, check, hs, read, blocked, done
    idx,        \* the entry of client.Services being used
    hasNode,    \* client.node # nil
    conn,       \* client.node.conn: 0 or the connection's number
    isConnect,  \* client.node.isConnect
    isClose,    \* client.isClose
    cpc,        \* where Close is: idle, disconnect, set, done, noop
    dials,      \* connections dialled so far
    closed,     \* connections the client has closed
    broken,     \* connections the broker or the network closed
    srv,        \* the broker's onMessage state for the current connection
    inbox,      \* bytes the broker sent on the current connection, unread
    buffer,     \* client.buffer
    got,        \* commands of the frames onMessage decoded
    ticks,      \* keepalives written
    panicked    \* a slice bound in onMessage was out of range

vars == <<spc, idx, hasNode, conn, isConnect, isClose, cpc, dials, closed, broken,
          srv, inbox, buffer, got, ticks, panicked>>

Open(c) == c # 0 /\ c \notin closed /\ c \notin broken
\* The range loop over client.Services, round robin in the outer for.
\* An index that runs past the last service (no wrap to the first).
NextServiceNoWrap == idx + 1
NextService == (idx % Len(Services)) + 1

\* int(b[0]) | int(b[1]) << 8 | int(b[2]) << 16 | int(b[3]) << 24 (a length
\* with b[3] > 0 is beyond any buffer here and is given as 2^24).
ContentLen(b) == IF b[4] = 0 THEN b[1] + 256 * b[2] + 65536 * b[3] ELSE 2^24

\* onMessage's loop after client.buffer = append(client.buffer, msg...):
\* wait for 4 + contentLen bytes, take dataB = buffer[6 : 4 + contentLen]
\* (a panic when contentLen < 2), count and log the frame, drop it.
RECURSIVE ClientDecode(_)
ClientDecode(s) ==
    IF s.panic \/ Len(s.buf) < 6 THEN s
    ELSE LET cl == ContentLen(s.buf)
         IN  IF Len(s.buf) < 4 + cl THEN s
             ELSE IF 6 > 4 + cl THEN [s EXCEPT !.panic = TRUE]
             ELSE ClientDecode([s EXCEPT !.got = Append(@, s.buf[5] + 256 * s.buf[6]),
                                         !.buf = SubSeq(@, 5 + cl, Len(@))])

\* The broker reads msg on the current connection and answers; a panic of
\* the broker ends the connection.
BrokerReads(msg) ==
    LET r == BR!OnMessage([srv EXCEPT !.rb = @ + Len(msg), !.out = <<>>, !.ret = FALSE], msg)
    IN  /\ srv' = r
        /\ inbox' = inbox \o ReplyBytes(r.out)
        /\ broken' = IF r.panic THEN broken \cup {conn} ELSE broken

\* disconnect() clearing isConnect without closing the connection.
DisconnectNoClose ==
    IF ~hasNode \/ ~isConnect THEN UNCHANGED <<closed, isConnect>>
    ELSE UNCHANGED closed /\ isConnect' = FALSE

\* disconnect(): nothing without a node or when it is not connected;
\* otherwise close the connection and clear isConnect.
Disconnect ==
    IF ~hasNode \/ ~isConnect THEN UNCHANGED <<closed, isConnect>>
    ELSE closed' = closed \cup {conn} /\ isConnect' = FALSE

-----------------------------------------------------------------------------
\* NewClient, then Start: isClose true, no node, an empty buffer.
Init ==
    /\ spc = "init" /\ idx = 1
    /\ hasNode = FALSE /\ conn = 0 /\ isConnect = FALSE
    /\ isClose = TRUE /\ cpc = "idle"
    /\ dials = 0 /\ closed = {} /\ broken = {}
    /\ srv = SrvInit /\ inbox = <<>>
    /\ buffer = <<>> /\ got = <<>>
    /\ ticks = 0 /\ panicked = FALSE

\* init(ip, port) holding client.lock.  A connected node makes it call
\* disconnect(), which locks client.lock again: Start blocks for ever.
\* Otherwise DialTCP succeeds: a new node, isConnect true, isClose false.
InitDial ==
    /\ spc = "init" /\ ~panicked
    /\ (hasNode /\ isConnect) \/ dials < MaxDials
    /\ IF hasNode /\ isConnect
       THEN /\ spc' = "blocked"
            /\ UNCHANGED <<hasNode, conn, isConnect, isClose, dials, srv, inbox>>
       ELSE /\ dials' = dials + 1
            /\ hasNode' = TRUE /\ conn' = dials + 1 /\ isConnect' = TRUE
            /\ isClose' = FALSE
            /\ srv' = SrvInit /\ inbox' = <<>>
            /\ spc' = "check"
    /\ UNCHANGED <<idx, cpc, closed, broken, buffer, got, ticks, panicked>>

\* DialTCP fails: a node with conn nil and isConnect false; Start sees
\* conn nil, sleeps and goes on with the next service.
InitDialFail ==
    /\ spc = "init" /\ ~panicked
    /\ ~(hasNode /\ isConnect)
    /\ hasNode' = TRUE /\ conn' = 0 /\ isConnect' = FALSE
    /\ idx' = NextService
    /\ UNCHANGED <<spc, isClose, cpc, dials, closed, broken, srv, inbox, buffer, got,
                   ticks, panicked>>

\* The isConnect check: Close may have disconnected the new node.
CheckNotConnected ==
    /\ spc = "check" /\ ~isConnect
    /\ spc' = "init" /\ idx' = NextService
    /\ UNCHANGED <<hasNode, conn, isConnect, isClose, cpc, dials, closed, broken, srv,
                   inbox, buffer, got, ticks, panicked>>

\* if client.isClose { return }, else write clientH (a failed write is
\* ignored) and enter the read loop.
Handshake ==
    /\ spc = "check" /\ isConnect
    /\ IF isClose
       THEN spc' = "done" /\ UNCHANGED <<srv, inbox, broken>>
       ELSE /\ spc' = "read"
            /\ IF Open(conn) THEN BrokerReads(ClientH(idx)) ELSE UNCHANGED <<srv, inbox, broken>>
    /\ UNCHANGED <<idx, hasNode, conn, isConnect, isClose, cpc, dials, closed, buffer, got,
                   ticks, panicked>>

\* The read loop sees isClose and returns.
ReadReturns ==
    /\ spc = "read" /\ isClose
    /\ spc' = "done"
    /\ UNCHANGED <<idx, hasNode, conn, isConnect, isClose, cpc, dials, closed, broken, srv,
                   inbox, buffer, got, ticks, panicked>>

\* A read returns n bytes and onMessage decodes them.
Read(n) ==
    /\ spc = "read" /\ ~isClose /\ ~panicked
    /\ conn \notin closed
    /\ n <= Len(inbox)
    /\ LET r == ClientDecode([buf |-> buffer \o SubSeq(inbox, 1, n), got |-> got, panic |-> FALSE])
       IN  buffer' = r.buf /\ got' = r.got /\ panicked' = r.panic
    /\ inbox' = SubSeq(inbox, n + 1, Len(inbox))
    /\ UNCHANGED <<spc, idx, hasNode, conn, isConnect, isClose, cpc, dials, closed, broken,
                   srv, ticks>>

\* The failed read leaving the loop without disconnect().
ReadErrorNoDisconnect ==
    /\ spc = "read" /\ ~isClose
    /\ conn \in closed \/ (conn \in broken /\ inbox = <<>>)
    /\ spc' = "init" /\ idx' = NextService
    /\ UNCHANGED <<hasNode, conn, isConnect, isClose, cpc, dials, closed, broken, srv, inbox,
                   buffer, got, ticks, panicked>>

\* A read fails (the client closed the connection, or it was closed at the
\* other end and everything sent is read): disconnect, next service.
ReadError ==
    /\ spc = "read" /\ ~isClose
    /\ conn \in closed \/ (conn \in broken /\ inbox = <<>>)
    /\ Disconnect
    /\ spc' = "init" /\ idx' = NextService
    /\ UNCHANGED <<hasNode, conn, isClose, cpc, dials, broken, srv, inbox, buffer, got,
                   ticks, panicked>>

\* keepalive: with a node, under client.lock, write a TICK when conn is not
\* nil; a write on a closed connection fails and is ignored.
Keepalive ==
    /\ hasNode /\ ~panicked
    /\ ticks < MaxTicks
    /\ ticks' = ticks + 1
    /\ IF Open(conn) THEN BrokerReads(KeepaliveFrame) ELSE UNCHANGED <<srv, inbox, broken>>
    /\ UNCHANGED <<spc, idx, hasNode, conn, isConnect, isClose, cpc, dials, closed, buffer,
                   got, panicked>>

\* Close(): return when isClose is set, else disconnect() ...
CloseStart ==
    /\ Closable /\ cpc = "idle" /\ ~panicked
    /\ cpc' = IF isClose THEN "noop" ELSE "disconnect"
    /\ UNCHANGED <<spc, idx, hasNode, conn, isConnect, isClose, dials, closed, broken, srv,
                   inbox, buffer, got, ticks, panicked>>

CloseDisconnect ==
    /\ cpc = "disconnect"
    /\ Disconnect
    /\ cpc' = "set"
    /\ UNCHANGED <<spc, idx, hasNode, conn, isClose, dials, broken, srv, inbox, buffer, got,
                   ticks, panicked>>

\* ... then isClose = true under client.lock.
CloseSet ==
    /\ cpc = "set"
    /\ isClose' = TRUE /\ cpc' = "done"
    /\ UNCHANGED <<spc, idx, hasNode, conn, isConnect, dials, closed, broken, srv, inbox,
                   buffer, got, ticks, panicked>>

\* The broker's 3-second read deadline fires on a connection that has not
\* joined: onClose; what its sender wrote before is delivered.
BrokerTimeout ==
    /\ Open(conn) /\ srv.group = <<>>
    /\ broken' = broken \cup {conn}
    /\ UNCHANGED <<spc, idx, hasNode, conn, isConnect, isClose, cpc, dials, closed, srv,
                   inbox, buffer, got, ticks, panicked>>

\* The network fails the connection; the bytes in flight after any byte
\* are lost.
ConnLost ==
    /\ Faults /\ Open(conn)
    /\ broken' = broken \cup {conn}
    /\ \E j \in 0..Len(inbox) : inbox' = SubSeq(inbox, 1, j)
    /\ UNCHANGED <<spc, idx, hasNode, conn, isConnect, isClose, cpc, dials, closed, srv,
                   buffer, got, ticks, panicked>>

Next ==
    \/ InitDial \/ InitDialFail \/ CheckNotConnected \/ Handshake
    \/ ReadReturns \/ \E n \in 1..ReadSize : Read(n)
    \/ ReadError \/ Keepalive
    \/ CloseStart \/ CloseDisconnect \/ CloseSet
    \/ BrokerTimeout \/ ConnLost

Spec == Init /\ [][Next]_vars

-----------------------------------------------------------------------------
TypeOK ==
    /\ spc \in {"init", "check", "read", "blocked", "done"}
    /\ idx \in 1..Len(Services)
    /\ hasNode \in BOOLEAN /\ conn \in 0..MaxDials /\ isConnect \in BOOLEAN
    /\ isClose \in BOOLEAN
    /\ cpc \in {"idle", "disconnect", "set", "done", "noop"}
    /\ dials \in 0..MaxDials
    /\ closed \subseteq 1..MaxDials /\ broken \subseteq 1..MaxDials
    /\ inbox \in Seq(Byte) /\ buffer \in Seq(Byte)
    /\ got \in Seq(Nat) /\ ticks \in 0..MaxTicks /\ panicked \in BOOLEAN

\* init never finds its node connected: it would call disconnect(), which
\* locks the client.lock init already holds, and Start would hang.  Every
\* way out of the read loop (a failed read, Close) must leave isConnect
\* false before Start comes back to init.
NoSelfDeadlock == spc # "blocked"

\* Every connection the client dialled, other than client.node.conn, has
\* been closed by the client: init replaces the node only after the read
\* loop's or Close's disconnect, whatever the keepalive and Close
\* goroutines did in between.
NoLeakedConnection == \A c \in 1..dials : c # conn => c \in closed

\* Once Close has returned, the client stays closed: isClose is not set
\* back to false and Start dials nothing more.
StaysClosed == cpc = "done" => isClose

====
