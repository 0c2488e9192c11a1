----------------------------- MODULE BrokerRecv -----------------------------
(***************************************************************************)
(* The receive path of one broker connection (library/services/tcp.go     *)
(* onConnect's read loop and onMessage), at byte level.                    *)
(*                                                                         *)
(* A peer writes the frames of Stream to the connection; TCP delivers the  *)
(* bytes in order, in reads of 1..ReadSize bytes (TCP_DEFAULT_READ_BUFFER_ *)
(* SIZE).  Every read adds its size to recv_bytes and calls onMessage,     *)
(* which appends the read to recv_buf[:recv_bytes - size] and decodes and  *)
(* answers frames until fewer than 6 bytes remain or a branch returns.     *)
(*                                                                         *)
(* recv_buf is a Go slice over a backing array of RecvSize bytes           *)
(* (TCP_RECV_DEFAULT_SIZE): buf is that array and blen the slice's length. *)
(* Slicing up to the capacity reads bytes past blen (zeros or stale data)  *)
(* and slicing past it panics, which ends the whole process.  Go shifts a  *)
(* byte as a byte, so recv_buf[1] << 8 is 0: the length and the weight are *)
(* their low byte.  Replies are the commands pushed to send_queue.         *)
(***************************************************************************)
EXTENDS Frame, SequencesExt

CONSTANTS
    Stream,     \* the frames the peer writes, in order (byte sequences)
    Groups,     \* names (byte sequences) of the configured groups
    RecvSize,   \* TCP_RECV_DEFAULT_SIZE, the capacity of recv_buf
    ReadSize    \* TCP_DEFAULT_READ_BUFFER_SIZE, the most one read returns

ASSUME Stream \in Seq(Seq(Byte)) /\ RecvSize >= 10 /\ ReadSize \in 1..RecvSize

Bytes == FlattenSeq(Stream)
Zeros == [i \in 1..RecvSize |-> 0]

VARIABLES
    pos,        \* bytes of Bytes the reads have returned
    buf,        \* the backing array of recv_buf
    blen,       \* len(recv_buf)
    recvBytes,  \* conn.recv_bytes
    replies,    \* commands pushed to send_queue, in order
    group,      \* conn.group (<<>> before a successful SET_PRO)
    closed,     \* the read failed and onClose ran
    panicked    \* a slice bound was out of range: the process dies

vars == <<pos, buf, blen, recvBytes, replies, group, closed, panicked>>

\* onMessage works on this record: the slice, recv_bytes, the replies, the
\* group, whether a branch returned and whether a slice bound panicked.
Panic(s) == [s EXCEPT !.panic = TRUE]
Return(s) == [s EXCEPT !.ret = TRUE]
Reply(s, cmd) == [s EXCEPT !.out = Append(@, cmd)]

\* Data movement that forgets recv_bytes -= content_len + 4.
MoveKeepsRecvBytes(s, cl) ==
    LET rest == SubSeq(s.buf, cl + 5, s.rb)
    IN  IF cl + 4 > s.rb \/ s.rb > RecvSize THEN Panic(s)
        ELSE [s EXCEPT !.buf = rest \o SubSeq(@, Len(rest) + 1, Len(@)), !.blen = s.rb - cl - 4]

\* Data movement after a handled frame: recv_buf = append(recv_buf[:0],
\* recv_buf[content_len + 4 : recv_bytes]...); recv_bytes -= content_len + 4.
\* The slice panics unless content_len + 4 <= recv_bytes <= cap.
Move(s, cl) ==
    LET lo == cl + 4
        hi == s.rb
        rest == SubSeq(s.buf, lo + 1, hi)
    IN  IF lo > hi \/ hi > RecvSize THEN Panic(s)
        ELSE [s EXCEPT !.buf = rest \o SubSeq(@, Len(rest) + 1, Len(@)),
                       !.blen = hi - lo, !.rb = hi - lo]

\* The SET_PRO branch without the check that the group exists.
SetProNoGroupCheck(s, cl) ==
    IF s.blen < 10 THEN Return(s)
    ELSE IF s.buf[7] > 100 THEN Return(Reply(s, CMD_ERROR))
    ELSE IF 10 > cl + 4 \/ cl + 4 > RecvSize THEN Panic(s)
    ELSE [Reply(s, CMD_SET_PRO) EXCEPT !.group = SubSeq(s.buf, 11, cl + 4)]

\* The SET_PRO branch: wait for 10 bytes; reject a weight above 100 and
\* return; take the group name recv_buf[10 : content_len + 4] (past len,
\* up to cap, is allowed); reject an unknown group and return; otherwise
\* answer ok and join.  The join's bookkeeping (groups, weights,
\* clients_count) is TcpBroker's SetProJoin.
SetPro(s, cl) ==
    IF s.blen < 10 THEN Return(s)
    ELSE IF s.buf[7] > 100 THEN Return(Reply(s, CMD_ERROR))
    ELSE IF 10 > cl + 4 \/ cl + 4 > RecvSize THEN Panic(s)
    ELSE LET g == SubSeq(s.buf, 11, cl + 4)
         IN  IF g \notin Groups THEN Return(Reply(s, CMD_ERROR))
             ELSE [Reply(s, CMD_SET_PRO) EXCEPT !.group = g]

\* One frame: content_len is recv_buf[0] and cmd is recv_buf[4], since the
\* other bytes are shifted as bytes and give 0.
Handle(s) ==
    LET cmd == s.buf[5]
    IN  CASE cmd = CMD_SET_PRO -> SetPro(s, s.buf[1])
          [] cmd = CMD_TICK    -> Reply(s, CMD_TICK)
          [] OTHER             -> Reply(s, CMD_ERROR)

\* onMessage handling at most one frame per read (an if for the for).
DecodeOneFrame(s) ==
    IF s.panic \/ s.blen < 6 THEN s
    ELSE IF s.blen > RecvSize THEN [s EXCEPT !.buf = Zeros, !.blen = RecvSize]
    ELSE LET h == Handle(s)
         IN  IF h.ret \/ h.panic THEN h ELSE Move(h, s.buf[1])

\* onMessage's loop after the append.
RECURSIVE Decode(_)
Decode(s) ==
    IF s.panic \/ s.blen < 6 THEN s
    ELSE IF s.blen > RecvSize THEN [s EXCEPT !.buf = Zeros, !.blen = RecvSize]
    ELSE LET h == Handle(s)
         IN  IF h.ret \/ h.panic THEN h ELSE Decode(Move(h, s.buf[1]))

\* onMessage(conn, msg, size) after recv_bytes += size: the append to
\* recv_buf[:recv_bytes - size] (a panic past the capacity; in place up to
\* it, a new array beyond it), then the loop.
OnMessage(s, msg) ==
    LET k == s.rb - Len(msg)
    IN  IF k > RecvSize THEN Panic(s)
        ELSE Decode([s EXCEPT !.buf = SubSeq(@, 1, k) \o msg \o SubSeq(@, k + Len(msg) + 1, Len(@)),
                              !.blen = k + Len(msg)])

-----------------------------------------------------------------------------
\* onConnect: recv_buf = make([]byte, TCP_RECV_DEFAULT_SIZE), recv_bytes 0.
Init ==
    /\ pos = 0
    /\ buf = Zeros
    /\ blen = RecvSize
    /\ recvBytes = 0
    /\ replies = <<>>
    /\ group = <<>>
    /\ closed = FALSE
    /\ panicked = FALSE

\* One iteration of the read loop: a read of n bytes, then onMessage.
Read(n) ==
    /\ ~closed /\ ~panicked
    /\ pos + n <= Len(Bytes)
    /\ LET r == OnMessage([buf |-> buf, blen |-> blen, rb |-> recvBytes + n,
                           out |-> replies, group |-> group,
                           ret |-> FALSE, panic |-> FALSE],
                          SubSeq(Bytes, pos + 1, pos + n))
       IN  /\ buf' = r.buf /\ blen' = r.blen /\ recvBytes' = r.rb
           /\ replies' = r.out /\ group' = r.group /\ panicked' = r.panic
    /\ pos' = pos + n
    /\ UNCHANGED closed

\* The 3-second read deadline set in onConnect fires; it is cleared only
\* by a successful SET_PRO.  The read fails and onClose runs.
ReadTimeout ==
    /\ ~closed /\ ~panicked
    /\ group = <<>>
    /\ closed' = TRUE
    /\ UNCHANGED <<pos, buf, blen, recvBytes, replies, group, panicked>>

Next == (\E n \in 1..ReadSize : Read(n)) \/ ReadTimeout

Spec == Init /\ [][Next]_vars

-----------------------------------------------------------------------------
TypeOK ==
    /\ pos \in 0..Len(Bytes)
    /\ buf \in Seq(Byte) /\ Len(buf) = RecvSize
    /\ blen \in 0..RecvSize /\ recvBytes \in Nat
    /\ replies \in Seq({CMD_SET_PRO, CMD_ERROR, CMD_TICK})
    /\ group \in Groups \cup {<<>>}
    /\ closed \in BOOLEAN /\ panicked \in BOOLEAN

\* Reference decoding (spec 4.1): a whole frame read with its full 4-byte
\* length, 2-byte command and 4-byte weight, and the reply it should get.
LEValue(bs) == FoldRight(LAMBDA b, acc : b + 256 * acc, bs, 0)
RefReply(f) ==
    LET cmd == LEValue(SubSeq(f, 5, 6))
    IN  CASE cmd = CMD_SET_PRO ->
               IF Len(f) >= 10 /\ LEValue(SubSeq(f, 7, 10)) <= 100
                  /\ SubSeq(f, 11, Len(f)) \in Groups
               THEN CMD_SET_PRO ELSE CMD_ERROR
          [] cmd = CMD_TICK -> CMD_TICK
          [] OTHER -> CMD_ERROR
RefReplies == [i \in 1..Len(Stream) |-> RefReply(Stream[i])]
NotError(c) == c # CMD_ERROR

\* onMessage never slices recv_buf out of bounds, whatever sizes TCP
\* splits the peer's frames into: a panic in the read goroutine ends the
\* whole broker process.
NoPanic == ~panicked

\* Once the connection has delivered every byte and is still open, the
\* broker has answered every frame that succeeds (SET_PRO ok, TICK) in the
\* order sent, however the reads split them: the incremental reassembly of
\* onMessage (append at recv_bytes - size, data movement) loses no frame.
FramesAnsweredInOrder ==
    (pos = Len(Bytes) /\ ~closed /\ ~panicked) =>
        SelectSeq(replies, NotError) = SelectSeq(RefReplies, NotError)

\* A peer whose handshake names a configured group is in that group once
\* all its bytes have arrived (unless the read deadline closed it first).
SubscriberJoins == (pos = Len(Bytes) /\ ~closed /\ ~panicked) => group \in Groups

\* Every reply so far is the one the frame read whole would get: a frame
\* is not answered before all of its bytes have arrived.
RepliesFollowFrames == IsPrefix(replies, RefReplies)

=============================================================================
