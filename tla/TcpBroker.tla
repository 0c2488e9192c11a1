----------------------------- MODULE TcpBroker -----------------------------
(***************************************************************************)
(* The subscriber broker of library/services/tcp.go (TcpService).          *)
(*                                                                         *)
(* Each accepted connection runs two goroutines: the read loop of          *)
(* onConnect/onMessage (handshake SET_PRO, TICK, unknown commands, read    *)
(* error -> onClose) and the sender loop clientSendService that drains the *)
(* connection's send_queue.  The binlog goroutine calls SendAll, which     *)
(* holds tcp.lock for its whole loop over the groups and pushes onto the   *)
(* send queues; a push onto a full channel blocks, a push onto a closed    *)
(* channel panics and ends the process.                                    *)
(*                                                                         *)
(* Frames are abstracted to their decoded content (FrameCodec models the   *)
(* bytes); a group's regular-expression filter list is abstracted to the   *)
(* set of tables it accepts.                                               *)
(***************************************************************************)
EXTENDS Integers, Sequences, FiniteSets, SequencesExt

CONSTANTS
    Conn,           \* connections the listener accepts (model values)
    Group,          \* configured group names
    GroupMode,      \* [Group -> {MODEL_BROADCAST, MODEL_WEIGHT}]
    Table,          \* tables binlog events are about
    GroupMatches,   \* [Group -> SUBSET Table]: tables the group's filter accepts
    Weights,        \* weights a client may send in SET_PRO (as decoded)
    UnknownGroup,   \* a group name that is not configured
    QueueCap,       \* capacity of a send_queue channel (TCP_MAX_SEND_QUEUE)
    MaxEvents,      \* bound on SendAll calls
    MaxFrames,      \* bound on frames a client sends
    ClientsRejoin   \* whether a client may send SET_PRO again after joining

MODEL_BROADCAST == 1
MODEL_WEIGHT    == 2

ASSUME GroupMode \in [Group -> {MODEL_BROADCAST, MODEL_WEIGHT}]
ASSUME GroupMatches \in [Group -> SUBSET Table]
ASSUME UnknownGroup \notin Group
ASSUME QueueCap \in Nat \ {0} /\ MaxEvents \in Nat /\ MaxFrames \in Nat
ASSUME ClientsRejoin \in BOOLEAN

NoGroup == "none"

\* Frames a client can send, as decoded by onMessage.
SetProFrames == [cmd: {"set_pro"}, weight: Weights, group: Group \cup {UnknownGroup}]
Frames == SetProFrames \cup {[cmd |-> "tick"], [cmd |-> "other"]}
NoFrame == [cmd |-> "none"]

\* Replies and events carried by a send_queue (payload text abstracted).
Msg == [cmd: {"event"}, ev: 1..MaxEvents] \cup [cmd: {"ok", "error", "tick"}, ev: {0}]
Reply(cmd) == [cmd |-> cmd, ev |-> 0]

VARIABLES
    conn,          \* read loop: "new", "open", "closing" (onClose past its unlock), "closed"
    isConnected,   \* tcpClientNode.is_connected
    group,         \* tcpClientNode.group
    weight,        \* tcpClientNode.weight (renormalized in place)
    rawWeight,     \* weight the client sent in its last SET_PRO (history)
    sendQueue,     \* tcpClientNode.send_queue
    queueClosed,   \* close(send_queue) has run
    sender,        \* clientSendService: "idle", "running" (loop top), "recv", "exited"
    sendTimes,     \* tcpClientNode.send_times, counted per Write
    stuck,         \* a rejected SET_PRO frame left at the head of recv_buf
    frames,        \* frames received per connection (bounded)
    groups,        \* tcp.groups: [Group -> Seq(Conn)]
    clientsCount,  \* tcp.clients_count
    notifying,     \* SendAll holds tcp.lock
    nPending,      \* groups SendAll has not visited yet (map order is random)
    nTargets,      \* pushes left for the group SendAll is visiting: <<conn, group, event>>
    notified,      \* tables of the SendAll calls so far; event i is notified[i]
    fanout,        \* [event -> [Group -> SUBSET Conn]]: who got it via which group
    panicked       \* a goroutine panicked (send on closed channel)

connVars   == <<conn, isConnected, group, weight, rawWeight, stuck, frames>>
queueVars  == <<sendQueue, queueClosed, sender, sendTimes>>
notifyVars == <<notifying, nPending, nTargets, notified, fanout>>
vars == <<connVars, queueVars, notifyVars, groups, clientsCount, panicked>>

-----------------------------------------------------------------------------
(* Helpers translated from the code.                                       *)

Members(g) == ToSet(groups[g])

\* The pushes `conn.send_queue <- ...` block while the channel is full.
\* Mutant: the capacity test off by one.
CanPushOffByOne(c) == Len(sendQueue[c]) <= QueueCap
CanPush(c) == Len(sendQueue[c]) < QueueCap
Push(c, m) == sendQueue' = [sendQueue EXCEPT ![c] = Append(@, m)]

\* Weight renormalization of onMessage (tcp.go 302-323): all_weight sums the
\* current weights (a weight <= 0 counts as 100), then every member but the
\* last gets weight*100/all_weight and the last one the remainder.
AllWeight(ms, w) ==
    FoldLeft(LAMBDA acc, c : acc + (IF w[c] <= 0 THEN 100 ELSE w[c]), 0, ms)

RECURSIVE NormalizeFrom(_, _, _, _, _)
NormalizeFrom(ms, k, w, yg, all) ==
    IF k > Len(ms) THEN w
    ELSE IF k = Len(ms) THEN [w EXCEPT ![ms[k]] = 100 - yg]
    ELSE LET nw == (w[ms[k]] * 100) \div all
         IN  NormalizeFrom(ms, k + 1, [w EXCEPT ![ms[k]] = nw], yg + nw, all)

Renormalize(ms, w) == NormalizeFrom(ms, 1, w, 0, AllWeight(ms, w))

\* send_times/weight as a Go float64: x/0 is +Inf for x > 0 and NaN for 0.
IsNaN(c) == sendTimes[c] = 0 /\ weight[c] = 0
IsInf(c) == sendTimes[c] > 0 /\ weight[c] = 0
\* Mutant: the load compared by send_times alone, weights ignored.
LoadLessByCount(a, b) == sendTimes[a] < sendTimes[b]
LoadLess(a, b) ==
    /\ ~IsNaN(a) /\ ~IsNaN(b) /\ ~IsInf(a)
    /\ IsInf(b) \/ sendTimes[a] * weight[b] < sendTimes[b] * weight[a]

\* Load-balancing choice of SendAll (tcp.go 103-120): start with the first
\* member, take the first later member that has never been written to, else
\* the member with the smallest send_times/weight.
RECURSIVE PickFrom(_, _, _)
PickFrom(cs, i, target) ==
    IF i > Len(cs) THEN target
    ELSE IF sendTimes[cs[i]] = 0 THEN cs[i]
    ELSE PickFrom(cs, i + 1, IF LoadLess(cs[i], target) THEN cs[i] ELSE target)

WeightedTarget(cs) == PickFrom(cs, 2, cs[1])

\* The pushes SendAll makes for group g and table t (tcp.go 61-123).
GroupTargets(g, t) ==
    IF groups[g] = <<>> \/ t \notin GroupMatches[g] THEN <<>>
    ELSE IF GroupMode[g] # MODEL_WEIGHT
         THEN SelectSeq(groups[g], LAMBDA c : isConnected[c])
         ELSE <<WeightedTarget(groups[g])>>

-----------------------------------------------------------------------------
Init ==
    /\ conn = [c \in Conn |-> "new"]
    /\ isConnected = [c \in Conn |-> FALSE]
    /\ group = [c \in Conn |-> NoGroup]
    /\ weight = [c \in Conn |-> 0]
    /\ rawWeight = [c \in Conn |-> 0]
    /\ sendQueue = [c \in Conn |-> <<>>]
    /\ queueClosed = [c \in Conn |-> FALSE]
    /\ sender = [c \in Conn |-> "idle"]
    /\ sendTimes = [c \in Conn |-> 0]
    /\ stuck = [c \in Conn |-> NoFrame]
    /\ frames = [c \in Conn |-> 0]
    /\ groups = [g \in Group |-> <<>>]
    /\ clientsCount = 0
    /\ notifying = FALSE
    /\ nPending = {}
    /\ nTargets = <<>>
    /\ notified = <<>>
    /\ fanout = [e \in 1..MaxEvents |-> [g \in Group |-> {}]]
    /\ panicked = FALSE

\* onConnect: a new tcpClientNode, its sender goroutine, the read loop.
Accept(c) ==
    /\ conn[c] = "new"
    /\ conn' = [conn EXCEPT ![c] = "open"]
    /\ isConnected' = [isConnected EXCEPT ![c] = TRUE]
    /\ sender' = [sender EXCEPT ![c] = "running"]
    /\ UNCHANGED <<group, weight, rawWeight, sendQueue, queueClosed, sendTimes,
                   stuck, frames, groups, clientsCount, notifyVars, panicked>>

(* onMessage, one decoded frame h (tcp.go 254-335).  A SET_PRO that is     *)
(* rejected returns before the frame is consumed, so it stays at the head  *)
(* of recv_buf and every later read processes it again.                    *)

\* Weight outside 0..100: ERROR reply, no lock taken (tcp.go 284-287).
SetProBadWeight(c, h) ==
    /\ h.weight < 0 \/ h.weight > 100
    /\ CanPush(c) /\ Push(c, Reply("error"))
    /\ stuck' = [stuck EXCEPT ![c] = h]
    /\ UNCHANGED <<conn, isConnected, group, weight, rawWeight, groups, clientsCount>>

\* Group not configured: ERROR reply under tcp.lock (tcp.go 290-295).
SetProUnknownGroup(c, h) ==
    /\ 0 <= h.weight /\ h.weight <= 100
    /\ h.group \notin Group
    /\ ~notifying
    /\ CanPush(c) /\ Push(c, Reply("error"))
    /\ stuck' = [stuck EXCEPT ![c] = h]
    /\ UNCHANGED <<conn, isConnected, group, weight, rawWeight, groups, clientsCount>>

\* Join (tcp.go 290-325): under tcp.lock reply ok, append the node to the
\* group, renormalize a weighted group, count the client.
SetProJoin(c, h) ==
    /\ 0 <= h.weight /\ h.weight <= 100
    /\ h.group \in Group
    /\ ~notifying
    /\ CanPush(c) /\ Push(c, Reply("ok"))
    /\ LET g  == h.group
           ms == Append(groups[g], c)
           w  == [weight EXCEPT ![c] = h.weight]
       IN  /\ groups' = [groups EXCEPT ![g] = ms]
           /\ group' = [group EXCEPT ![c] = g]
           /\ weight' = IF GroupMode[g] = MODEL_WEIGHT THEN Renormalize(ms, w) ELSE w
    /\ rawWeight' = [rawWeight EXCEPT ![c] = h.weight]
    /\ clientsCount' = clientsCount + 1
    /\ UNCHANGED <<conn, isConnected, stuck>>

\* TICK is answered with TICK "ok"; any other command with ERROR.
Answer(c, h) ==
    /\ h.cmd \in {"tick", "other"}
    /\ CanPush(c) /\ Push(c, Reply(IF h.cmd = "tick" THEN "tick" ELSE "error"))
    /\ UNCHANGED <<conn, isConnected, group, weight, rawWeight, stuck, groups, clientsCount>>

\* A read of frame f by the read loop of c.  A well-behaved client sends
\* SET_PRO only while unassigned unless ClientsRejoin.
Receive(c, f) ==
    /\ conn[c] = "open"
    /\ frames[c] < MaxFrames
    /\ f.cmd = "set_pro" => group[c] = NoGroup \/ ClientsRejoin
    /\ frames' = [frames EXCEPT ![c] = @ + 1]
    /\ LET h == IF stuck[c] # NoFrame THEN stuck[c] ELSE f
       IN  \/ h.cmd = "set_pro" /\ SetProBadWeight(c, h)
           \/ h.cmd = "set_pro" /\ SetProUnknownGroup(c, h)
           \/ h.cmd = "set_pro" /\ SetProJoin(c, h)
           \/ Answer(c, h)
    /\ UNCHANGED <<queueClosed, sender, sendTimes, notifyVars, panicked>>

\* Mutant: onClose closes the channel but leaves the node in its group.
ReadErrorKeepsMember(c) ==
    /\ conn[c] = "open"
    /\ ~notifying
    /\ conn' = [conn EXCEPT ![c] = IF group[c] = NoGroup THEN "closed" ELSE "closing"]
    /\ queueClosed' = [queueClosed EXCEPT ![c] = TRUE]
    /\ isConnected' = [isConnected EXCEPT ![c] = FALSE]
    /\ UNCHANGED <<groups, group, weight, rawWeight, stuck, frames, sendQueue, sender,
                   sendTimes, notifyVars, clientsCount, panicked>>

\* Mutant: onClose goes on to the decrement for unassigned connections too.
ReadErrorAlwaysDecrements(c) ==
    /\ conn[c] = "open"
    /\ ~notifying
    /\ conn' = [conn EXCEPT ![c] = "closing"]
    /\ queueClosed' = [queueClosed EXCEPT ![c] = TRUE]
    /\ IF group[c] = NoGroup
       THEN /\ isConnected' = [isConnected EXCEPT ![c] = FALSE]
            /\ UNCHANGED groups
       ELSE LET g == group[c] IN
            /\ isConnected' = [isConnected EXCEPT ![c] = IF c \in Members(g) THEN FALSE ELSE @]
            /\ groups' = [groups EXCEPT ![g] = RemoveFirst(@, c)]
    /\ UNCHANGED <<group, weight, rawWeight, stuck, frames, sendQueue, sender,
                   sendTimes, notifyVars, clientsCount, panicked>>

\* Read error (peer gone, 3s handshake deadline, network): the read loop
\* calls onClose (tcp.go 240-242, 164-183).  Under tcp.lock it closes the
\* channel and, for a member, takes the node out of its group; an
\* unassigned connection is done, a member goes on to the decrement.
ReadError(c) ==
    /\ conn[c] = "open"
    /\ ~notifying
    /\ queueClosed' = [queueClosed EXCEPT ![c] = TRUE]
    /\ IF group[c] = NoGroup
       THEN /\ conn' = [conn EXCEPT ![c] = "closed"]
            /\ isConnected' = [isConnected EXCEPT ![c] = FALSE]
            /\ UNCHANGED groups
       ELSE LET g == group[c] IN
            /\ conn' = [conn EXCEPT ![c] = "closing"]
            /\ isConnected' = [isConnected EXCEPT ![c] = IF c \in Members(g) THEN FALSE ELSE @]
            /\ groups' = [groups EXCEPT ![g] = RemoveFirst(@, c)]
    /\ UNCHANGED <<group, weight, rawWeight, stuck, frames, sendQueue, sender,
                   sendTimes, notifyVars, clientsCount, panicked>>

\* After tcp.lock is released: atomic.AddInt32(&clients_count, -1), then
\* conn.Close (tcp.go 184, 243).
ReadErrorDecrement(c) ==
    /\ conn[c] = "closing"
    /\ conn' = [conn EXCEPT ![c] = "closed"]
    /\ clientsCount' = clientsCount - 1
    /\ UNCHANGED <<isConnected, group, weight, rawWeight, stuck, frames, queueVars,
                   groups, notifyVars, panicked>>

(* clientSendService (tcp.go 189-211): "running" is the top of the loop,   *)
(* "recv" the select on send_queue.                                         *)

\* The loop returns when is_connected is false (tcp.go 191-194).
SenderCheck(c) ==
    /\ sender[c] = "running"
    /\ sender' = [sender EXCEPT ![c] = IF isConnected[c] THEN "recv" ELSE "exited"]
    /\ UNCHANGED <<connVars, sendQueue, queueClosed, sendTimes, groups, clientsCount,
                   notifyVars, panicked>>

\* Mutant: the sender loop returns when a Write fails.
SenderWriteExitsOnFailure(c) ==
    /\ sender[c] = "recv"
    /\ sendQueue[c] # <<>>
    /\ sendQueue' = [sendQueue EXCEPT ![c] = Tail(@)]
    /\ sendTimes' = [sendTimes EXCEPT ![c] = @ + 1]
    /\ sender' \in {[sender EXCEPT ![c] = "running"], [sender EXCEPT ![c] = "exited"]}
    /\ UNCHANGED <<connVars, queueClosed, groups, clientsCount, notifyVars, panicked>>

\* Receive a message (a closed channel still yields what it buffers) and
\* Write it; send_times counts the Write whether or not it succeeded.
SenderWrite(c) ==
    /\ sender[c] = "recv"
    /\ sendQueue[c] # <<>>
    /\ sendQueue' = [sendQueue EXCEPT ![c] = Tail(@)]
    /\ sendTimes' = [sendTimes EXCEPT ![c] = @ + 1]
    /\ sender' = [sender EXCEPT ![c] = "running"]
    /\ UNCHANGED <<connVars, queueClosed, groups, clientsCount, notifyVars, panicked>>

\* The receive reports a closed and drained channel: return.
SenderExit(c) ==
    /\ sender[c] = "recv"
    /\ sendQueue[c] = <<>> /\ queueClosed[c]
    /\ sender' = [sender EXCEPT ![c] = "exited"]
    /\ UNCHANGED <<connVars, sendQueue, queueClosed, sendTimes, groups, clientsCount,
                   notifyVars, panicked>>

(* SendAll(msg) for an event on table t (tcp.go 41-128).                   *)

\* With clients_count <= 0 the event is dropped before the lock; otherwise
\* SendAll takes tcp.lock and visits the groups in map order.
NotifyStart(t) ==
    /\ ~notifying
    /\ Len(notified) < MaxEvents
    /\ notified' = Append(notified, t)
    /\ IF clientsCount <= 0
       THEN UNCHANGED <<notifying, nPending>>
       ELSE notifying' = TRUE /\ nPending' = Group
    /\ UNCHANGED <<connVars, queueVars, nTargets, fanout, groups, clientsCount, panicked>>

NotifyGroup(g) ==
    /\ notifying
    /\ nTargets = <<>>
    /\ g \in nPending
    /\ nPending' = nPending \ {g}
    /\ nTargets' = [i \in 1..Len(GroupTargets(g, Last(notified))) |->
                       <<GroupTargets(g, Last(notified))[i], g, Len(notified)>>]
    /\ UNCHANGED <<connVars, queueVars, notified, fanout, notifying, groups, clientsCount, panicked>>

\* `target.send_queue <- pack(CMD_EVENT, ...)`: blocks on a full channel,
\* panics on a closed one.
NotifyPush ==
    /\ nTargets # <<>>
    /\ LET c == Head(nTargets)[1]
           g == Head(nTargets)[2]
           e == Head(nTargets)[3]
       IN  IF queueClosed[c]
           THEN /\ panicked' = TRUE
                /\ UNCHANGED <<sendQueue, nTargets, fanout>>
           ELSE /\ CanPush(c)
                /\ Push(c, [cmd |-> "event", ev |-> e])
                /\ fanout' = [fanout EXCEPT ![e][g] = @ \cup {c}]
                /\ nTargets' = Tail(nTargets)
                /\ UNCHANGED panicked
    /\ UNCHANGED <<connVars, queueClosed, sender, sendTimes, notifying, nPending, notified,
                   groups, clientsCount>>

\* Mutant: SendAll unlocks without waiting for its last pushes.
NotifyEndEarly ==
    /\ notifying
    /\ nPending = {}
    /\ notifying' = FALSE
    /\ UNCHANGED <<connVars, queueVars, nPending, nTargets, notified, fanout, groups,
                   clientsCount, panicked>>

NotifyEnd ==
    /\ notifying
    /\ nPending = {}
    /\ nTargets = <<>>
    /\ notifying' = FALSE
    /\ UNCHANGED <<connVars, queueVars, nPending, nTargets, notified, fanout, groups,
                   clientsCount, panicked>>

-----------------------------------------------------------------------------
\* A panic ends the process: nothing happens after it.
Next ==
    /\ ~panicked
    /\ \/ \E c \in Conn : Accept(c) \/ ReadError(c) \/ ReadErrorDecrement(c)
       \/ \E c \in Conn : SenderCheck(c) \/ SenderWrite(c) \/ SenderExit(c)
       \/ \E c \in Conn, f \in Frames : Receive(c, f)
       \/ \E t \in Table : NotifyStart(t)
       \/ \E g \in Group : NotifyGroup(g)
       \/ NotifyPush
       \/ NotifyEnd

\* Goroutines are scheduled fairly; clients, the network and the binlog
\* stream are not.
Fairness ==
    /\ \A c \in Conn : WF_vars(SenderCheck(c)) /\ WF_vars(SenderWrite(c)) /\ WF_vars(SenderExit(c))
    /\ \A c \in Conn : WF_vars(ReadErrorDecrement(c))
    /\ \A g \in Group : WF_vars(NotifyGroup(g))
    /\ WF_vars(NotifyPush) /\ WF_vars(NotifyEnd)

Spec == Init /\ [][Next]_vars /\ Fairness

-----------------------------------------------------------------------------
(* Properties.                                                             *)

TypeOK ==
    /\ conn \in [Conn -> {"new", "open", "closing", "closed"}]
    /\ isConnected \in [Conn -> BOOLEAN]
    /\ group \in [Conn -> Group \cup {NoGroup}]
    /\ weight \in [Conn -> Int] /\ rawWeight \in [Conn -> Weights \cup {0}]
    /\ sendQueue \in [Conn -> Seq(Msg)]
    /\ \A c \in Conn : Len(sendQueue[c]) <= QueueCap
    /\ queueClosed \in [Conn -> BOOLEAN]
    /\ sender \in [Conn -> {"idle", "running", "recv", "exited"}]
    /\ sendTimes \in [Conn -> Nat]
    /\ stuck \in [Conn -> SetProFrames \cup {NoFrame}]
    /\ groups \in [Group -> Seq(Conn)]
    /\ clientsCount \in Int
    /\ notifying \in BOOLEAN /\ nPending \subseteq Group
    /\ notified \in Seq(Table) /\ Len(notified) <= MaxEvents
    /\ fanout \in [1..MaxEvents -> [Group -> SUBSET Conn]]
    /\ panicked \in BOOLEAN

\* SendAll never pushes onto the send_queue of a connection whose onClose has
\* already closed it (a Go panic that ends the whole process): onClose must
\* take every closed connection out of every group SendAll reads.
NoPanic == ~panicked

\* SendAll's early return on clients_count <= 0 (tcp.go 46-50, read
\* without the lock) never drops an event that a group has a member for:
\* onClose decrements only after unlocking (tcp.go 184), and only for
\* nodes that SET_PRO counted.
EarlyReturnDropsNothing ==
    [][Len(notified') > Len(notified) /\ ~notifying' =>
         \A g \in Group : GroupTargets(g, Last(notified')) = <<>>]_vars

\* Spec 4.2: a weighted group's event goes to the member minimizing
\* sent_count / normalized_weight, members with sent_count 0 preferred
\* (x/0 is +Inf).  SendAll compares float64 ratios in a loop with a break
\* (tcp.go 101-122) while the senders keep counting writes.
RatioLeq(c, d) ==
    weight[d] = 0 \/ (weight[c] # 0 /\ sendTimes[c] * weight[d] <= sendTimes[d] * weight[c])
LeastLoaded(c, ms) ==
    IF \E d \in ms : sendTimes[d] = 0 THEN sendTimes[c] = 0 ELSE \A d \in ms : RatioLeq(c, d)

WeightedPicksLeastLoaded ==
    [][\A g \in Group :
         g \in nPending /\ g \notin nPending' /\ GroupMode[g] = MODEL_WEIGHT /\ nTargets' # <<>>
            => LeastLoaded(nTargets'[1][1], Members(g))]_vars

\* A SendAll that took tcp.lock eventually releases it: a slow or departed
\* subscriber never stalls the broker forever (its sender keeps draining).
NotifyCompletes == notifying ~> ~notifying

\* Spec 4.2: delivery to a full queue is dropped, the broker never waits on a
\* slow subscriber.  SendAll in tcp.go 98/122 blocks on the full channel.
NeverWaitsOnFullQueue ==
    nTargets # <<>> => CanPush(Head(nTargets)[1])

\* Spec 4.2 renormalization: every member of a weighted group but the last
\* has floor(raw*100/sum(raw)) and the last the remainder, raw being the
\* weights the clients sent.  onMessage renormalizes the already
\* normalized weights on each join.
SpecWeights(ms) ==
    NormalizeFrom(ms, 1, rawWeight, 0, FoldLeft(LAMBDA acc, c : acc + rawWeight[c], 0, ms))

WeightsFollowRaw ==
    \A g \in Group :
        GroupMode[g] = MODEL_WEIGHT /\ groups[g] # <<>> =>
            \A c \in Members(g) : weight[c] = SpecWeights(groups[g])[c]

\* Spec 4.2: a weighted group's weights always sum to exactly 100, the
\* renormalization running whenever membership changes (onClose included).
WeightsSumTo100 ==
    \A g \in Group :
        GroupMode[g] = MODEL_WEIGHT /\ groups[g] # <<>> =>
            FoldLeft(LAMBDA acc, c : acc + weight[c], 0, groups[g]) = 100


-----------------------------------------------------------------------------
(* Refinement: the broker implements Fanout.  A subscriber is a member     *)
(* while it is connected and in a group; the events handed to it are the   *)
(* EVENT messages of its send_queue, and the last one written is the       *)
(* latest event pushed to it that is no longer queued.                     *)

QueuedEvents(c) == {sendQueue[c][i].ev : i \in {j \in 1..Len(sendQueue[c]) : sendQueue[c][j].cmd = "event"}}
PushedEvents(c) == {e \in 1..Len(notified) : \E g \in Group : c \in fanout[e][g]}
Written(c) == PushedEvents(c) \ QueuedEvents(c)

FO == INSTANCE Fanout WITH
        n <- Len(notified),
        members <- {c \in Conn : isConnected[c] /\ group[c] # NoGroup},
        left <- {c \in Conn : conn[c] \in {"closing", "closed"} /\ group[c] # NoGroup},
        q <- [c \in Conn |-> [i \in 1..Len(SelectSeq(sendQueue[c], LAMBDA m : m.cmd = "event")) |->
                                 SelectSeq(sendQueue[c], LAMBDA m : m.cmd = "event")[i].ev]],
        done <- [c \in Conn |-> IF Written(c) = {} THEN 0 ELSE Max(Written(c))]

\* SendAll, onMessage, onClose and the sender goroutines together behave as
\* Fanout: every subscriber is handed each event at most once and in notify
\* order, only while it is a member, and is written what it was handed in
\* that order (after onClose too, while its sender still drains the
\* channel), whatever order the goroutines and clients run in.
ImplementsFanout == FO!Spec

=============================================================================
