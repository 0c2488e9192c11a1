------------------------------ MODULE HttpSink ------------------------------
(***************************************************************************)
(* The HTTP sink of library/services/service_http.go (HttpService) for one *)
(* group whose filter matches every event.                                 *)
(*                                                                         *)
(* Start runs NumCPU clientSendService goroutines (Worker) per node, all   *)
(* draining the node's sendQueue, each posting what it takes with a        *)
(* blocking http.Post.  SendAll visits the nodes in order and pushes the   *)
(* event on each queue, or posts it synchronously when the queue is full.  *)
(* A sender exits when the process context is cancelled and its queue is  *)
(* empty; Close waits for every sender (wg.Wait).  Reload replaces the     *)
(* groups by new ones whose queues no sender drains; gen counts the        *)
(* generations of httpNode objects.  Events are numbered in the order      *)
(* SendAll is called (OnRow's order); posted[n] is the order http.Post is *)
(* called for node n.  A Post that fails is only logged, never retried:    *)
(* whether the endpoint got the event is up to the network, not modelled.  *)
(***************************************************************************)
EXTENDS Integers, Sequences, SequencesExt

CONSTANTS
    Node,        \* the group's nodes (URLs)
    Worker,      \* runtime.NumCPU() senders per node
    QueueCap,    \* httpMaxSendQueue
    MaxEvents,   \* events OnRow hands to SendAll
    Shutdown,    \* the process context may be cancelled
    Reloadable   \* Reload may be called (once)

ASSUME QueueCap >= 1 /\ MaxEvents >= 1

None == 0
Ev == 1..MaxEvents
Gen == 0..1

VARIABLES
    queue,       \* queue[g][n]: sendQueue of node n of generation g
    busy,        \* busy[n][w]: the event sender w of node n is posting, or None
    alive,       \* alive[n][w]: that sender has not returned (wg count)
    posted,      \* posted[n]: events http.Post was called with for node n, in order
    next,        \* the next event OnRow hands to SendAll
    todo,        \* nodes SendAll has still to visit for event next - 1
    sync,        \* <<n, e>> while SendAll's syncSend posts e to n, or <<>>
    gen,         \* generation of client.groups
    ctxDone,     \* the process context is cancelled
    closing      \* "no", "waiting" (in wg.Wait) or "done"

vars == <<queue, busy, alive, posted, next, todo, sync, gen, ctxDone, closing>>

NodeSeq == SetToSeq(Node)

-----------------------------------------------------------------------------
\* NewHttpService then Start: empty queues, Worker senders per node.
Init ==
    /\ queue = [g \in Gen |-> [n \in Node |-> <<>>]]
    /\ busy = [n \in Node |-> [w \in Worker |-> None]]
    /\ alive = [n \in Node |-> [w \in Worker |-> TRUE]]
    /\ posted = [n \in Node |-> <<>>]
    /\ next = 1
    /\ todo = <<>>
    /\ sync = <<>>
    /\ gen = 0
    /\ ctxDone = FALSE
    /\ closing = "no"

\* OnRow calls SendAll with the next event.
SendAllStart ==
    /\ next <= MaxEvents /\ todo = <<>> /\ sync = <<>>
    /\ next' = next + 1
    /\ todo' = NodeSeq
    /\ UNCHANGED <<queue, busy, alive, posted, sync, gen, ctxDone, closing>>

\* SendAll dropping the event at a full queue.
SendAllNodeDropsWhenFull ==
    /\ todo # <<>> /\ sync = <<>>
    /\ LET n == Head(todo)
       IN  queue' = IF Len(queue[gen][n]) >= QueueCap THEN queue
                    ELSE [queue EXCEPT ![gen][n] = Append(@, next - 1)]
    /\ todo' = Tail(todo)
    /\ UNCHANGED <<busy, alive, posted, next, sync, gen, ctxDone, closing>>

\* SendAll pushing next instead of the event it was called with.
SendAllNodeOffByOne ==
    /\ todo # <<>> /\ sync = <<>>
    /\ LET n == Head(todo)
       IN  IF Len(queue[gen][n]) >= QueueCap
           THEN sync' = <<n, next>> /\ UNCHANGED queue
           ELSE queue' = [queue EXCEPT ![gen][n] = Append(@, next)] /\ UNCHANGED sync
    /\ todo' = Tail(todo)
    /\ UNCHANGED <<busy, alive, posted, next, gen, ctxDone, closing>>

\* SendAll at node n: a full queue is bypassed by a synchronous post.
SendAllNode ==
    /\ todo # <<>> /\ sync = <<>>
    /\ LET n == Head(todo)
           e == next - 1
       IN  IF Len(queue[gen][n]) >= QueueCap
           THEN sync' = <<n, e>> /\ UNCHANGED queue
           ELSE queue' = [queue EXCEPT ![gen][n] = Append(@, e)] /\ UNCHANGED sync
    /\ todo' = Tail(todo)
    /\ UNCHANGED <<busy, alive, posted, next, gen, ctxDone, closing>>

\* syncSend's http.Post returns.
SyncDone ==
    /\ sync # <<>>
    /\ posted' = [posted EXCEPT ![sync[1]] = Append(@, sync[2])]
    /\ sync' = <<>>
    /\ UNCHANGED <<queue, busy, alive, next, todo, gen, ctxDone, closing>>

\* clientSendService: the select takes a message off the queue.
Take(n, w) ==
    /\ alive[n][w] /\ busy[n][w] = None
    /\ queue[0][n] # <<>>
    /\ busy' = [busy EXCEPT ![n][w] = Head(queue[0][n])]
    /\ queue' = [queue EXCEPT ![0][n] = Tail(@)]
    /\ UNCHANGED <<alive, posted, next, todo, sync, gen, ctxDone, closing>>

\* Its http.Post returns, with or without an error (an error is only
\* logged): the event was posted once and is never posted again.
PostDone(n, w) ==
    /\ busy[n][w] # None
    /\ posted' = [posted EXCEPT ![n] = Append(@, busy[n][w])]
    /\ busy' = [busy EXCEPT ![n][w] = None]
    /\ UNCHANGED <<queue, alive, next, todo, sync, gen, ctxDone, closing>>

\* A sender that returns only when its queue is closed, which no code does.
SenderExitOnClosedQueue(n, w) ==
    /\ FALSE
    /\ UNCHANGED vars

\* The select takes ctx.Done with an empty queue: return (wg.Done).
SenderExit(n, w) ==
    /\ alive[n][w] /\ busy[n][w] = None
    /\ ctxDone /\ queue[0][n] = <<>>
    /\ alive' = [alive EXCEPT ![n][w] = FALSE]
    /\ UNCHANGED <<queue, busy, posted, next, todo, sync, gen, ctxDone, closing>>

\* The process context is cancelled (shutdown).
Cancel ==
    /\ Shutdown /\ ~ctxDone
    /\ ctxDone' = TRUE
    /\ UNCHANGED <<queue, busy, alive, posted, next, todo, sync, gen, closing>>

\* Close: the group has nodes, so wg.Wait.
Close ==
    /\ closing = "no"
    /\ closing' = "waiting"
    /\ UNCHANGED <<queue, busy, alive, posted, next, todo, sync, gen, ctxDone>>

\* wg.Wait returns once every sender has returned.
CloseReturn ==
    /\ closing = "waiting"
    /\ \A n \in Node, w \in Worker : ~alive[n][w]
    /\ closing' = "done"
    /\ UNCHANGED <<queue, busy, alive, posted, next, todo, sync, gen, ctxDone>>

\* Reload: new groups, new nodes with new queues and no senders.
Reload ==
    /\ Reloadable /\ gen = 0 /\ todo = <<>> /\ sync = <<>>
    /\ gen' = 1
    /\ UNCHANGED <<queue, busy, alive, posted, next, todo, sync, ctxDone, closing>>

Next ==
    \/ SendAllStart \/ SendAllNode \/ SyncDone
    \/ \E n \in Node, w \in Worker : Take(n, w) \/ PostDone(n, w) \/ SenderExit(n, w)
    \/ Cancel \/ Close \/ CloseReturn \/ Reload

\* The senders, SendAll once called, and wg.Wait are goroutines that run
\* whenever they can; OnRow, the shutdown, Close and Reload are callers.
Fairness ==
    /\ WF_vars(SendAllNode) /\ WF_vars(SyncDone) /\ WF_vars(CloseReturn)
    /\ \A n \in Node, w \in Worker :
          WF_vars(Take(n, w)) /\ WF_vars(PostDone(n, w)) /\ WF_vars(SenderExit(n, w))

Spec == Init /\ [][Next]_vars /\ Fairness

-----------------------------------------------------------------------------
TypeOK ==
    /\ queue \in [Gen -> [Node -> Seq(Ev)]]
    /\ busy \in [Node -> [Worker -> Ev \cup {None}]]
    /\ alive \in [Node -> [Worker -> BOOLEAN]]
    /\ posted \in [Node -> Seq(Ev)]
    /\ next \in 1..MaxEvents + 1 /\ todo \in Seq(Node)
    /\ sync \in {<<>>} \cup (Node \X Ev)
    /\ gen \in Gen /\ ctxDone \in BOOLEAN /\ closing \in {"no", "waiting", "done"}

Flushed ==
    /\ \A g \in Gen, n \in Node : queue[g][n] = <<>>
    /\ \A n \in Node, w \in Worker : busy[n][w] = None

\* Close returns once the context is cancelled: every sender then drains
\* its queue, finishes its post and returns, and wg.Wait returns.
CloseReturns == (closing = "waiting" /\ ctxDone) ~> (closing = "done")

\* Every event OnRow hands to SendAll is posted to every node, through
\* a sender or through the synchronous post at a full queue, unless the
\* process context is cancelled or Reload replaced the nodes (their queues
\* then have no sender, and the senders exit on an empty queue).
EveryEventPosted ==
    \A e \in Ev, n \in Node :
        (next > e) ~> ((\E i \in 1..Len(posted[n]) : posted[n][i] = e) \/ ctxDone \/ gen = 1)

\* When Close returns, nothing handed to the sink is still queued or being
\* posted (Close logs "waiting for buffer send complete").
CloseFlushes == [][(closing = "waiting" /\ closing' = "done") => Flushed']_vars

\* Each node is posted the events in the order SendAll was called (spec 4.6: a broadcast group's members get events in notify order).
PostsInOrder ==
    \A n \in Node : \A i, j \in 1..Len(posted[n]) : i < j => posted[n][i] < posted[n][j]

=============================================================================
