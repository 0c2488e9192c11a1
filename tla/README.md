# TLA+ models of wing-binlog-go

These TLA+ modules model the concurrent and failure-handling parts of
wing-binlog-go and check them with TLC. `PROJECT.json` lists:

- every component, whether modelled or not;
- every run and the mutants of its properties;
- the source lines each definition translates;
- the findings;
- the hazards of the code.

## The system

A wing-binlog-go process reads a MySQL binlog and sends every row change to
subscribers. Several processes form a cluster, and only the leader reads the
binlog.

The parts of a process:

- **Event handler** (`library/binlog/handler.go`). The binlog reader (canal)
  calls `OnRow` for every rows event.
  - `OnRow` increments `EventIndex` once per notified row. For an update, the
    before and after images count once.
  - It renders the row as JSON with a length-prefixed `schema.table` header.
  - It passes the result to every service's `SendAll`.
  - After a transaction, `OnPosSynced` saves the position in the checkpoint.
- **Position checkpoint** (`handler.go`: `handlerInit`,
  `SaveBinlogPostionCache`, `getBinlogPositionCache`).
  - The record is one `[u16 len][i64 pos][i64 index][file name]`, overwritten
    at offset 0.
  - At start it is loaded. Without one, reading starts at the master's current
    position.
- **TCP broker** (`library/services/tcp.go`). Each accepted connection gets a
  read loop (`onConnect`/`onMessage`) and a sender goroutine
  (`clientSendService`) that drains its `send_queue` channel.
  - A client joins a group with a `SET_PRO` frame carrying a weight and a
    group name.
  - `SendAll` holds `tcp.lock` while it visits the groups whose table filter
    matches.
  - It pushes the event to every connected member of a broadcast group, and
    to the least-loaded member (`send_times / weight`) of a weighted group.
  - `onClose` removes a closed connection from its group and closes its
    channel.
- **Cluster coordinator** (`library/binlog/binlog_consul.go`). Every node has
  a Consul session and two loops.
  - `keepalive` renews the session and re-registers a service entry tagged
    with `is_leader` and a heartbeat time.
  - `checkAlive` reads the members. It probes timed-out ones and deregisters
    the dead. It deletes the lock key in three cases:
    - a dead member was the leader;
    - this follower sees no live leader;
    - it sees more than one leader.
  - `Lock` acquires the key with the node's session and makes the node leader.
  - `Delete` removes the key whoever holds it and demotes the local node.
  - `closeConsul` and `consulInit` clean up at stop and start.
- **Forwarding agent** (`service_agent.go`): on a follower, it connects to the
  leader's broker and re-emits its events locally. `Start` dials, sends a
  handshake and reads frames into `ag.buffer`. A keepalive goroutine writes a
  TICK every 3 s. Both change the status bits without a lock, as does `Close`.
- **Sinks**: the HTTP sink (`service_http.go`) and the Redis sink
  (`service_plugin/redis`).
- **Test subscriber** (`clients/client.go`). It walks its service list round
  robin. For each entry, `init` dials under `client.lock`, and `Start` sends a
  `SET_PRO` and reads frames until a read fails. A keepalive goroutine writes
  a TICK under the lock, and `Close` disconnects and sets `isClose`.
- **Peripheral code**: the control client, the user store and the
  configuration loaders.

How the parts interact:

- `OnRow` → `notify` → each service's `SendAll`. The broker fans out to
  subscribers.
- The leader's `OnPosSynced` → checkpoint, and `Write` to the followers'
  agents.
- The coordinator's leader status decides which node reads the binlog. The
  code that acts on it (Lock's caller) is not in the repository.

## Modules

| Module | Models | State ↔ code |
|---|---|---|
| `TcpBroker` | tcp.go | `conn` is the read loop (`closing` is onClose past its unlock, before the decrement). `isConnected`, `group`, `weight`, `sendQueue`, `queueClosed`, `sendTimes` are the `tcpClientNode` fields. `groups` and `clientsCount` are `tcp.groups` and `tcp.clients_count`. `notifying` means SendAll holds `tcp.lock`. `nPending` / `nTargets` are SendAll's loop (a target is tagged with its event). `sender` is the sender goroutine: at the top of its loop (`running`) or in its receive (`recv`). `stuck` is a rejected SET_PRO left in `recv_buf`. `panicked` is a send on a closed channel. `fanout` and `rawWeight` are history for the properties. |
| `Fanout` | spec section 1 (abstract) | What the broker promises each subscriber. `n` is the number of events notified, and `members` and `left` are the subscribers that are joined or gone. `q[c]` is the events handed to `c` and not yet written, and `done[c]` is the last event written to `c`. The actions are `Notify`, `Join`, `Leave`, `Hand` (the latest event, at most once, never after a later one) and `Write` (the oldest event handed to a subscriber, which may have left since). |
| `Frame` | config.go commands, tcp.go `pack`, client.go `pack` | The wire format as sequences of byte values, with Go's `byte(v)` truncation. |
| `BrokerRecv` | tcp.go `onConnect` read loop and `onMessage` | `buf` is the backing array of `recv_buf` (its capacity) and `blen` its length, so a slice past the length reads zeros or stale bytes, as Go does. `recvBytes` is `recv_bytes`. `replies` is what is pushed to `send_queue`. `pos` is how far TCP has delivered the peer's bytes. `panicked` is a slice out of range. |
| `Agent` | service_agent.go | `status` is the set of bits of `ag.status`. `spc` is where `Start` is. `node` is `ag.node.conn`. `buffer` is `ag.buffer`. `inbox` is the bytes the leader has sent and the agent has not read. `decoded` is the events onMessage decoded, and `chan1` the events waiting in `sendAllChan1` (capacity `Chan1Cap`; its reader is outside the repository). `toggling` is the goroutines between disconnect's Connect test and its `^=`, and `cpc` is where Close is. The leader's broker answers the handshake through an `INSTANCE` of `BrokerRecv`. |
| `TestClient` | clients/client.go | `spc` is where `Start` is, and `idx` is the `Services` entry in use. `hasNode`, `conn` and `isConnect` are `client.node`, and `isClose` is `client.isClose`. `cpc` is where `Close` is. `buffer` is `client.buffer`, and `got` is the commands of the frames `onMessage` decoded. `srv` is the broker's `onMessage` state for the current connection, through an `INSTANCE` of `BrokerRecv`, and `inbox` is its unread replies. |
| `HttpSink` | service_http.go | `queue[g][n]` is node n's `sendQueue` in generation g (Reload makes generation 1). `busy`/`alive` are the NumCPU sender goroutines. `todo`/`sync` are SendAll's loop and its `syncSend`. `posted[n]` is the events `http.Post` was called with for node n. A failed Post is only logged and never retried, so whether the endpoint got the event is not modelled; the properties are about what is posted. `closing` is Close in `wg.Wait`. |
| `ConsulCluster` | binlog_consul.go, cluster/session.go | `status` is the set of role bits of `h.status`, toggled with XOR as in the code. `session` and `live` are Consul sessions. `lockHolder` is the lock key's session. `registry` is the agent's service entries (registered, is_leader tag, heartbeat fresh). `snapshot` is the member list a checkAlive iteration read and acts on later. |
| `CheckpointStore` | handler.go | `file` is the bytes of the cache file, encoded and parsed byte by byte. `eventIndex` is `h.EventIndex`. `readTxn`/`rowInTxn` are canal's position. `written` is the master's binlog. `delivered` records every notify with its index, and `event` is the last message notified (built by `RowEncode`). |
| `RowEncode` | handler.go `append` and OnRow's header, tcp.go SendAll's split | No state: operators. `TableHeader` is the two length bytes and `db.table` OnRow writes before the JSON body, and `TableLen`/`Payload` are SendAll's `int(msg[0]) + int(msg[1] << 8)` and `msg[table_len+2:]`. `AppendValue` is append for the Go types canal (go-mysql, not in the repository) hands over for integer, ENUM and SET columns, and for nil. Its result is a number (with 2^32 and 2^64 kept symbolic, as TLC's integers are 32-bit), the member names a string joins, or a panic. `Holds` is the reference: the value the column stores. |

Each module has one action per handler or loop body:

- **`TcpBroker`:**
  - `Accept` (onConnect);
  - `Receive`, whose disjuncts are the branches of onMessage: `SetProBadWeight`, `SetProUnknownGroup`, `SetProJoin`, `Answer`;
  - onClose as `ReadError` (under the lock: close the channel, leave the group) and `ReadErrorDecrement` (the `clients_count` decrement after the unlock);
  - clientSendService as `SenderCheck` (the `is_connected` test), `SenderWrite` (a receive and the Write) and `SenderExit` (the receive on a closed, drained channel);
  - SendAll split at its lock and blocking points into `NotifyStart`, `NotifyGroup`, `NotifyPush` and `NotifyEnd`.
- **`ConsulCluster`:**
  - `Lock`, `Keepalive` and `Stop` (closeConsul);
  - `Restart` (consulInit);
  - checkAlive split into `CheckAliveRead` (GetMembers) and `CheckAliveAct`, so that other nodes can act between the read and the deletion;
  - environment actions: `Expire` (a heartbeat ages), `InvalidateSession` (Consul) and `Crash`.
- **`BrokerRecv`:**
  - `Read(n)`: one iteration of the read loop, a read of n bytes and the whole of onMessage (append, the reset above 4096 bytes, the decode loop with its SET_PRO, TICK and default branches, and the data movement), as the operators `OnMessage`, `Decode`, `Handle`, `SetPro` and `Move`;
  - `ReadTimeout`: the 3-second deadline of a connection not yet in a group.
- **`Agent`:**
  - `Start`, `NodeInit` (the loop top and nodeInit's disconnect), `Dial`/`DialFail`, `Handshake`, `Read(n)` (a read and onMessage's decoder `AgentDecode`, with `Push1`, sendAllChan1's capacity check and drop), `ReadError` and `StartReturns` (Start's loops);
  - `Keepalive` (one iteration of keepalive), and Close as `Close` and `CloseOffline`;
  - disconnect as two steps: `DisconnectBegin` (the nil and Disconnect tests, the conn.Close and the Connect test, inside the caller's action) and `DisconnectEnd(g)` (the `^=` and `|=`), so that Start, keepalive and Close interleave between them;
  - environment actions: `LeaderEvent` (the leader's SendAll), `ConnLost` (the connection fails, losing the bytes in flight) and `Consume` (the reader of sendAllChan1).
- **`TestClient`:**
  - `InitDial` (init: a dial, or the re-lock of `client.lock` when the node is still connected) and `InitDialFail`;
  - `CheckNotConnected` and `Handshake` (Start's checks and the `SET_PRO` write), `Read(n)` (a read and `ClientDecode`), `ReadError` and `ReadReturns`;
  - `Keepalive`, and Close as `CloseStart`, `CloseDisconnect` and `CloseSet`;
  - environment actions: `BrokerTimeout` (the broker's 3-second deadline; the client never joins) and `ConnLost`.
- **`HttpSink`:**
  - `SendAllStart`, `SendAllNode` (one node of SendAll's loop: queue, or syncSend when full) and `SyncDone`;
  - `Take`, `PostDone` and `SenderExit` (clientSendService's select);
  - `Close`/`CloseReturn` (wg.Wait), `Reload`, and the environment's `Cancel` (process shutdown).
- **`CheckpointStore`:**
  - `Row` (OnRow) and `PosSynced` (OnPosSynced);
  - `Restart` (handlerInit);
  - environment actions: `Commit` (the master) and `Crash`.
- **`RowEncode`:** operators that `CheckpointStore`'s `Row` uses, so the
  message OnRow notifies is part of OnRow's action. `OnRowMessage` is
  OnRow's loop over the table's columns. `event` is the last message, and
  each transaction of `Txn` names its database, table, columns and the
  values of its row images. The checkpoint run's table has one column per
  integer type, signedness and extreme bit pattern of its width that TLC
  holds, one per ENUM index 1..3, one per SET mask, and its delete image
  lacks the last column. Two more configurations use an ENUM holding index
  0, and names of 64 and 192 bytes (64 characters of three bytes, MySQL's
  longest name in utf8).

Abstractions:

- **Broker frames.** A frame is its decoded content, and a group's regex
  filter is the set of tables it accepts.
- **Broker weights.** `send_times / weight` follows Go float semantics:
  - x/0 is +Inf;
  - 0/0 is NaN;
  - every comparison with NaN is false.
- **Cluster time.** Time is the freshness of an entry. A probe (`alive`)
  succeeds exactly when the process is up.
- **Cluster transport.** Consul calls succeed. All nodes share one Consul
  agent, so `agent.Services()` lists every node.
- **Checkpoint positions.** A transaction boundary t is at offset 4 + t.

## Runs

| Run | Result | Shows |
|---|---|---|
| `broker` (MCTcpBroker.cfg) | pass, ~400k states, ~90 s | `TypeOK`. `NoPanic`: SendAll never sends on a closed channel. `EarlyReturnDropsNothing`: when SendAll returns early on `clients_count <= 0`, no group has a member the event would go to, although onClose decrements after its unlock. `WeightedPicksLeastLoaded`: a weighted group's event goes to a never-written member if there is one, else to a member with the least `send_times/weight` (spec 4.2). `NotifyCompletes`: SendAll always releases the lock. `ImplementsFanout`: the broker refines `Fanout` (see *Refinement*). |
| `broker_rejoin` | violation of `NoPanic` | A second SET_PRO puts the node in two groups. onClose removes it from one, and the next event is sent on the closed channel (Go panic). |
| `brokerrecv` (MCBrokerRecv.cfg) | pass, ~300 states | A subscriber's SET_PRO and three ticks, split by TCP into reads of every size up to 8 bytes. `NoPanic`: onMessage never slices out of range. `FramesAnsweredInOrder`: every frame gets its reply, in order. |
| `brokerrecv_agent` | violation of `NoPanic` | The agent's handshake and keepalive: a read that ends inside the keepalive's text is decoded before the frame is complete, and the data movement slices past `recv_bytes`. The broker process panics. |
| `agent` (MCAgent.cfg) | pass, ~480k states, ~40 s | With the handshake of spec 4.5, a connection that may fail at any byte, a `sendAllChan1` of capacity 1 whose reader may stall, and the disconnects of Start, keepalive and Close interleaving: `TypeOK` (with `sendAllChan1` never above its capacity; a further event is dropped, the backpressure of spec 4.2). `EventsDecoded`: onMessage decodes exactly the events of the whole frames read on the connection, in order, whatever the read sizes. `EventsEventuallyDecoded`: an event the leader sent is decoded unless its connection is lost or the agent is closed. |
| `agent_handshake` | violation of `HandshakeAdmits` | `pack(CMD_AGENT, "")` is answered ERROR by the broker, and the agent reads a connection that never receives events. |
| `client` (MCTestClient.cfg) | pass, ~340k states, ~10 s | `TypeOK`. `NoSelfDeadlock`: init never finds its node connected, so it never calls `disconnect` while holding `client.lock`. `NoLeakedConnection`: every connection dialled, other than the current one, has been closed. Both hold whatever keepalive, Close, the broker's deadline and the network interleave. |
| `http` (MCHttpSink.cfg) | pass, ~70k states, ~30 s | `TypeOK`. `CloseReturns`: after shutdown, Close's `wg.Wait` returns, with Reload allowed. `EveryEventPosted`: every event is posted to every node, through a sender or `syncSend`, unless the context is cancelled or Reload replaced the nodes. |
| `http_flush` | violation of `CloseFlushes` | SendAll after the senders exited on cancellation queues an event that no one posts, and Close returns. |
| `cluster` (MCConsulCluster.cfg) | pass, ~405k states, ~3.5 min | `TypeOK`, with exactly one role bit. `SplitBrainResolves`: two running leaders always become at most one. `OrphanedLockFreed`: the lock of a crashed or replaced session is eventually freed while some node runs and none leads. |
| `cluster_split` | violation of `AtMostOneLeader` | Consul invalidates the leader's session, which deletes the key. The old leader never notices, and another node locks. |
| `checkpoint` | pass, ~200 states | `IndexFollowsRow`: a replayed row gets the event_index it had. `NoEventSkipped`: with a checkpoint present, no crash skips a row. `ColumnRendered`: every message OnRow notifies renders each integer width, signed or unsigned, each ENUM index from 1 and each SET mask as the value the column holds, and a column past the row's length as null. The width corrections depend on canal's Go type per column and on the `"int"` prefix test that tells an unsigned mediumint from an unsigned int. |

More configurations reproduce further disagreements. Each checks one
property that TLC finds violated. The hazards in `PROJECT.json` describe them:

| Configuration | Property | Shows |
|---|---|---|
| MCTcpBroker_drift.cfg | `WeightsFollowRaw` | 40 + 40 become 71/29: each join renormalizes weights that are already normalized. |
| MCTcpBroker_leave.cfg | `WeightsSumTo100` | No renormalization when a member leaves. |
| MCTcpBroker_fullqueue.cfg | `NeverWaitsOnFullQueue` | SendAll blocks on a full queue under `tcp.lock`, where spec 4.2 says the delivery is dropped. |
| MCCheckpointStore_nocache.cfg | `NoEventSkipped` | A crash before the first OnPosSynced resumes from the master's current position, skipping rows. |
| MCBrokerRecv_split.cfg | `RepliesFollowFrames` | A SET_PRO split after its 10th byte is answered ERROR: the group name is read from bytes not yet received. |
| MCBrokerRecv_stuck.cfg | `FramesAnsweredInOrder` | A SET_PRO rejected for its weight is never removed from `recv_buf`, so later ticks go unanswered. |
| MCBrokerRecv_overflow.cfg | `NoPanic` | The reset above 4096 bytes keeps `recv_bytes`, and the next append slices past the capacity: any client can crash the broker. |
| MCBrokerRecv_client.cfg | `SubscriberJoins` | client.go's SET_PRO has no weight, so the name's first byte is read as the weight. |
| MCAgent_stale.cfg | `EventsDecoded` | `ag.buffer` keeps a partial frame across a reconnect and misframes the next connection. |
| MCAgent_close.cfg | `NoConnectionAfterClose` | Close between nodeInit and the handshake sees the Disconnect bit and leaves the connection open. |
| MCAgent_status.cfg | `StatusBitsExclusive` | keepalive's and Start's disconnects both pass the Connect test before either toggles; the second `^=` sets Connect again, and `ag.status` is Online, Connect and Disconnect at once. |
| MCTestClient_close.cfg | `StaysClosed` | A Close between the client's isConnect check and the next init is undone: the dial sets `isClose` back to false. |
| MCCheckpointStore_enum.cfg | `ColumnRendered` | An ENUM value of index 0 (MySQL's empty value for an invalid member) makes append read `EnumValues[-1]`: the handler panics. |
| MCCheckpointStore_header.cfg | `HeaderSplits` | A 64-byte database and a 192-byte table make `db.table` 257 bytes. SendAll reads its length as 1, and the event it packs starts inside the table name. |
| MCHttpSink_order.cfg | `PostsInOrder` | NumCPU senders per node and `syncSend` reorder a node's posts. |

Each property of a passing run has a mutant in `PROJECT.json`: a plausible
code bug that TLC must catch. Examples:

- onClose leaving the node in its group;
- the role-bit promotion without the follower check;
- the probe dialling a live address;
- saving the position of the transaction's start;
- the data movement forgetting `recv_bytes -= content_len + 4`;
- onMessage handling one frame per read;
- onMessage's `sendAllChan1` capacity test off by one;
- the weighted choice comparing `send_times` without the weights;
- a sender that returns only when its queue is closed.

### Bounds

**Broker.** The bounds are:

- two connections;
- one broadcast and one weighted group;
- two tables, one of which only the weighted group accepts;
- weights {40, 200}: valid and invalid (with two connections a weight of 0 normalizes as 40 does, so it adds states and no case);
- a queue capacity of 1;
- two events;
- one frame per connection: a SET_PRO of any weight and group, a TICK or
  another command.

These are enough for every branch of onMessage, a full queue, and a close
while SendAll waits. A second frame per connection (a TICK after joining,
a SET_PRO retried after a rejection) gives several million states, more
than the temporal properties can be checked on in five minutes. Three
connections exceed five minutes even with one frame. The frames that follow
a SET_PRO on the same connection are checked byte by byte by the
`brokerrecv` run, and a second SET_PRO by the `broker_rejoin` run.

**Receive path.** `RecvSize` 24 and `ReadSize` 8 stand for 4096 and 1024. The
largest frame minus one byte, plus one read, fits in the buffer, as it does in
the code. Two frames fit in one read, so the decode loop iterates. One SET_PRO
and three ticks are enough for every split.

**Agent.** Reads of up to 3 bytes split every frame, and they do not divide the 8-byte frames, so a read that waited for a full buffer would strand the tail of a frame. There are two events, one
keepalive, one connection and a `sendAllChan1` of capacity 1, so the second event is dropped unless the reader has taken the first. The stale-buffer configuration allows two
connections; with two connections `EventsDecoded` fails (that is the stale buffer), so the passing run checks decoding within one connection.

**Test client.** The bounds are:

- two services (main has four, all for one group);
- three dials;
- two keepalives;
- reads of up to 3 bytes;
- the broker's `recv_buf` scaled to 24 bytes.

The handshake (7 bytes) and a tick (6) reach the broker's weight check only
together, so the scaled buffer is enough.

**HTTP sink.** The bounds are two nodes, two senders each, a queue capacity of
1 (so the synchronous post happens) and three events.

**Cluster.** The bounds are:

- two nodes;
- two sessions per node;
- one restart per node.

Split brain needs two nodes. Three nodes do not finish in 10 minutes.

**Checkpoint.** The bounds are:

- three transactions: an insert of two rows, an update (two images, one event) and a delete;
- up to three crashes.

### Fairness

- **Broker.** Fairness is weak, on the sender goroutines and on SendAll's steps.
  These are goroutines that run whenever they are enabled. Clients, the
  network and the binlog get no fairness.
- **Cluster.** Fairness is weak, on keepalive, on both halves of checkAlive
  (infinite loops with sleeps), and on heartbeat ageing (time passes).
  - Lock, crashes, stops, restarts and session invalidation get no fairness.
  - The liveness properties are therefore stated with their escape clauses:
    "some node still leads" and "no node runs".
- **HTTP sink.** Fairness is weak, on the sender goroutines, on SendAll's
  steps and on wg.Wait. OnRow, the shutdown, Close and Reload are callers and
  get no fairness.
- **Agent.** Fairness is weak, on the Start goroutine's steps: the loop top, dial, handshake, a read that has bytes to return, a failed read, the end of its disconnect, and a return. The leader, the network, keepalive's timer, Close and the reader of sendAllChan1 get no fairness.
- **Receive path and test client.** These are safety only, with no fairness.
- `CHECK_DEADLOCK FALSE` is used where the system really stops:
  - a peer that has sent all its bytes, or Start waiting on a connection with nothing to read;
  - the HTTP sink with the event bound reached;
  - the broker with no clients and the binlog bound reached;
  - a cluster whose processes have all exited;
  - the checkpoint reader waiting for new transactions.

### Refinement

`TcpBroker` defines `FO == INSTANCE Fanout WITH ...` and checks `FO!Spec` as the
property `ImplementsFanout`. The mapping is:

- `n` is `Len(notified)`.
- `members` is the connected nodes that are in a group.
- `left` is the nodes in onClose's decrement or closed that were in a group.
- `q[c]` is the events in `c`'s `send_queue`, in order, with ticks and replies left out.
- `done[c]` is the last event pushed to `c` that has left its queue (`Written`).

Every broker step is then a `Fanout` step or a stutter:

- `SetProJoin` is `Join`.
- `NotifyPush` is `Hand`.
- `SenderWrite` of an event is `Write`. The sender tests `is_connected` and then receives, so it can write an event it already holds after onClose removed the member; `Fanout` allows that.
- The first step of SendAll is `Notify`.
- A close of a group member is `Leave`.

## Not modelled (yet), and the plan

- **Agent.**
  - Frames other than EVENT and TICK go to `sendAllChan2`, which is not kept.
  - The read loop's `ctx.Done` exit is not modelled.
  - The package `library/services` does not build as is: service_agent.go uses `pack`, `CMD_AGENT` and `tcpDefaultReadBufferSize`, which only `services/subscribe` defines. The model takes `pack` as tcp.go's and gives `CMD_AGENT` the value 7.
  - newAgent, Start and Close have no caller in the repository.
- **HTTP sink.**
  - `http.Post` is one step, and `library/http` is not modelled.
  - Table filters are not modelled: one group matches every table.
  - Reload has no caller.
- **Broker frame sizes.** Frames of 256 bytes or more, where `byte << 8`
  loses the length, are beyond the scaled buffer.
- **Next steps:**
  - a pipeline: OnRow → notify → broker, plus the checkpoint and the followers.

Not modelled at all:

- the Redis sink, the control client, the user store and the configuration
  loaders, which are sequential I/O;
- binlog.go's `NewBinlog`, an older version that does not build with
  handler.go, and cluster.go, which only declares types;
- the JSON layout of a row, `encode`'s string escaping and float
  formatting: no property tells them apart (`RowEncode` keeps the values);
- binlog_consul.go's `Unlock`, called only right before `Delete` of the
  same key, whose effect `Delete` subsumes, and `GetLeader`, `ShowMembers`
  and `GetCurrent`, which nothing calls;
- `library/http` and `services/config.go`, HTTP and TOML plumbing;
- vendored code.
