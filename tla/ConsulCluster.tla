---------------------------- MODULE ConsulCluster ----------------------------
(***************************************************************************)
(* Leader election of library/binlog/binlog_consul.go over Consul.         *)
(*                                                                         *)
(* Every node keeps a status (leader or follower), a Consul session and    *)
(* two goroutines: keepalive (renew the session, re-register the service   *)
(* entry whose tags carry is_leader and the heartbeat time) and checkAlive *)
(* (read the member list, probe and deregister timed-out members, delete   *)
(* the lock when a timed-out leader is dead, when no leader is seen by a   *)
(* follower, and when more than one leader is seen).  Lock acquires the    *)
(* Consul lock key with the node's session; Delete removes the key         *)
(* whoever holds it.                                                       *)
(*                                                                         *)
(* Time is abstracted to the freshness of a registry entry: an entry goes  *)
(* stale (Status Offline) when its node stops re-registering.  A probe     *)
(* (alive) succeeds exactly when the node's process is up.  Consul itself  *)
(* is reachable and its calls succeed.                                     *)
(***************************************************************************)
EXTENDS Integers, FiniteSets

CONSTANTS
    Node,           \* cluster members (model values)
    MaxSessions,    \* bound on the sessions a node creates
    MaxRestarts,    \* bound on process restarts per node
    SlowKeepalive   \* whether a running node's entry may also time out

ASSUME MaxSessions \in Nat \ {0} /\ MaxRestarts \in Nat /\ SlowKeepalive \in BOOLEAN

Session   == Node \X (1..MaxSessions)
NoSession == <<"none", 0>>
Entry     == [reg: BOOLEAN, leader: BOOLEAN, fresh: BOOLEAN]
Absent    == [reg |-> FALSE, leader |-> FALSE, fresh |-> FALSE]
\* checkAlive holds no member list (a list it reads is never empty).
NoSnapshot == [v \in Node |-> Absent]

VARIABLES
    up,            \* the node's process is running
    status,        \* the consulIsLeader / consulIsFollower bits set in h.status
    session,       \* h.Session.ID
    made,          \* sessions the node has created (names the next one)
    restarts,      \* restarts per node (bounded)
    live,          \* sessions Consul holds as valid
    lockHolder,    \* session holding the lock key h.LockKey, or NoSession
    registry,      \* agent service entry per node (ID = h.sessionId)
    snapshot       \* member list checkAlive read and has not acted on yet

vars == <<up, status, session, made, restarts, live, lockHolder, registry, snapshot>>

Leaders == {n \in Node : up[n] /\ "leader" \in status[n]}
Owner(s) == s[1]

\* h.status ^= bit: toggle one bit of the bitmask.
Xor(bits, b) == IF b \in bits THEN bits \ {b} ELSE bits \cup {b}

\* Delete / Unlock on success: "if status & consulIsLeader > 0 { status ^=
\* consulIsLeader; status |= consulIsFollower }".
Demote(bits) ==
    IF "leader" \in bits THEN Xor(bits, "leader") \cup {"follower"} ELSE bits

\* Lock on a successful Acquire, with the follower check dropped.
PromoteOnLockUnchecked(bits) == Xor(bits, "follower") \cup {"leader"}

\* Lock on a successful Acquire: "if success && status & consulIsFollower > 0
\* { status ^= consulIsFollower; status |= consulIsLeader }".
PromoteOnLock(bits) ==
    IF "follower" \in bits THEN Xor(bits, "follower") \cup {"leader"} ELSE bits

\* Session.create: a new session of n, valid in Consul.
NewSession(n) == <<n, made[n] + 1>>
CreateSession(n) ==
    /\ session' = [session EXCEPT ![n] = NewSession(n)]
    /\ made' = [made EXCEPT ![n] = @ + 1]
    /\ live' = live \cup {NewSession(n)}

-----------------------------------------------------------------------------
Init ==
    /\ up = [n \in Node |-> TRUE]
    /\ status = [n \in Node |-> {"follower"}]
    /\ session = [n \in Node |-> <<n, 1>>]
    /\ made = [n \in Node |-> 1]
    /\ restarts = [n \in Node |-> 0]
    /\ live = {<<n, 1>> : n \in Node}
    /\ lockHolder = NoSession
    /\ registry = [n \in Node |-> Absent]
    /\ snapshot = [n \in Node |-> NoSnapshot]

\* Lock (binlog_consul.go 335-363): Acquire with the current session; it
\* succeeds when the key is free or already ours, and makes a follower the
\* leader.  An invalidated session makes Acquire fail with a "session"
\* error, on which a new session is created and false returned.
Lock(n) ==
    /\ up[n]
    /\ IF session[n] \in live
       THEN /\ lockHolder \in {NoSession, session[n]}
            /\ lockHolder' = session[n]
            /\ status' = [status EXCEPT ![n] = PromoteOnLock(@)]
            /\ UNCHANGED <<session, made, live>>
       ELSE /\ made[n] < MaxSessions
            /\ CreateSession(n)
            /\ UNCHANGED <<lockHolder, status>>
    /\ UNCHANGED <<up, restarts, registry, snapshot>>

\* keepalive loop body (118-127): renew the session, registerService with
\* is_leader from the current status and a fresh heartbeat time.
Keepalive(n) ==
    /\ up[n]
    /\ registry' = [registry EXCEPT ![n] = [reg |-> TRUE, leader |-> "leader" \in status[n], fresh |-> TRUE]]
    /\ UNCHANGED <<up, status, session, made, restarts, live, lockHolder, snapshot>>

\* Time passes without a re-registration: the entry's heartbeat becomes
\* older than serviceKeepaliveTimeout (GetMembers reports statusOffline).
Expire(n) ==
    /\ registry[n].reg /\ registry[n].fresh
    /\ ~up[n] \/ SlowKeepalive
    /\ registry' = [registry EXCEPT ![n].fresh = FALSE]
    /\ UNCHANGED <<up, status, session, made, restarts, live, lockHolder, snapshot>>

\* checkAlive, first half of an iteration: GetMembers (163-202).  With no
\* member registered the loop sleeps and retries.
CheckAliveRead(n) ==
    /\ up[n]
    /\ snapshot[n] = NoSnapshot
    /\ \E v \in Node : registry[v].reg
    /\ snapshot' = [snapshot EXCEPT ![n] = registry]
    /\ UNCHANGED <<up, status, session, made, restarts, live, lockHolder, registry>>

\* alive (263-279) with a probe that reaches some listener whatever the
\* member's state.
AliveAlways(v) == TRUE

\* alive (263-279): a TCP dial to the member's service address succeeds
\* exactly when its process is up.
Alive(v) == up[v]

\* The members of a list m, the timed-out members n finds dead when it
\* probes them (it skips its own entry), and leaderCount: members that say
\* leader and are online or answer the probe (checkAlive 221-241).
Members(m) == {v \in Node : m[v].reg}
Dead(n, m) == {v \in Members(m) \ {n} : ~m[v].fresh /\ ~Alive(v)}
LeaderCount(m) ==
    Cardinality({v \in Members(m) : m[v].leader /\ (m[v].fresh \/ Alive(v))})

\* The lock deletion of checkAlive without its leaderCount > 1 branch.
MustDeleteNoMultiLeader(n, m) ==
    \/ \E v \in Dead(n, m) : m[v].leader
    \/ LeaderCount(m) = 0 /\ "follower" \in status[n]

\* checkAlive deletes the lock key when a dead member was leader, when this
\* follower sees no live leader among a non-empty list, and when it sees
\* more than one leader (236-255).
MustDelete(n, m) ==
    \/ \E v \in Dead(n, m) : m[v].leader
    \/ LeaderCount(m) = 0 /\ "follower" \in status[n]
    \/ LeaderCount(m) > 1

\* checkAlive, rest of the iteration (217-259), on the member list read
\* before: deregister the dead members and, when MustDelete holds, Delete
\* (398-414) the lock key, which demotes this node if it was the leader.
CheckAliveAct(n) ==
    /\ up[n]
    /\ snapshot[n] # NoSnapshot
    /\ LET m == snapshot[n] IN
       /\ registry' = [v \in Node |-> IF v \in Dead(n, m) THEN Absent ELSE registry[v]]
       /\ lockHolder' = IF MustDelete(n, m) THEN NoSession ELSE lockHolder
       /\ status' = IF MustDelete(n, m) THEN [status EXCEPT ![n] = Demote(@)] ELSE status
    /\ snapshot' = [snapshot EXCEPT ![n] = NoSnapshot]
    /\ UNCHANGED <<up, session, made, restarts, live>>

\* Consul invalidates a session (its node's health check failed); the
\* session behaviour "delete" deletes the lock key it holds.
InvalidateSession(s) ==
    /\ s \in live
    /\ live' = live \ {s}
    /\ lockHolder' = IF lockHolder = s THEN NoSession ELSE lockHolder
    /\ UNCHANGED <<up, status, session, made, restarts, registry, snapshot>>

\* The process dies: its session and its registry entry stay in Consul.
Crash(n) ==
    /\ up[n]
    /\ up' = [up EXCEPT ![n] = FALSE]
    /\ snapshot' = [snapshot EXCEPT ![n] = NoSnapshot]
    /\ UNCHANGED <<status, session, made, restarts, live, lockHolder, registry>>

\* closeConsul (317-332) then exit: a leader unlocks and deletes the key
\* (whoever holds it), then the session is destroyed.
Stop(n) ==
    /\ up[n]
    /\ up' = [up EXCEPT ![n] = FALSE]
    /\ lockHolder' = IF "leader" \in status[n] \/ lockHolder = session[n]
                     THEN NoSession ELSE lockHolder
    /\ live' = live \ {session[n]}
    /\ snapshot' = [snapshot EXCEPT ![n] = NoSnapshot]
    /\ UNCHANGED <<status, session, made, restarts, registry>>

\* consulInit (15-62): status follower, a new session, and when the node's
\* own entry says leader but is timed out, Unlock (the new session holds
\* nothing) and Delete the key.
Restart(n) ==
    /\ ~up[n]
    /\ restarts[n] < MaxRestarts
    /\ made[n] < MaxSessions
    /\ up' = [up EXCEPT ![n] = TRUE]
    /\ restarts' = [restarts EXCEPT ![n] = @ + 1]
    /\ status' = [status EXCEPT ![n] = {"follower"}]
    /\ CreateSession(n)
    /\ lockHolder' = IF registry[n].leader /\ ~registry[n].fresh
                     THEN NoSession ELSE lockHolder
    /\ UNCHANGED <<registry, snapshot>>

-----------------------------------------------------------------------------
Next ==
    \/ \E n \in Node :
          \/ Lock(n) \/ Keepalive(n) \/ Expire(n) \/ CheckAliveRead(n)
          \/ CheckAliveAct(n) \/ Crash(n) \/ Stop(n) \/ Restart(n)
    \/ \E s \in live : InvalidateSession(s)

\* keepalive and checkAlive are loops of a running process; heartbeats age
\* as time passes.  Lock calls, crashes, stops, restarts and Consul's
\* session invalidation are not assumed to happen.
Fairness ==
    \A n \in Node :
        /\ WF_vars(Keepalive(n))
        /\ WF_vars(CheckAliveRead(n)) /\ WF_vars(CheckAliveAct(n))
        /\ WF_vars(Expire(n))

Spec == Init /\ [][Next]_vars /\ Fairness

-----------------------------------------------------------------------------
TypeOK ==
    /\ up \in [Node -> BOOLEAN]
    /\ status \in [Node -> {{"leader"}, {"follower"}}]
    /\ session \in [Node -> Session]
    /\ made \in [Node -> 1..MaxSessions]
    /\ restarts \in [Node -> 0..MaxRestarts]
    /\ live \subseteq Session
    /\ lockHolder \in Session \cup {NoSession}
    /\ registry \in [Node -> Entry]
    /\ snapshot \in [Node -> [Node -> Entry]]

\* Only one running node believes it is the leader (and runs the binlog
\* replication): spec section 1, "exactly one node owns the replication
\* stream at a time".
AtMostOneLeader == Cardinality(Leaders) <= 1

\* Split brain does not last: when two running nodes both believe they lead,
\* keepalive advertises it and checkAlive's leaderCount > 1 branch deletes
\* the lock and demotes them until at most one is left.
SplitBrainResolves == Cardinality(Leaders) > 1 ~> Cardinality(Leaders) <= 1

\* A lock left to a session whose node died or restarted is eventually
\* freed for a new election, unless a running node still leads or no node
\* runs to free it.
Orphaned(s) == lockHolder = s /\ (~up[Owner(s)] \/ session[Owner(s)] # s)
LockOrphaned == lockHolder # NoSession /\ Orphaned(lockHolder)

OrphanedLockFreed ==
    LockOrphaned ~> (~LockOrphaned \/ Leaders # {} \/ \A n \in Node : ~up[n])

=============================================================================
