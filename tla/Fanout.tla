------------------------------- MODULE Fanout -------------------------------
(***************************************************************************)
(* What the subscriber broker promises each subscriber, without groups,    *)
(* weights, locks or frames (spec section 1: at-least-once delivery and    *)
(* ordering per subscriber, best effort).                                  *)
(*                                                                         *)
(* Events are numbered 1, 2, ... in the order they are notified.  A        *)
(* subscriber is a member from its handshake until its connection closes.  *)
(* The broker may hand the latest event to any member, at most once and    *)
(* never after a later one: q[c] is what is handed to c and not yet        *)
(* written, done[c] the last event written to c.  Events are handed only   *)
(* to members; what was handed may still be written after the subscriber  *)
(* left (nothing is promised for it either way).                           *)
(***************************************************************************)
EXTENDS Naturals, Sequences

CONSTANTS
    Conn,       \* subscribers (connections)
    MaxEvents   \* bound on notified events

VARIABLES
    n,          \* events notified so far
    members,    \* subscribers that joined and have not left
    left,       \* subscribers that left (a connection never comes back)
    q,          \* [Conn -> Seq(event)]: handed to c, not yet written
    done        \* [Conn -> event]: the last event written to c (0: none)

vars == <<n, members, left, q, done>>

Latest(c) == IF q[c] = <<>> THEN done[c] ELSE q[c][Len(q[c])]

Init ==
    /\ n = 0
    /\ members = {} /\ left = {}
    /\ q = [c \in Conn |-> <<>>]
    /\ done = [c \in Conn |-> 0]

Notify ==
    /\ n < MaxEvents
    /\ n' = n + 1
    /\ UNCHANGED <<members, left, q, done>>

Join(c) ==
    /\ c \notin members \cup left
    /\ members' = members \cup {c}
    /\ UNCHANGED <<n, left, q, done>>

Leave(c) ==
    /\ c \in members
    /\ members' = members \ {c}
    /\ left' = left \cup {c}
    /\ UNCHANGED <<n, q, done>>

\* The latest event is handed to a member that has not had it or a later one.
Hand(c) ==
    /\ c \in members
    /\ Latest(c) < n
    /\ q' = [q EXCEPT ![c] = Append(@, n)]
    /\ UNCHANGED <<n, members, left, done>>

\* The oldest event handed to a subscriber is written to it.
Write(c) ==
    /\ q[c] # <<>>
    /\ done' = [done EXCEPT ![c] = Head(q[c])]
    /\ q' = [q EXCEPT ![c] = Tail(@)]
    /\ UNCHANGED <<n, members, left>>

Next ==
    \/ Notify
    \/ \E c \in Conn : Join(c) \/ Leave(c) \/ Hand(c) \/ Write(c)

Spec == Init /\ [][Next]_vars

=============================================================================
