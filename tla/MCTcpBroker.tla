---------------------------- MODULE MCTcpBroker ----------------------------
(***************************************************************************)
(* TcpBroker instantiated for TLC: one broadcast group with a filter and   *)
(* one weighted group without a filter (it takes every table).             *)
(***************************************************************************)
EXTENDS TcpBroker, TLC

MCGroupMode == [g \in Group |-> IF g = "bcast" THEN MODEL_BROADCAST ELSE MODEL_WEIGHT]

\* "bcast" has filter ["^db\\.t1$"], "wgt" has no filter.
MCGroupMatches == [g \in Group |-> IF g = "bcast" THEN {"t1"} ELSE Table]

MCSymmetry == Permutations(Conn)
=============================================================================
