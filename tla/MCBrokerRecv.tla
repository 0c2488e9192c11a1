---------------------------- MODULE MCBrokerRecv ----------------------------
EXTENDS BrokerRecv

\* v as k little-endian bytes: the 4-byte weight of a SET_PRO (spec 4.1).
RECURSIVE LEBytes(_, _)
LEBytes(v, k) == IF k = 0 THEN <<>> ELSE <<v % 256>> \o LEBytes(v \div 256, k - 1)

\* The group name "g".
MCGroups == {<<103>>}

\* A subscriber following spec 4.1: SET_PRO with weight 50 and group "g",
\* then three keepalives (client.go's pack(CMD_TICK, "")).
MCSubscriber == << Pack(CMD_SET_PRO, LEBytes(50, 4) \o <<103>>),
                   Pack(CMD_TICK, <<>>), Pack(CMD_TICK, <<>>), Pack(CMD_TICK, <<>>) >>
\* A subscriber whose SET_PRO has a weight above 100, then keepalives.
MCBadWeight(ticks) == << Pack(CMD_SET_PRO, LEBytes(200, 4) \o <<103>>) >>
                      \o [i \in 1..ticks |-> Pack(CMD_TICK, <<>>)]
MCBadWeight1 == MCBadWeight(1)
MCBadWeight3 == MCBadWeight(3)

\* clients/client.go: pack(CMD_SET_PRO, groupName) with no weight, then its
\* keepalive pack(CMD_TICK, "").
MCClientGo == << ClientPack(CMD_SET_PRO, <<103>>), ClientPack(CMD_TICK, <<>>),
                 ClientPack(CMD_TICK, <<>>) >>

\* The forwarding agent: its handshake pack(CMD_AGENT, "") (CMD_AGENT is not
\* one of the broker's commands) and its keepalive pack(CMD_TICK, "agent
\* keep alive"), whose 16-byte text is shortened to 4 bytes here.
MCCmdAgent == 7
MCAgent == << Pack(MCCmdAgent, <<>>), Pack(CMD_TICK, <<97, 107, 97, 108>>) >>
=============================================================================
