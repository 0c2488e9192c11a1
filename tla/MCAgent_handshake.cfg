\* The agent as written: its handshake is pack(CMD_AGENT, "").
CONSTANTS
    Events <- MCEvents
    CMD_AGENT <- MCCmdAgent
    SpecHandshake = FALSE
    AgentGroup <- MCAgentGroup
    Faults = FALSE
    ReadSize = 4
    Chan1Cap = 1
    MaxConns = 1
    MaxEvents = 2
    MaxTicks = 1
SPECIFICATION Spec
INVARIANT HandshakeAdmits
\* Start has returned, or waits on a connection with nothing more to read,
\* or dials and fails for ever once the connections are used up.
CHECK_DEADLOCK FALSE
