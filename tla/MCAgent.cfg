\* The agent with the handshake of spec 4.5, so that events flow, over one
\* connection, which may fail at any byte (Close may also close it with
\* bytes in flight); once it is lost, the agent dials and fails.
CONSTANTS
    Events <- MCEvents
    CMD_AGENT <- MCCmdAgent
    SpecHandshake = TRUE
    AgentGroup <- MCAgentGroup
    Faults = TRUE
    ReadSize = 3
    Chan1Cap = 1
    MaxConns = 1
    MaxEvents = 2
    MaxTicks = 1
SPECIFICATION Spec
INVARIANT TypeOK
INVARIANT EventsDecoded
PROPERTY EventsEventuallyDecoded
\* Start has returned, or waits on a connection with nothing more to read,
\* or dials and fails for ever once the connections are used up.
CHECK_DEADLOCK FALSE
