\* A connection fails with part of a frame read; the agent dials again and
\* appends the new connection's bytes to the old partial frame.
CONSTANTS
    Events <- MCEvents
    CMD_AGENT <- MCCmdAgent
    SpecHandshake = TRUE
    AgentGroup <- MCAgentGroup
    Faults = TRUE
    ReadSize = 4
    Chan1Cap = 1
    MaxConns = 2
    MaxEvents = 2
    MaxTicks = 1
SPECIFICATION Spec
INVARIANT EventsDecoded
\* Start has returned, or waits on a connection with nothing more to read,
\* or dials and fails for ever once the connections are used up.
CHECK_DEADLOCK FALSE
