\* keepalive's write and Start's read both fail on a lost connection: the
\* two disconnects interleave between the Connect test and the ^=.
CONSTANTS
    Events <- MCEvents
    CMD_AGENT <- MCCmdAgent
    SpecHandshake = TRUE
    AgentGroup <- MCAgentGroup
    Faults = TRUE
    ReadSize = 3
    Chan1Cap = 1
    MaxConns = 1
    MaxEvents = 1
    MaxTicks = 1
SPECIFICATION Spec
INVARIANT StatusBitsExclusive
\* Start has returned, or waits on a connection with nothing more to read,
\* or dials and fails for ever once the connections are used up.
CHECK_DEADLOCK FALSE
