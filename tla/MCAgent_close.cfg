\* Close runs while Start is between dialling and its handshake.
CONSTANTS
    Events <- MCEvents
    CMD_AGENT <- MCCmdAgent
    SpecHandshake = TRUE
    AgentGroup <- MCAgentGroup
    Faults = FALSE
    ReadSize = 4
    Chan1Cap = 1
    MaxConns = 1
    MaxEvents = 2
    MaxTicks = 1
SPECIFICATION Spec
INVARIANT NoConnectionAfterClose
\* Start has returned, or waits on a connection with nothing more to read,
\* or dials and fails for ever once the connections are used up.
CHECK_DEADLOCK FALSE
