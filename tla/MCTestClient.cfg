\* Two services, three dials, two keepalives, reads of up to 3 bytes, the
\* broker's recv_buf scaled to 24 bytes; Close is called and the network
\* may fail.
CONSTANTS
    Services <- MCServices
    Groups <- MCGroups
    RecvSize = 24
    ReadSize = 3
    Closable = TRUE
    Faults = TRUE
    MaxDials = 3
    MaxTicks = 2
SPECIFICATION Spec
INVARIANT TypeOK
INVARIANT NoSelfDeadlock
INVARIANT NoLeakedConnection
\* Start may return, block in a read that nothing answers, or dial and
\* fail for ever once the dials are used up.
CHECK_DEADLOCK FALSE
