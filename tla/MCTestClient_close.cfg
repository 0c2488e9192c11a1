\* Close racing Start: a Close that lands between the isConnect check and
\* the next init is undone by init's successful dial.
CONSTANTS
    Services <- MCServices
    Groups <- MCGroups
    RecvSize = 24
    ReadSize = 3
    Closable = TRUE
    Faults = TRUE
    MaxDials = 3
    MaxTicks = 2
SPECIFICATION Spec
INVARIANT StaysClosed
\* Start may return, block in a read that nothing answers, or dial and
\* fail for ever once the dials are used up.
CHECK_DEADLOCK FALSE
