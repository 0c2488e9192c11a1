\* Well-behaved clients (one frame each, a SET_PRO at most): the early return
\* on clients_count, the weighted choice, close handling, progress of SendAll
\* and the refinement of Fanout.
CONSTANTS
    Conn = {c1, c2}
    Group = {"bcast", "wgt"}
    GroupMode <- MCGroupMode
    Table = {"t1", "t2"}
    GroupMatches <- MCGroupMatches
    Weights = {40, 200}
    UnknownGroup = "nosuch"
    QueueCap = 1
    MaxEvents = 2
    MaxFrames = 1
    ClientsRejoin = FALSE
SPECIFICATION Spec
INVARIANT TypeOK
INVARIANT NoPanic
PROPERTY EarlyReturnDropsNothing
PROPERTY WeightedPicksLeastLoaded
PROPERTY NotifyCompletes
PROPERTY ImplementsFanout
\* The broker really idles: every client gone and the binlog bound reached.
CHECK_DEADLOCK FALSE
