\* As MCCheckpointStore.cfg, on a table whose ENUM column holds index 0:
\* append indexes EnumValues[-1].
CONSTANTS
    Txn <- MCTxnEnum0
    NameBytes <- MCName2
    MaxCrashes = 3
    Cached = TRUE
SPECIFICATION Spec
INVARIANT ColumnRendered
\* After the last transaction the reader waits for the master.
CHECK_DEADLOCK FALSE
