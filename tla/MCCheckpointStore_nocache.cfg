\* As MCCheckpointStore.cfg, but no checkpoint saved yet: a crash before the
\* first OnPosSynced makes handlerInit resume from the master's position.
CONSTANTS
    Txn <- MCTxn
    NameBytes <- MCName2
    MaxCrashes = 1
    Cached = FALSE
SPECIFICATION Spec
INVARIANT NoEventSkipped
\* After the last transaction the reader waits for the master.
CHECK_DEADLOCK FALSE
