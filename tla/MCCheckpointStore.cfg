\* Three transactions, up to three crashes anywhere, a two-byte file name,
\* a checkpoint saved before the first transaction.
CONSTANTS
    Txn <- MCTxn
    NameBytes <- MCName2
    MaxCrashes = 3
    Cached = TRUE
SPECIFICATION Spec
INVARIANT TypeOK
INVARIANT IndexFollowsRow
INVARIANT NoEventSkipped
INVARIANT ColumnRendered
\* After the last transaction the reader waits for the master.
CHECK_DEADLOCK FALSE
