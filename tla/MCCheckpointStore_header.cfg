\* As MCCheckpointStore.cfg, on a 192-byte table of a 64-byte database:
\* db.table is 257 bytes, more than SendAll's one-byte length reads.
CONSTANTS
    Txn <- MCTxnLongNames
    NameBytes <- MCName2
    MaxCrashes = 3
    Cached = TRUE
SPECIFICATION Spec
INVARIANT HeaderSplits
\* After the last transaction the reader waits for the master.
CHECK_DEADLOCK FALSE
