--------------------------- MODULE CheckpointStore ---------------------------
(***************************************************************************)
(* The replication-position checkpoint of library/binlog/handler.go.       *)
(*                                                                         *)
(* The leader's binlog reader (canal) calls OnRow for every rows event of  *)
(* a transaction and OnPosSynced after it.  OnRow increments EventIndex    *)
(* once per notified row (an update's before/after images count once) and *)
(* notifies the services; OnPosSynced saves <<file, pos, EventIndex>> to   *)
(* the cache file with WriteAt(0).  At start handlerInit loads the cache   *)
(* and resumes from it, or from the master's current position when the     *)
(* cache yields none.  The process may crash anywhere between steps.       *)
(*                                                                         *)
(* The master's binlog is one file; a transaction boundary t is at byte    *)
(* offset 4 + t (a binlog starts with its 4-byte magic).  The cache file   *)
(* is a sequence of bytes and is encoded and parsed byte by byte.          *)
(***************************************************************************)
EXTENDS Integers, Sequences, SequencesExt, RowEncode

CONSTANTS
    Txn,         \* the master's transactions in order: [action, rows, db,
                 \* table, columns, values] (values: the stored value of
                 \* each column of every row image, RowEncode)
    NameBytes,   \* bytes of the binlog file name
    MaxCrashes,  \* bound on process crashes
    Cached       \* the cache already holds a checkpoint at the first transaction

ASSUME \A t \in 1..Len(Txn) : Txn[t].action \in {"insert", "update", "delete"}
                            /\ Txn[t].rows \in Nat \ {0}
ASSUME NameBytes \in Seq(0..255) /\ MaxCrashes \in Nat /\ Cached \in BOOLEAN

Byte == 0..255

\* OnRow notifies an update's rows pairwise (i += 2), other rows one by one.
Notifies(t) == IF Txn[t].action = "update" THEN Txn[t].rows \div 2 ELSE Txn[t].rows
\* Ordinal in the stream of the k-th notified row of transaction t + 1.
RowNo(t, k) == FoldLeft(LAMBDA acc, i : acc + Notifies(i), 0, [i \in 1..t |-> i]) + k
TotalRows == RowNo(Len(Txn), 0)
Offset(t) == 4 + t

\* v as k little-endian bytes (byte(v >> 8i)), and back (int64(b) << 8i).
RECURSIVE LE(_, _)
LE(v, k) == IF k = 0 THEN <<>> ELSE <<v % 256>> \o LE(v \div 256, k - 1)
RECURSIVE FromLE(_)
FromLE(bs) == IF bs = <<>> THEN 0 ELSE bs[1] + 256 * FromLE(Tail(bs))

\* packPos: [2-byte length][8-byte pos][8-byte index][file name].
Pack(name, pos, idx) == LE(16 + Len(name), 2) \o LE(pos, 8) \o LE(idx, 8) \o name

\* WriteAt(r, 0) without truncation: the bytes past r stay.
WriteAt(file, r) == r \o SubSeq(file, Len(r) + 1, Len(file))

NoCache == [name |-> <<>>, pos |-> 0, idx |-> 0]

\* getBinlogPositionCache with onPosChange's minimum length of 19.
LoadMinLen19(file) ==
    IF Len(file) < 2 THEN NoCache
    ELSE LET dl   == FromLE(SubSeq(file, 1, 2))
             data == [i \in 1..dl |-> IF 2 + i <= Len(file) THEN file[2 + i] ELSE 0]
         IN  IF dl < 19 THEN NoCache
             ELSE [name |-> SubSeq(data, 17, dl),
                   pos  |-> FromLE(SubSeq(data, 1, 8)),
                   idx  |-> FromLE(SubSeq(data, 9, 16))]

\* getBinlogPositionCache: read the 2-byte length, read that many bytes
\* into a zeroed buffer of that size, give up below 18 bytes, then parse.
Load(file) ==
    IF Len(file) < 2 THEN NoCache
    ELSE LET dl   == FromLE(SubSeq(file, 1, 2))
             data == [i \in 1..dl |-> IF 2 + i <= Len(file) THEN file[2 + i] ELSE 0]
         IN  IF dl < 18 THEN NoCache
             ELSE [name |-> SubSeq(data, 17, dl),
                   pos  |-> FromLE(SubSeq(data, 1, 8)),
                   idx  |-> FromLE(SubSeq(data, 9, 16))]

VARIABLES
    up,          \* the process runs
    written,     \* transactions the master has committed
    readTxn,     \* transactions canal has finished (the next is readTxn + 1)
    rowInTxn,    \* rows of the current transaction notified so far
    eventIndex,  \* h.EventIndex
    file,        \* bytes of cache/mysql_binlog_position.pos
    delivered,   \* <<row ordinal, event_index>> of every notify so far
    event,       \* the message of the last notify: <<transaction, OnRowMessage>>
    crashes

vars == <<up, written, readTxn, rowInTxn, eventIndex, file, delivered, event, crashes>>

\* The message OnRow builds for a row image of transaction t.
Message(t) == OnRowMessage(Txn[t].db, Txn[t].table, Txn[t].columns, Txn[t].values)

-----------------------------------------------------------------------------
\* The process has run handlerInit and reads from before the first
\* transaction: from the master's position on an empty cache, or from a
\* checkpoint an earlier OnPosSynced saved there.
Init ==
    /\ up = TRUE
    /\ written = 0
    /\ readTxn = 0
    /\ rowInTxn = 0
    /\ eventIndex = 0
    /\ file = IF Cached THEN Pack(NameBytes, Offset(0), 0) ELSE <<>>
    /\ delivered = {}
    /\ event = <<>>
    /\ crashes = 0

\* The master commits the next transaction.
Commit ==
    /\ written < Len(Txn)
    /\ written' = written + 1
    /\ UNCHANGED <<up, readTxn, rowInTxn, eventIndex, file, delivered, event, crashes>>

\* OnRow counting both images of an updated row in EventIndex.
RowCountsEveryImage ==
    /\ up
    /\ readTxn < written
    /\ rowInTxn < Notifies(readTxn + 1)
    /\ eventIndex' = eventIndex + (IF Txn[readTxn + 1].action = "update" THEN 2 ELSE 1)
    /\ delivered' = delivered \cup {<<RowNo(readTxn, rowInTxn + 1), eventIndex'>>}
    /\ event' = <<readTxn + 1, Message(readTxn + 1)>>
    /\ rowInTxn' = rowInTxn + 1
    /\ UNCHANGED <<up, written, readTxn, file, crashes>>

\* OnRow, one notified row: EventIndex + 1, then notify with it.
Row ==
    /\ up
    /\ readTxn < written
    /\ rowInTxn < Notifies(readTxn + 1)
    /\ eventIndex' = eventIndex + 1
    /\ delivered' = delivered \cup {<<RowNo(readTxn, rowInTxn + 1), eventIndex + 1>>}
    /\ event' = <<readTxn + 1, Message(readTxn + 1)>>
    /\ rowInTxn' = rowInTxn + 1
    /\ UNCHANGED <<up, written, readTxn, file, crashes>>

\* OnPosSynced saving the position where the transaction started.
PosSyncedSavesTxnStart ==
    /\ up
    /\ readTxn < written
    /\ rowInTxn = Notifies(readTxn + 1)
    /\ file' = WriteAt(file, Pack(NameBytes, Offset(readTxn), eventIndex))
    /\ readTxn' = readTxn + 1
    /\ rowInTxn' = 0
    /\ UNCHANGED <<up, written, eventIndex, delivered, event, crashes>>

\* OnPosSynced after the transaction's rows: save the position after it
\* with the current EventIndex (the Write to followers is not modelled).
PosSynced ==
    /\ up
    /\ readTxn < written
    /\ rowInTxn = Notifies(readTxn + 1)
    /\ file' = WriteAt(file, Pack(NameBytes, Offset(readTxn + 1), eventIndex))
    /\ readTxn' = readTxn + 1
    /\ rowInTxn' = 0
    /\ UNCHANGED <<up, written, eventIndex, delivered, event, crashes>>

Crash ==
    /\ up
    /\ crashes < MaxCrashes
    /\ up' = FALSE
    /\ crashes' = crashes + 1
    /\ UNCHANGED <<written, readTxn, rowInTxn, eventIndex, file, delivered, event>>

\* handlerInit and Start: load the cache; resume from its position, or from
\* the master's current position (the end of what it has written).
Restart ==
    /\ ~up
    /\ LET c == Load(file) IN
       /\ eventIndex' = c.idx
       /\ readTxn' = IF c.pos > 0 THEN c.pos - 4 ELSE written
    /\ up' = TRUE
    /\ rowInTxn' = 0
    /\ UNCHANGED <<written, file, delivered, event, crashes>>

Next == Commit \/ Row \/ PosSynced \/ Crash \/ Restart

Spec == Init /\ [][Next]_vars

-----------------------------------------------------------------------------
TypeOK ==
    /\ up \in BOOLEAN
    /\ written \in 0..Len(Txn) /\ readTxn \in 0..written
    /\ rowInTxn \in Nat
    /\ eventIndex \in 0..TotalRows
    /\ file \in Seq(Byte)
    /\ delivered \subseteq (1..TotalRows) \X (0..TotalRows)
    /\ crashes \in 0..MaxCrashes
    /\ event = <<>> \/ event[1] \in 1..Len(Txn)

\* Every row notified carries as event_index its ordinal in the stream,
\* also when it is notified again after a restart resumed from the cache:
\* OnRow's increments, OnPosSynced's saved <<pos, EventIndex>> and
\* handlerInit's restore agree.
IndexFollowsRow == \A d \in delivered : d[2] = d[1]

\* No row before the reader's position was skipped: a restart resumes
\* from the saved position, never past a row that was not notified
\* (spec 4.4: load(save(f, p, e)) = (f, p, e)).
NoEventSkipped ==
    \A r \in 1..RowNo(readTxn, rowInTxn) : \E d \in delivered : d[1] = r

\* Every column value of the last event is rendered by append as the value
\* the column holds: each integer width, signed or unsigned (the int8,
\* int16 and int32 corrections, and the "int" prefix test that tells an
\* unsigned mediumint from an unsigned int), every ENUM index and every SET
\* mask; a column past the row's length as null.
ColumnRendered ==
    event # <<>> =>
        LET t == event[1] IN
        \A k \in 1..Len(Txn[t].columns) :
            event[2].cols[k] = IF k <= Len(Txn[t].values)
                               THEN Holds(Txn[t].columns[k], Txn[t].values[k])
                               ELSE [kind |-> "null"]

\* The event SendAll packs, after splitting off OnRow's table header, is
\* the JSON text OnRow wrote after it.
HeaderSplits == event # <<>> => Payload(event[2].head) = <<LBrace>>

=============================================================================
