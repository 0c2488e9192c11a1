------------------------- MODULE MCCheckpointStore -------------------------
EXTENDS CheckpointStore

\* Column types: every integer type signed and unsigned, an ENUM and a SET
\* of three members.
MCMembers == <<"a", "b", "c">>
MCIntTypes == <<"tinyint", "smallint", "mediumint", "int", "bigint">>
MCIntColumn(i) == [raw |-> MCIntTypes[((i - 1) % 5) + 1], unsigned |-> i > 5, values |-> <<>>]
MCEnum == [raw |-> "enum", unsigned |-> FALSE, values |-> MCMembers]
MCSet == [raw |-> "set", unsigned |-> FALSE, values |-> MCMembers]

\* The extreme bit patterns of a width that TLC's integers hold (a bigint's
\* are those of 32 bits), -1, 0 and 1.
MCPatterns(col) ==
    LET half == 2^((IF StorageBits(col.raw) = 64 THEN 32 ELSE StorageBits(col.raw)) - 2)
    IN  <<-half - half, -1, 0, 1, (half - 1) + half>>

\* A table with one column per (integer type, signedness, pattern), one
\* per ENUM index 1..3 and one per SET mask; the row holds those values.
MCIntCols == FlattenSeq([i \in 1..10 |-> [j \in 1..5 |-> MCIntColumn(i)]])
MCIntVals == FlattenSeq([i \in 1..10 |-> MCPatterns(MCIntColumn(i))])
MCColumns == MCIntCols \o [i \in 1..3 |-> MCEnum] \o [i \in 1..8 |-> MCSet]
MCValues == MCIntVals \o <<1, 2, 3>> \o [i \in 1..8 |-> i - 1]

\* Names "db" and "t1"; names of 64 and 192 bytes (64 characters of three
\* bytes each in utf8, MySQL's longest name).
MCDb == <<100, 98>>
MCTable == <<116, 49>>
MCLongDb == [i \in 1..64 |-> 100]
MCLongTable == [i \in 1..192 |-> 116]

\* An insert of two rows, then an update of one row (two images), then a
\* delete of one row whose image lacks the table's last column.
MCTxn == <<[action |-> "insert", rows |-> 2, db |-> MCDb, table |-> MCTable,
            columns |-> MCColumns, values |-> MCValues],
           [action |-> "update", rows |-> 2, db |-> MCDb, table |-> MCTable,
            columns |-> MCColumns, values |-> MCValues],
           [action |-> "delete", rows |-> 1, db |-> MCDb, table |-> MCTable,
            columns |-> MCColumns, values |-> SubSeq(MCValues, 1, Len(MCValues) - 1)]>>
\* The same transactions on a table with an ENUM column holding index 0,
\* MySQL's empty value for a member that was invalid on insert.
MCTxnEnum0 == [t \in 1..3 |-> [MCTxn[t] EXCEPT !.columns = <<MCEnum>>, !.values = <<0>>]]
\* The same transactions on a 192-byte table of a 64-byte database.
MCTxnLongNames == [t \in 1..3 |-> [MCTxn[t] EXCEPT !.db = MCLongDb, !.table = MCLongTable]]
\* A binlog file name of two bytes ("b1"), and of one byte ("b").
MCName2 == <<98, 49>>
MCName1 == <<98>>
=============================================================================
