------------------------------ MODULE RowEncode ------------------------------
(***************************************************************************)
(* How OnRow (library/binlog/handler.go) renders a row event: the table    *)
(* header that SendAll (library/services/tcp.go) splits off again, and     *)
(* append's rendering of one column value.                                 *)
(*                                                                         *)
(* canal (go-mysql, outside the repository) hands OnRow an integer column  *)
(* as the signed Go integer of its storage size: tinyint int8, smallint    *)
(* int16, mediumint (sign-extended from 24 bits) and int int32, bigint     *)
(* int64; an ENUM as its int64 index (0 is the empty value MySQL stores    *)
(* for an invalid one) and a SET as its int64 bitmask.  A stored value is  *)
(* given here as that signed bit pattern p; an unsigned column holds p     *)
(* modulo 2^bits.                                                          *)
(*                                                                         *)
(* The JSON token append writes is a record: a number lo + 2^wrap (wrap 0  *)
(* for none: TLC's integers are 32-bit, so 2^32 and 2^64 stay symbolic), a *)
(* string given as the sequence of enum or set member names it joins with  *)
(* ",", or a panic (an index out of range kills the process).  Names of    *)
(* databases, tables and members are opaque bytes.                         *)
(***************************************************************************)
EXTENDS Integers, Sequences, FiniteSets, Bitwise

IntTypes == {"tinyint", "smallint", "mediumint", "int", "bigint"}

\* The storage size of an integer column type, in bits.
StorageBits(raw) ==
    CASE raw = "tinyint" -> 8 [] raw = "smallint" -> 16 [] raw = "mediumint" -> 24
      [] raw = "int" -> 32 [] OTHER -> 64

\* The Go type canal decodes a column of type raw to.
GoTypeOf(raw) ==
    CASE raw = "tinyint" -> "int8" [] raw = "smallint" -> "int16"
      [] raw \in {"mediumint", "int"} -> "int32" [] OTHER -> "int64"

\* string([]byte(column.RawType)[0:3]) and RawType[0:4] for the type names.
Prefix3(raw) ==
    CASE raw = "tinyint" -> "tin" [] raw = "smallint" -> "sma" [] raw = "mediumint" -> "med"
      [] raw = "int" -> "int" [] raw = "bigint" -> "big" [] raw = "enum" -> "enu" [] OTHER -> "set"
Prefix4(raw) == IF raw = "enum" THEN "enum" ELSE "other"

Num(lo, wrap) == [kind |-> "num", lo |-> lo, wrap |-> wrap]
Str(names) == [kind |-> "str", names |-> names]
Panic == [kind |-> "panic"]

\* The value of a number whose wrap fits TLC's integers, made explicit.
Norm(x) == IF x.kind = "num" /\ x.wrap \in 1..24 THEN Num(x.lo + 2^x.wrap, 0) ELSE x

-----------------------------------------------------------------------------
\* OnRow's header: byte(dblen), byte(dblen >> 8), db, ".", table.
Dot == 46
TableHeader(db, table) ==
    LET dblen == Len(db) + 1 + Len(table)
    IN  <<dblen % 256, (dblen \div 256) % 256>> \o db \o <<Dot>> \o table

\* SendAll: table_len := int(msg[0]) + int(msg[1] << 8), where msg[1] << 8
\* is a byte shift and gives 0; the event it packs is msg[table_len+2:].
TableLen(msg) == msg[1] + ((msg[2] * 256) % 256)
Payload(msg) == SubSeq(msg, TableLen(msg) + 3, Len(msg))

-----------------------------------------------------------------------------
\* The int32 case with the mediumint test dropped: every negative value of
\* an unsigned int32 column is taken as an int.
AppendInt32NoMedium(col, p) ==
    IF col.unsigned /\ p < 0 THEN Num(p, 32) ELSE Num(p, 0)

\* case int32: a negative value of an unsigned column gets 1 << 24 added
\* unless RawType starts with "int", else 4294967296.
AppendInt32(col, p) ==
    IF col.unsigned /\ p < 0
    THEN IF Prefix3(col.raw) # "int" THEN Num(p + 2^24, 0) ELSE Num(p, 32)
    ELSE Num(p, 0)

\* case int64, a SET: for i below len(SetValues), SetValues[i] is joined
\* when v & (1 << i) > 0.
SetNames(col, v) ==
    LET RECURSIVE From(_)
        From(i) == IF i = Len(col.values) THEN <<>>
                   ELSE (IF (v & 2^i) > 0 THEN <<col.values[i + 1]>> ELSE <<>>) \o From(i + 1)
    IN  From(0)

\* case int64: an ENUM's name is EnumValues[v - 1] (out of range panics), a
\* SET's joined names, an unsigned bigint uint64(v), any other int64 v.
AppendInt64(col, v) ==
    IF Prefix4(col.raw) = "enum"
    THEN IF v - 1 < 0 \/ v - 1 >= Len(col.values) THEN Panic ELSE Str(<<col.values[v]>>)
    ELSE IF Prefix3(col.raw) = "set" THEN Str(SetNames(col, v))
    ELSE IF col.unsigned /\ v < 0 THEN Num(v, 64)
    ELSE Num(v, 0)

\* append(buf, edata, column) for the Go types canal hands over for these
\* columns: int8 and int16 add 256 or 65536 to a negative value of an
\* unsigned column; nil (a column past the row's length) is null.
AppendValue(col, gotype, p) ==
    CASE gotype = "nil"   -> [kind |-> "null"]
      [] gotype = "int8"  -> IF col.unsigned /\ p < 0 THEN Num(p + 256, 0) ELSE Num(p, 0)
      [] gotype = "int16" -> IF col.unsigned /\ p < 0 THEN Num(p + 65536, 0) ELSE Num(p, 0)
      [] gotype = "int32" -> AppendInt32(col, p)
      [] OTHER            -> AppendInt64(col, p)

\* What OnRow writes for a stored value p of column col.
Rendered(col, p) == Norm(AppendValue(col, GoTypeOf(col.raw), p))

-----------------------------------------------------------------------------
\* Reference: what the column holds.  An integer column holds p, or p
\* modulo 2^bits when unsigned; an ENUM the member with index p, or ""
\* (no member) for index 0; a SET the members whose bit p has set.
Holds(col, p) ==
    LET on == SelectSeq([i \in 1..Len(col.values) |-> i],
                        LAMBDA i : (p \div 2^(i - 1)) % 2 = 1)
    IN  IF col.raw \in IntTypes
        THEN Norm(IF col.unsigned /\ p < 0 THEN Num(p, StorageBits(col.raw)) ELSE Num(p, 0))
        ELSE IF col.raw = "enum" THEN Str(IF p = 0 THEN <<>> ELSE <<col.values[p]>>)
        ELSE Str([j \in 1..Len(on) |-> col.values[on[j]]])

\* The message OnRow passes to notify for a row image of table db.table:
\* the header, the JSON text up to the first column value (its first byte
\* "{"), and what append writes for each of the table's columns, nil for
\* a column past the row's length (a row written before the column was
\* added).
LBrace == 123
OnRowMessage(db, table, columns, values) ==
    [head |-> TableHeader(db, table) \o <<LBrace>>,
     cols |-> [k \in 1..Len(columns) |->
                 IF k <= Len(values) THEN Rendered(columns[k], values[k])
                 ELSE Norm(AppendValue(columns[k], "nil", 0))]]

=============================================================================
