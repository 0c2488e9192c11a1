------------------------------- MODULE Frame -------------------------------
(***************************************************************************)
(* The wire format of the subscriber protocol (library/services/config.go, *)
(* tcp.go pack, clients/client.go pack): a frame is                        *)
(*   [4-byte length l][2-byte cmd][content]   with l = len(content) + 2,   *)
(* little-endian, as a sequence of byte values.                            *)
(***************************************************************************)
EXTENDS Integers, Sequences

\* Commands of library/services/config.go.
CMD_SET_PRO == 1
CMD_AUTH    == 2
CMD_OK      == 3
CMD_ERROR   == 4
CMD_TICK    == 5
CMD_EVENT   == 6

Byte == 0..255

\* Go's byte(v): the low 8 bits of a non-negative int.
GoByte(v) == v % 256

\* tcp.go pack: r[3] is byte(cl >> 32) (written as two shifts of 16, as TLC
\* integers are 32-bit); for any cl below 2^32 it is 0
\* (bits 24..31 of the length are lost).
Pack(cmd, content) ==
    LET cl == Len(content) + 2
    IN  <<GoByte(cl), GoByte(cl \div 2^8), GoByte(cl \div 2^16), GoByte((cl \div 2^16) \div 2^16),
          GoByte(cmd), GoByte(cmd \div 2^8)>> \o content

\* clients/client.go pack: the same encoding, built by append after r[:6].
ClientPack(cmd, content) == Pack(cmd, content)

=============================================================================
