--------------------------- MODULE MCPacketBuffer ---------------------------
(***************************************************************************)
(* PacketBuffer for TLC: payloads of no, one, two, all and more bytes than *)
(* fit, two of one byte told apart, in storages small                      *)
(* enough to wrap and to run out of bytes or of metadata slots.            *)
(***************************************************************************)
EXTENDS PacketBuffer

CONSTANTS h, None

MCHeader == {h}
Tagged(n, b) == [i \in 1..n |-> IF i = 1 THEN b ELSE 2]
MCPayloads ==
    {Tagged(n, 0) : n \in {0, 1, 2, DataCap, DataCap + 1}} \cup {Tagged(1, 1)}

\* Only payloads of at least one byte: every entry owns one.  Padding is
\* shorter than the packet after it, so it takes a slot in which a packet is
\* missing only with at least two slots fewer than bytes.
MCNonEmptyPayloads == {Tagged(n, 0) : n \in 1..3} \cup {Tagged(1, 1)}
=============================================================================
