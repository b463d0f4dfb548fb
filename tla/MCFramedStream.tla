--------------------------- MODULE MCFramedStream ---------------------------
(* Packets of zero, one and more than Base bytes, and a limit between; the *)
(* long one begins like a short one.                                       *)
EXTENDS FramedStream, Bitwise

MCPackets == {"empty", "one", "two", "long"}

MCEncoding == [empty |-> <<>>, one |-> <<1>>, two |-> <<2>>, long |-> <<1, 0, 2, 3, 1>>]

MCXor == [a \in Byte |-> [b \in Byte |-> a ^^ b]]
=============================================================================
