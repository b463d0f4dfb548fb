----------------------------- MODULE MCSessions -----------------------------
(* One channel: every loss, repetition and order of its packets.           *)
EXTENDS Sessions

CONSTANT c1

MCChannels == {c1}
=============================================================================
