----------------------------- MODULE MCUdpPeers -----------------------------
(* A small instance of UdpPeers for TLC: more associations than slots, so  *)
(* that addresses are reused and slots run out.                            *)
EXTENDS UdpPeers

CONSTANTS a1, a2, p1, p2, p3

TheAddresses == {a1, a2}
TheAssociations == {p1, p2, p3}
=============================================================================
