-------------------------- MODULE MCClientEndpoint --------------------------
EXTENDS ClientEndpoint, TLC

CONSTANTS c1, c2, c3

MCConnections == {c1, c2, c3}

TwoConnections == {c1, c2}

\* The read side of a stream is checked with the server; here only requests,
\* attempts and ends compete for the channel.
NoPackets == [c \in Connections |-> 0]

\* One connection's packet competes with the other's announcements.
OnePacket == [c \in Connections |-> IF c = c1 THEN 1 ELSE 0]

Interchangeable == Permutations(Connections)
=============================================================================
