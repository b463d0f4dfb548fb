-------------------------- MODULE MCServerEndpoint --------------------------
EXTENDS ServerEndpoint, TLC

CONSTANTS c1, c2

MCConnections == {c1, c2}

\* Streams: one connection with packets whose order can be told, and one that
\* competes with it for the channels.
StreamPackets == [c \in MCConnections |-> IF c = c1 THEN 2 ELSE 0]

LivePackets == [c \in MCConnections |-> IF c = c1 THEN 1 ELSE 0]

\* Datagrams: one packet each, for a queue that holds one.
DatagramPackets == [c \in MCConnections |-> 1]

\* Sound where no liveness is checked: all connections are alike.
Interchangeable == Permutations(MCConnections)
=============================================================================
