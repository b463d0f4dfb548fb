------------------------ MODULE ConnectionLifecycle ------------------------
(***************************************************************************)
(* What an endpoint promises the application about a connection: it is     *)
(* announced once, then its packets are delivered in the order in which    *)
(* they were read, then its end is announced once, and nothing follows.    *)
(* The registry resource lists exactly the connections between the two     *)
(* announcements.  A stream skips no packet; a datagram endpoint may, but  *)
(* delivers none once the application has asked to disconnect.             *)
(***************************************************************************)
EXTENDS Naturals

CONSTANTS
    Connections,
    Datagram,    \* Protocol::DATAGRAM
    MaxPackets   \* bound: packets read from each connection

VARIABLES
    view,        \* what the application has been told of each connection
    registered,  \* connections listed by the registry resource
    last,        \* number of the last packet delivered
    asked        \* the application has called disconnect()

vars == <<view, registered, last, asked>>

Init ==
    /\ view = [c \in Connections |-> "unknown"]
    /\ registered = {}
    /\ last = [c \in Connections |-> 0]
    /\ asked = [c \in Connections |-> FALSE]

Open(c) ==
    /\ view[c] = "unknown"
    /\ view' = [view EXCEPT ![c] = "open"]
    /\ registered' = registered \cup {c}
    /\ UNCHANGED <<last, asked>>

Deliver(c, n) ==
    /\ view[c] = "open"
    /\ IF Datagram THEN n > last[c] /\ ~asked[c] ELSE n = last[c] + 1
    /\ last' = [last EXCEPT ![c] = n]
    /\ UNCHANGED <<view, registered, asked>>

Disconnect(c) ==
    /\ view[c] # "unknown"
    /\ asked' = [asked EXCEPT ![c] = TRUE]
    /\ UNCHANGED <<view, registered, last>>

Close(c) ==
    /\ view[c] = "open"
    /\ view' = [view EXCEPT ![c] = "closed"]
    /\ registered' = registered \ {c}
    /\ UNCHANGED <<last, asked>>

Next ==
    \E c \in Connections :
        \/ Open(c)
        \/ \E n \in 1..MaxPackets[c] : Deliver(c, n)
        \/ Disconnect(c)
        \/ Close(c)

Spec == Init /\ [][Next]_vars
=============================================================================
