----------------------------- MODULE PacketStream -----------------------------
(***************************************************************************)
(* What a socket transport promises to the MQTT client, whose packets have *)
(* to reach the broker as one stream of bytes: on one connection the       *)
(* network is handed packets in the order in which they were sent, each    *)
(* from its first byte to its last and none twice.  A packet may be        *)
(* missing, but never a part of one - until the client has been told of an *)
(* error.  A new connection starts anew.                                   *)
(***************************************************************************)
EXTENDS Naturals

\* Bytes from .. to of a packet of the given size.
Chunk == [packet : Nat, from : Nat, to : Nat, size : Nat]

NoChunk     == [packet |-> 0, from |-> 1, to |-> 0, size |-> 0]
Complete(c) == c.to = c.size

\* Chunk d may come after chunk c: the rest of the packet, or a later one.
Continues(c, d) == d.packet = c.packet /\ d.size = c.size /\ d.from = c.to + 1
Begins(c, d)    == Complete(c) /\ c.packet < d.packet /\ d.from = 1
Follows(c, d)   == Continues(c, d) \/ Begins(c, d)

VARIABLES
    wire,   \* the last chunk handed to the network on this connection
    told    \* the client has been told of an error on this connection

Init == wire = NoChunk /\ told = FALSE

Deliver ==
    /\ told = FALSE
    /\ wire' \in Chunk
    /\ Follows(wire, wire')
    /\ UNCHANGED told

Report ==
    /\ told' = TRUE
    /\ \/ UNCHANGED wire
       \/ wire' \in Chunk /\ Follows(wire, wire')

\* Nothing is promised of the rest of a connection that has failed.
Undefined == told /\ UNCHANGED told /\ wire' \in Chunk

NewConnection == wire' = NoChunk /\ told' = FALSE

Next == Deliver \/ Report \/ Undefined \/ NewConnection

Spec == Init /\ [][Next]_<<wire, told>>
=============================================================================
