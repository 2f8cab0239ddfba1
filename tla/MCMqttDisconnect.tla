--------------------------- MODULE MCMqttDisconnect ---------------------------
(***************************************************************************)
(* Instances of MqttDisconnect for TLC.  The first session that ends       *)
(* leaves one of the two addresses abandoned, the second the other.        *)
(* Addresses are only compared, so invariants are checked up to their      *)
(* permutations.                                                           *)
(***************************************************************************)
EXTENDS MqttDisconnect, TLC

CONSTANTS x1, x2

MCHandles == {x1, x2}
Symmetry == Permutations(MCHandles)

\* The faults of a plain socket.
PlainFaults == {"open", "noMem", "reset", "silent", "refuse", "queued", "dropped",
                "fail", "noPacket", "noMessage", "badPacket", "split"}
QueuedOnly == {"queued"}
=============================================================================
