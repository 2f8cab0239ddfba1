---------------------------- MODULE MCMqttKeepAlive ----------------------------
(***************************************************************************)
(* Instances of MqttKeepAlive for TLC.  The clock wraps at TickMod ticks;  *)
(* TickMod is larger than every interval the client measures.              *)
(***************************************************************************)
EXTENDS MqttKeepAlive

CONSTANTS x1, x2

MCHandles == {x1, x2}
\* The faults of a plain socket that lose nothing the client sends, end no connection
\* behind its back and break none of its packets.
SocketTakesAll == {"open", "noMem", "silent", "refuse", "split"}
ResetOnly == {"reset"}
=============================================================================
