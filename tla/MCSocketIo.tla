------------------------------ MODULE MCSocketIo ------------------------------
(***************************************************************************)
(* An instance of SocketIo for TLC: packets of one and of three bytes, so   *)
(* that a packet may be cut twice and two may wait behind it.               *)
(***************************************************************************)
EXTENDS SocketIo

MCSizes == {1, 3}
=============================================================================
