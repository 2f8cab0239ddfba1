----------------------------- MODULE MCMqttCodec -----------------------------
(***************************************************************************)
(* Instances of MqttCodec for TLC, with digits to the base 3 and two flag  *)
(* values: header bytes 2 and 3 are one packet type with two values of the *)
(* flags, 4 is PINGRESP.  The lengths are the first and the last of one,   *)
(* two and three digits.                                                   *)
(***************************************************************************)
EXTENDS MqttCodec

MCHeaders == {2, 3, 4}
MCLengths == {1, 2, 3, 8, 9, 26}
ShortLengths == {2, 9}
=============================================================================
