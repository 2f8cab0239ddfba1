------------------------------ MODULE MCMqttComm ------------------------------
(***************************************************************************)
(* Instances of MqttApp for TLC.  Two addresses are enough: at most one    *)
(* transport is allocated at a time (OneTransport), and a freed address    *)
(* may be handed out again.                                                *)
(***************************************************************************)
EXTENDS MqttApp

CONSTANTS x1, x2

MCHandles == {x1, x2}

TlsFaults == AllFaults

\* Faults the code notices: no silent peer before CONNACK, nothing lost unnoticed.
NoticedTlsFaults == {"open", "tlsFail", "stall", "noMem", "reset", "queued", "fail",
                     "noMessage"}
OpenOnly == {"open"}
=============================================================================
