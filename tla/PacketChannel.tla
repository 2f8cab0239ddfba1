---------------------------- MODULE PacketChannel ----------------------------
(***************************************************************************)
(* What the receive path of the MQTT client promises: on one connection    *)
(* the packets reach the client complete, once each and in the order in    *)
(* which the broker sent them.  A new connection starts empty.             *)
(***************************************************************************)
EXTENDS Naturals, Sequences

CONSTANT Packets

VARIABLES
    sent,   \* the packets the broker has sent on this connection
    got     \* those handed to the client so far

Init == sent = <<>> /\ got = <<>>

Send == \E p \in Packets : sent' = Append(sent, p) /\ UNCHANGED got

Deliver ==
    /\ Len(got) < Len(sent)
    /\ got' = Append(got, sent[Len(got) + 1])
    /\ UNCHANGED sent

NewConnection == sent' = <<>> /\ got' = <<>>

Next == Send \/ Deliver \/ NewConnection

\* The safety part, and all of it: what is sent is delivered in the end.
InOrder == Init /\ [][Next]_<<sent, got>>

Spec == InOrder /\ WF_<<sent, got>>(Deliver)
=============================================================================
