--------------------------------- MODULE Xio ---------------------------------
(***************************************************************************)
(* The transport the MQTT client talks through: an XIO handle (xio.c) over *)
(* either socketio_berkeley.c or tlsio_mbedtls.c, and the TCP connection   *)
(* with the broker behind it.                                              *)
(*                                                                         *)
(* Every operator takes a system state s and returns the state the C       *)
(* function leaves behind.  A system state is a record with the fields     *)
(*   client   the MQTT_CLIENT structure           (module MqttClient)      *)
(*   comm     the MQTT_COMMUNICATOR structure     (module MqttComm)        *)
(*   xio      what each XIO address holds                                  *)
(*   link     the connection behind the open handle, and the broker        *)
(*   now      the tick counter of the client, in ticks                     *)
(* Composition of operators is the order of the calls in the code: every   *)
(* callback runs synchronously inside the call that triggers it.           *)
(***************************************************************************)
EXTENDS Naturals, Sequences

CONSTANTS
    Handles,     \* the addresses malloc may return for an XIO_INSTANCE
    NULL,        \* the null pointer
    Tls,         \* TRUE: tlsio_mbedtls over socketio, FALSE: plain socketio
    MaxPending   \* bound on the length of pending_io_list (heap exhausted above)

ASSUME XioAssumption ==
    /\ NULL \notin Handles
    /\ Tls \in BOOLEAN
    /\ MaxPending \in Nat

-----------------------------------------------------------------------------
(***************************************************************************)
(* Control packets, told apart as far as the client's behaviour depends on *)
(* them.  Requests go to the broker, Replies come from it; REFUSED is a    *)
(* CONNACK with a non-zero return code.                                    *)
(***************************************************************************)
Requests == {"CONNECT", "PUBLISH", "SUBSCRIBE", "PUBREC", "PUBREL", "PUBCOMP",
             "PINGREQ", "DISCONNECT"}
Replies  == {"CONNACK", "SUBACK", "PUBREC", "PUBREL", "PUBCOMP", "PINGRESP",
             "MESSAGE"}

(***************************************************************************)
(* st      "none" unallocated, "closed" IO_STATE_CLOSED/TLSIO NOT_OPEN,    *)
(*         "open" IO_STATE_OPEN/TLSIO OPEN, "error" IO_STATE_ERROR         *)
(*         (TLSIO_STATE_ERROR).  OPENING, IN_HANDSHAKE and CLOSING exist   *)
(*         only inside one call: every concrete close is synchronous.      *)
(* tls     the mbedTLS context: no code resets it, so a handshake is right *)
(*         only on a "fresh" one; "used" by one that has not completed,    *)
(*         "shaken" by one that has                                        *)
(* pending pending_io_list of the (underlying) socket io                   *)
(***************************************************************************)
TlsContexts == {"fresh", "used", "shaken"}

Transport == [st : {"none", "closed", "open", "error"},
              tls : TlsContexts,
              pending : Seq(Requests)]

NoTransport  == [st |-> "none", tls |-> "fresh", pending |-> <<>>]
NewTransport == [NoTransport EXCEPT !.st = "closed"]

(***************************************************************************)
(* The connection of the one open handle.  net: "down" no connection, "up",*)
(* "reset" the next socket call fails, "silent" sends are still buffered   *)
(* but nothing arrives any more (a FIN, which socketio_dowork does not     *)
(* report, or a peer that vanished).                                       *)
(* asked/accepted: the broker has seen CONNECT / has answered it with      *)
(* return code 0.  owed: the packets the broker has yet to deliver.        *)
(* pinged: a PINGREQ of this connection was handed to the transport and is *)
(* unanswered.  cut: the last bytes received end inside a packet.            *)
(***************************************************************************)
Link == [net : {"down", "up", "reset", "silent"}, asked : BOOLEAN,
         accepted : BOOLEAN, owed : SUBSET Replies, pinged : BOOLEAN, cut : BOOLEAN]

NoLink    == [net |-> "down", asked |-> FALSE, accepted |-> FALSE,
              owed |-> {}, pinged |-> FALSE, cut |-> FALSE]
FreshLink == [NoLink EXCEPT !.net = "up"]

\* What a conformant broker owes for a request; it echoes a QoS 2 message to
\* its publisher, who subscribed to its own topic, when it is released.
Answer == [p \in Requests |->
             CASE p = "CONNECT"   -> {"CONNACK"}
               [] p = "PUBLISH"   -> {"PUBREC"}
               [] p = "PUBREL"    -> {"PUBCOMP", "MESSAGE"}
               [] p = "SUBSCRIBE" -> {"SUBACK"}
               [] p = "PUBREC"    -> {"PUBREL"}
               [] p = "PINGREQ"   -> {"PINGRESP"}
               [] OTHER           -> {}]

\* A packet reaches the broker: [MQTT-3.1.0-1] the first one must be CONNECT.
Delivered(link, p) ==
    IF link.net # "up" THEN link
    ELSE IF p # "CONNECT" /\ ~link.asked THEN [link EXCEPT !.net = "reset"]
    ELSE [link EXCEPT !.asked = TRUE, !.owed = @ \cup Answer[p]]

-----------------------------------------------------------------------------
Allocated(s, h) == h # NULL /\ s.xio[h].st # "none"
IsOpen(s, h)    == h # NULL /\ s.xio[h].st = "open"

\* The socket of h is shut down and closed; its pending list survives.
Shut(s, h) ==
    [s EXCEPT !.xio[h].st = "closed",
              !.link = IF s.xio[h].st = "closed" THEN @ ELSE NoLink]

\* xio_close invokes the close callback: always over a plain socket, whatever
\* its state, but over TLS only if the handle is not already NOT_OPEN.
CloseCallsBack(s, h) == h # NULL /\ (Tls => s.xio[h].st # "closed")

\* xio_close(h, NULL, NULL)
XioCloseQuietly(s, h) == IF h = NULL THEN s ELSE Shut(s, h)

(***************************************************************************)
(* The result of one xio_send on h, when the call could go as o says:      *)
(*   "ok"      all bytes taken by the socket, on_send_complete called      *)
(*   "queued"  a part taken, the rest in pending_io_list                   *)
(*   "dropped" EAGAIN on the first attempt: nothing taken, nothing queued  *)
(*   "fail"    send() or add_pending_io failed                             *)
(* Behind a non-empty pending list nothing is sent directly.  "refused":   *)
(* the handle is NULL or not open.                                         *)
(***************************************************************************)
XioSendOutcomes == {"ok", "queued", "dropped", "fail"}

XioSendResult(s, h, o) ==
    IF ~IsOpen(s, h) THEN "refused"
    ELSE IF s.xio[h].pending # <<>>
    THEN IF o = "fail" \/ Len(s.xio[h].pending) >= MaxPending THEN "fail" ELSE "queued"
    ELSE IF s.link.net = "reset" \/ (o = "queued" /\ MaxPending = 0) THEN "fail" ELSE o

\* xio_send returns 0.  tlsio's on_io_send reports a failure of the socket
\* through on_io_error and returns 0 to mbedtls, which counts it as success.
XioSendSucceeds(s, h, o) ==
    \/ XioSendResult(s, h, o) \in {"ok", "queued", "dropped"}
    \/ Tls /\ XioSendResult(s, h, o) = "fail"
=============================================================================
