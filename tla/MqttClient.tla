------------------------------ MODULE MqttClient ------------------------------
(***************************************************************************)
(* mqtt_client.c: the functions of the MQTT client, from the system state  *)
(* before a call to the one after it (see module Xio for the state).       *)
(* The two callbacks mqtt_comm.c installs with mqtt_client_init appear     *)
(* where the client calls them: MQTT_Comm_OnErrorComplete as the state     *)
(* "ERROR", MQTT_Comm_OnOperationComplete as "CONNECTED"/"DISCONNECTED".   *)
(***************************************************************************)
EXTENDS Xio

CONSTANTS
    TickMod,     \* the tick counter wraps at this value: 2^32
    MsPerSec,    \* ticks per second: 1000
    KeepAlive    \* keepAliveInterval, in seconds: 30 in mqtt_comm.c

ASSUME ClientAssumption ==
    /\ TickMod \in Nat \ {0}
    /\ MsPerSec \in Nat \ {0}
    /\ KeepAlive \in Nat

Ticks == 0 .. TickMod - 1

PacketStates == {"UNKNOWN", "CONNECT", "PUBLISH", "SUBSCRIBE", "UNSUBSCRIBE",
                 "DISCONNECT", "ERROR"}

(***************************************************************************)
(* MQTT_CLIENT.  disconnect_cb: a callback is registered; closedCalls      *)
(* counts its calls up to 2 (no code reads it).  codec: its mqtt_codec is  *)
(* between two packets, inside one, or left in an error state by one it    *)
(* could not parse; nothing resets it (see module MqttCodec).              *)
(***************************************************************************)
Client == [xioHandle : Handles \cup {NULL}, packetState : PacketStates,
           socketConnected : BOOLEAN, clientConnected : BOOLEAN,
           disconnect_cb : BOOLEAN, closedCalls : 0..2,
           timeSincePing : Ticks, packetSendTimeMs : Ticks,
           codec : {"ready", "partial", "broken"}]

\* mqtt_client_init
NewClient == [xioHandle |-> NULL, packetState |-> "UNKNOWN",
              socketConnected |-> FALSE, clientConnected |-> FALSE,
              disconnect_cb |-> FALSE, closedCalls |-> 0,
              timeSincePing |-> 0, packetSendTimeMs |-> 0, codec |-> "ready"]

MaxPingRespTime == IF 80 < KeepAlive \div 2 THEN 80 ELSE KeepAlive \div 2

\* (now - since) / 1000 in the unsigned arithmetic of tickcounter_ms_t
Seconds(now, since) == ((now + TickMod - since) % TickMod) \div MsPerSec

-----------------------------------------------------------------------------
\* Closing

CallDisconnectCb(s) ==
    IF s.client.disconnect_cb
    THEN [s EXCEPT !.client.closedCalls = IF @ < 2 THEN @ + 1 ELSE 2]
    ELSE s

\* Defect: the session is not forgotten.
SessionKept(s) == CallDisconnectCb([s EXCEPT !.client.socketConnected = FALSE])

OnConnectionClosed(s) ==
    CallDisconnectCb([s EXCEPT !.client.socketConnected = FALSE,
                               !.client.clientConnected = FALSE])

\* xio_dowork on a socket just closed: every pending item fails with EBADF,
\* which leaves IO_STATE_ERROR and calls on_io_error.  The nested onIoError only
\* sets the error state: socketConnected is already false and no disconnect_cb.
FailPending(s, h) ==
    IF h # NULL /\ ~Tls /\ s.xio[h].pending # <<>>
    THEN [s EXCEPT !.xio[h].pending = <<>>, !.xio[h].st = "error",
                   !.comm.state = "ERROR"]
    ELSE s

\* Defect: the callback is called here although the close has already called it.
CalledTwice(s) ==
    LET h == s.client.xioHandle
        closed == IF CloseCallsBack(s, h) THEN OnConnectionClosed(Shut(s, h)) ELSE s
    IN  CallDisconnectCb([closed EXCEPT !.client.xioHandle = NULL])

CloseConnection(s) ==
    LET h == s.client.xioHandle
        closed == IF CloseCallsBack(s, h) THEN OnConnectionClosed(Shut(s, h)) ELSE s
        worked == IF s.client.disconnect_cb THEN closed ELSE FailPending(closed, h)
    IN  IF s.client.socketConnected
        THEN [worked EXCEPT !.client.xioHandle = NULL]
        ELSE CallDisconnectCb(s)

\* set_error_callback; onIoError is the same call with CONNECTION_ERROR
SetError(s) == CloseConnection([s EXCEPT !.comm.state = "ERROR"])

-----------------------------------------------------------------------------
\* Sending

\* Defect: the connection is left open after DISCONNECT.
NotClosed(s) ==
    IF s.client.packetState = "DISCONNECT" THEN [s EXCEPT !.comm.state = "DISCONNECTED"] ELSE s

\* sendComplete(IO_SEND_OK); no transport reports IO_SEND_ERROR
SendComplete(s) ==
    IF s.client.packetState = "DISCONNECT"
    THEN CloseConnection([s EXCEPT !.comm.state = "DISCONNECTED"])
    ELSE s

\* The effect of xio_send(h, p), with the callbacks it makes.  A TLS record that
\* never reaches the wire makes every later one undecipherable for the broker.
XioSend(s, h, p, o) ==
    LET r == XioSendResult(s, h, o)
        handed == IF p = "PINGREQ" THEN [s EXCEPT !.link.pinged = TRUE] ELSE s
    IN  CASE r = "ok"      -> SendComplete([handed EXCEPT !.link = Delivered(@, p)])
          [] r = "queued"  -> [handed EXCEPT !.xio[h].pending = Append(@, p)]
          [] r = "dropped" -> IF Tls THEN [s EXCEPT !.link.net = "silent"] ELSE s
          [] r = "fail"    -> IF Tls THEN SetError([s EXCEPT !.xio[h].st = "error"]) ELSE s
          [] OTHER         -> s

\* sendPacketItem: the send time is recorded before the outcome is known
SendPacketItem(s, p, o) ==
    XioSend([s EXCEPT !.client.packetSendTimeMs = s.now], s.client.xioHandle, p, o)

SendPacketSucceeds(s, o) == XioSendSucceeds(s, s.client.xioHandle, o)

\* What a caller that builds a packet and sends it may meet: "noPacket" is the
\* codec failing to allocate it.
SendOutcomes == XioSendOutcomes \cup {"noPacket"}

\* mqtt_client_publish, _subscribe and _unsubscribe (with a non-zero packet id)
ClientSend(s, p, o) ==
    IF o = "noPacket" THEN s
    ELSE SendPacketItem([s EXCEPT !.client.packetState = p], p, o)

ClientSendSucceeds(s, o) == o # "noPacket" /\ SendPacketSucceeds(s, o)

-----------------------------------------------------------------------------
\* Connecting

\* onOpenComplete; the failure to send CONNECT is only logged
OnOpenComplete(s, opened, o) ==
    IF opened /\ ~s.client.socketConnected
    THEN ClientSend([s EXCEPT !.client.packetState = "CONNECT",
                              !.client.socketConnected = TRUE], "CONNECT", o)
    ELSE IF s.client.socketConnected THEN CloseConnection(s)
    ELSE CloseConnection([s EXCEPT !.comm.state = "ERROR"])

(***************************************************************************)
(* How xio_open can go: "ok"; "error", the socket cannot be connected;     *)
(* "tlsFail", the TLS handshake is rejected, which tlsio reports to        *)
(* onOpenComplete while socketio_open still returns 0; "late", the socket  *)
(* fails behind the last bytes of the handshake: on_underlying_io_error    *)
(* reports it and the handshake, which has all it needs, its success;      *)
(* "noMem", cloneMqttOptions fails and xio_open is never called.           *)
(***************************************************************************)
OpenOutcomes == {"ok", "error", "noMem"} \cup (IF Tls THEN {"tlsFail", "late"} ELSE {})

\* mqtt_client_connect(handle, h, &mqttOptions)
Connect(s, h, open, o) ==
    LET t == [s EXCEPT !.client.xioHandle = h, !.client.packetState = "UNKNOWN"]
        opened == [t EXCEPT !.xio[h].st = "open", !.link = FreshLink,
                            !.xio[h].tls = IF Tls THEN "shaken" ELSE "fresh"]
        failed == OnOpenComplete(t, FALSE, o)
        late   == [failed EXCEPT !.xio[h].st = "open", !.xio[h].tls = "shaken",
                                 !.link = [FreshLink EXCEPT !.net = "reset"]]
    IN  IF h = NULL THEN s
        ELSE IF open = "noMem" THEN t
        ELSE IF s.xio[h].st # "closed"
             THEN IF Tls THEN t ELSE failed
        ELSE CASE open = "ok"      -> OnOpenComplete(opened, TRUE, o)
               [] open = "late"    -> OnOpenComplete(late, TRUE, o)
               [] open = "tlsFail" -> [failed EXCEPT !.xio[h].tls = "used"]
               [] OTHER            -> failed

\* Defect: the failed handshake is a failed open, which is retried.
HandshakeRetried(s, h, open) ==
    h # NULL /\ s.xio[h].st = "closed" /\ open \in {"ok", "late"}

\* Defect: the result of mqtt_client_connect is not checked.
Unchecked(s, h, open) == TRUE

ConnectSucceeds(s, h, open) ==
    h # NULL /\ s.xio[h].st = "closed" /\ open \in {"ok", "tlsFail", "late"}

\* mqtt_client_disconnect(handle, callback, ctx); cb: the callback is not NULL
Disconnect(s, cb, o) ==
    LET registered == [s EXCEPT !.client.disconnect_cb = cb]
    IN  IF ~s.client.clientConnected THEN CloseConnection(registered)
        ELSE IF o = "noPacket"
             THEN [s EXCEPT !.client.packetState = "ERROR", !.client.xioHandle = NULL]
        ELSE [SendPacketItem([registered EXCEPT !.client.packetState = "DISCONNECT"],
                             "DISCONNECT", o)
              EXCEPT !.client.xioHandle = NULL]

-----------------------------------------------------------------------------
\* Keep alive: the second half of mqtt_client_dowork

\* Defect: the wait is as long as the interval, and the next ping restarts it.
OverdueAfterInterval(s) ==
    s.client.timeSincePing > 0 /\ Seconds(s.now, s.client.timeSincePing) > KeepAlive

PingOverdue(s) ==
    s.client.timeSincePing > 0 /\ Seconds(s.now, s.client.timeSincePing) > MaxPingRespTime

PingDue(s) == Seconds(s.now, s.client.packetSendTimeMs) >= KeepAlive

KeepAliveActive(s) ==
    s.client.socketConnected /\ s.client.clientConnected /\ KeepAlive > 0

KeepAliveCheck(s, o) ==
    IF ~KeepAliveActive(s) THEN s
    ELSE IF PingOverdue(s)
    THEN [SetError(s) EXCEPT !.client.timeSincePing = 0,
                             !.client.packetSendTimeMs = 0,
                             !.client.packetState = "UNKNOWN"]
    ELSE IF PingDue(s) /\ o # "noPacket"
    THEN [SendPacketItem(s, "PINGREQ", o) EXCEPT !.client.timeSincePing = s.now]
    ELSE s
=============================================================================
