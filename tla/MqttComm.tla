------------------------------- MODULE MqttComm -------------------------------
(***************************************************************************)
(* The communicator of apps/mqtt/mqtt_comm.c as the application task runs  *)
(* it: MQTT_Comm_Process called in a loop, the MQTT client under it, the   *)
(* application's callbacks in mqtt_app.c on top, and around them the       *)
(* network and a broker that follows the protocol.                         *)
(*                                                                         *)
(* One action is one call of a handler that runs without blocking.  A      *)
(* mqtt_client_dowork is several: the flush of pending sends, then one     *)
(* action per packet dispatched, then the keep-alive check; pc says where  *)
(* the task is:                                                            *)
(*   "loop"        between two calls of MQTT_Comm_Process                  *)
(*   "connecting"  in the retry loop of MQTT_CONNECTING                    *)
(*   "flush"       in xio_dowork, sending pending_io_list                  *)
(*   "recv"        in xio_dowork, dispatching what arrives                 *)
(*   "hung"        in an endless loop of on_io_recv (TLS only)             *)
(***************************************************************************)
EXTENDS MqttClient

CONSTANTS
    PacketIdMod,   \* packetId is a uint16_t: 2^16
    FaultKinds,    \* the faults of the environment that may happen
    MaxFaults,     \* bound on their number
    LastTick       \* the clock stops at this tick; TickMod: it wraps, forever

AllFaults == {"open", "tlsFail", "stall", "noMem", "reset", "silent", "refuse",
              "queued", "dropped", "fail", "noPacket", "noMessage", "badPacket", "split"}

ASSUME CommAssumption ==
    /\ PacketIdMod \in Nat \ {0, 1}
    /\ FaultKinds \subseteq AllFaults
    /\ MaxFaults \in Nat
    /\ LastTick \in 0 .. TickMod

VARIABLES
    client,   \* MQTT_CLIENT
    comm,     \* MQTT_COMMUNICATOR: xioHandle, state, packetId
    xio,      \* what each XIO address holds
    link,     \* the connection and the broker
    now,      \* the tick counter
    pc,       \* where the application task is
    chunk,    \* packets received by the current recv and not yet dispatched
    faults,   \* faults the environment may still cause
    ran       \* the loop has made a turn since the last tick

vars == <<client, comm, xio, link, now, pc, chunk, faults, ran>>

CommStates == {"CONNECTED", "DISCONNECTED", "CONNECTING", "ERROR"}
PacketIds  == 0 .. PacketIdMod - 1
Communicator == [xioHandle : Handles \cup {NULL}, state : CommStates, packetId : PacketIds]

Received == Replies \cup {"REFUSED", "BAD"}

State == [client |-> client, comm |-> comm, xio |-> xio, link |-> link, now |-> now]

\* The action leaves the system in state s, the task at place p.
Become(s, p) ==
    /\ client' = s.client
    /\ comm' = s.comm
    /\ xio' = s.xio
    /\ link' = s.link
    /\ pc' = p
    /\ ran' = TRUE
    /\ now' = now

\* The sequence ks of outcomes costs one fault for each that is not "ok".
Faulty(ks) == {i \in DOMAIN ks : ks[i] # "ok"}
Spend(ks) ==
    /\ \A i \in Faulty(ks) : ks[i] \in FaultKinds
    /\ \E n \in 0 .. faults : /\ n = (IF 1 \in Faulty(ks) THEN 1 ELSE 0)
                                     + (IF 2 \in Faulty(ks) THEN 1 ELSE 0)
                              /\ faults' = faults - n

-----------------------------------------------------------------------------
\* MQTT_Comm_Publish and MQTT_Comm_Subcribe

CommPublish(s, o) ==
    IF s.comm.state # "CONNECTED" THEN s
    ELSE LET t == ClientSend(s, "PUBLISH", o)
         IN  IF ClientSendSucceeds(s, o) THEN t ELSE [t EXCEPT !.comm.state = "ERROR"]

\* Defect: packetId is wider than uint16_t.
WidePacketId(id) == id + 1

NextPacketId(id) == (id + 1) % PacketIdMod

\* packetId++ is evaluated for the call; mqtt_client_subscribe rejects id 0.
CommSubcribe(s, o) ==
    LET next == [s EXCEPT !.comm.packetId = NextPacketId(@)]
    IN  IF s.comm.packetId = 0 THEN [next EXCEPT !.comm.state = "ERROR"]
        ELSE IF ClientSendSucceeds(s, o) THEN ClientSend(next, "SUBSCRIBE", o)
        ELSE [ClientSend(next, "SUBSCRIBE", o) EXCEPT !.comm.state = "ERROR"]

-----------------------------------------------------------------------------
\* recvCompleteCallback, with the callbacks of mqtt_comm.c and mqtt_app.c

\* An acknowledgement the client sends itself: its result is ignored, but failing
\* to build it is an error.
Acknowledge(s, p, o) == IF o = "noPacket" THEN SetError(s) ELSE SendPacketItem(s, p, o)

\* MqttAppConnectCallback publishes, then subscribes whatever became of that.
OnConnAck(s, p, o1, o2) ==
    LET connected == [s EXCEPT !.comm.state = "CONNECTED"]
        called == CommSubcribe(CommPublish(connected, o1), o2)
    IN  IF p = "CONNACK" THEN [called EXCEPT !.client.clientConnected = TRUE] ELSE called

\* A message of QoS 0 is not acknowledged, QoS 1 (PUBACK) asks for no answer.
OnMessage(s, qos, o1, o2) ==
    LET called == CommPublish(s, o1)
    IN  CASE qos = 0 -> called
          [] qos = 1 -> IF o2 = "noPacket" THEN SetError(called)
                        ELSE SendPacketItem(called, "PUBCOMP", o2)
          [] qos = 2 -> Acknowledge(called, "PUBREC", o2)

\* Defect: a ping response does not end the wait for it.
PingForgotten(s) == [s EXCEPT !.link.pinged = FALSE]

PingResp(s) == [s EXCEPT !.client.timeSincePing = 0, !.link.pinged = FALSE]

\* What dispatching packet p does; o1, o2: the outcomes of the sends it makes.
RecvComplete(s, p, qos, o1, o2) ==
    CASE p \in {"CONNACK", "REFUSED"} -> OnConnAck(s, p, o1, o2)
      [] p = "MESSAGE"  -> OnMessage(s, qos, o1, o2)
      [] p = "SUBACK"   -> CommPublish(s, o1)
      [] p = "PUBREC"   -> Acknowledge(s, "PUBREL", o1)
      [] p = "PUBREL"   -> Acknowledge(s, "PUBCOMP", o1)
      [] p = "PINGRESP" -> PingResp(s)
      [] p = "BAD"      -> SetError(s)
      [] OTHER          -> s

\* How many sends dispatching p makes.
Sends(p, qos) ==
    CASE p \in {"CONNACK", "REFUSED"} -> 2
      [] p = "MESSAGE" -> IF qos = 0 THEN 1 ELSE 2
      [] p \in {"SUBACK", "PUBREC", "PUBREL"} -> 1
      [] OTHER -> 0

-----------------------------------------------------------------------------
\* MQTT_Comm_Process

\* Defect: the failure to send the close notification is not reported.
DestroyedUnnoticed(s, h) ==
    IF h = NULL THEN s ELSE [s EXCEPT !.xio[h] = NoTransport, !.link = NoLink]

\* xio_destroy.  Over TLS mbedtls_ssl_close_notify tries to send on the socket
\* xio_close has closed, and on_io_send reports the failure to the client.
XioDestroy(s, h) ==
    LET notified == IF Tls /\ h # NULL /\ s.xio[h].tls = "shaken"
                    THEN SetError([s EXCEPT !.xio[h].st = "error"]) ELSE s
    IN  IF h = NULL THEN s ELSE [notified EXCEPT !.xio[h] = NoTransport, !.link = NoLink]

\* Defect: the transport is closed but not destroyed.
ClosedOnly(s) == XioCloseQuietly(s, s.comm.xioHandle)

Discard(s) == XioDestroy(XioCloseQuietly(s, s.comm.xioHandle), s.comm.xioHandle)

\* xio_create; the result is not checked
XioCreate(s, h) ==
    IF h = NULL THEN [s EXCEPT !.comm.xioHandle = NULL]
    ELSE [s EXCEPT !.comm.xioHandle = h, !.xio[h] = NewTransport]

FreeHandles(s) == {h \in Handles : s.xio[h].st = "none"}

\* Defect: the transport is closed and used again.
TransportReused ==
    /\ pc = "loop" /\ comm.state = "ERROR"
    /\ Become([ClosedOnly(State) EXCEPT !.comm.state = "CONNECTING"], "loop")
    /\ UNCHANGED <<chunk, faults>>

\* case MQTT_ERROR
Reconnect ==
    /\ pc = "loop" /\ comm.state = "ERROR"
    /\ LET s == Discard(State)
       IN  \/ /\ \E h \in FreeHandles(s) :
                    Become([XioCreate(s, h) EXCEPT !.comm.state = "CONNECTING"], "loop")
              /\ UNCHANGED faults
           \/ /\ Become([XioCreate(s, NULL) EXCEPT !.comm.state = "CONNECTING"], "loop")
              /\ Spend(<<"noMem">>)
    /\ UNCHANGED chunk

\* case MQTT_CONNECTING: the loop is entered ...
StartConnecting ==
    /\ pc = "loop" /\ comm.state = "CONNECTING"
    /\ Become(State, "connecting")
    /\ UNCHANGED <<chunk, faults>>

FaultOf(open) == CASE open = "error" -> "open" [] open = "late" -> "reset" [] OTHER -> open

\* ... and tries, every 5 seconds, until mqtt_client_connect returns 0.
TryConnect ==
    /\ pc = "connecting"
    /\ \E open \in OpenOutcomes, o \in SendOutcomes :
          /\ o = "ok" \/ open = "ok" \/ (open = "late" /\ o = "noPacket")
          /\ Spend(<<FaultOf(open), o>>)
          /\ LET s == Connect(State, comm.xioHandle, open, o)
             IN  IF ~ConnectSucceeds(State, comm.xioHandle, open)
                 THEN Become(s, "connecting")
                 ELSE IF s.comm.state = "CONNECTING"
                 THEN Become([s EXCEPT !.comm.state = "CONNECTED"], "loop")
                 ELSE Become(s, "loop")
    /\ UNCHANGED chunk

\* A TLS handshake whose peer falls silent, or whose socket fails, never returns:
\* on_io_recv waits for bytes, or for TLSIO_STATE_OPEN, without a limit, also after
\* on_underlying_io_error has reported the failure.
HandshakeStalls ==
    /\ Tls /\ pc = "connecting" /\ comm.xioHandle # NULL
    /\ xio[comm.xioHandle].st = "closed"
    /\ Spend(<<"stall">>)
    /\ LET s == [State EXCEPT !.client.xioHandle = comm.xioHandle,
                              !.client.packetState = "UNKNOWN",
                              !.xio[comm.xioHandle].tls = "used"]
       IN  Become(s, "hung") \/ Become(OnOpenComplete(s, FALSE, "ok"), "hung")
    /\ UNCHANGED chunk

\* case MQTT_CONNECTED: mqtt_client_dowork, which does nothing without a handle
DoWork ==
    /\ pc = "loop" /\ comm.state = "CONNECTED"
    /\ Become(State, IF client.xioHandle = NULL THEN "loop" ELSE "flush")
    /\ UNCHANGED <<chunk, faults>>

Pending == IF client.xioHandle = NULL THEN <<>> ELSE xio[client.xioHandle].pending

\* The head of pending_io_list is sent; its on_send_complete runs.
FlushSends ==
    /\ pc = "flush" /\ Pending # <<>> /\ link.net \in {"up", "silent"}
    /\ Become(SendComplete([State EXCEPT !.xio[client.xioHandle].pending = Tail(@),
                                         !.link = Delivered(@, Head(Pending))]), "flush")
    /\ UNCHANGED <<chunk, faults>>

\* It cannot be sent now, or the list is empty.  The receive half needs an open
\* transport.
FlushEnds ==
    /\ pc = "flush"
    /\ Pending # <<>> => link.net \in {"up", "silent"} /\ Spend(<<"queued">>)
    /\ Pending = <<>> => UNCHANGED faults
    /\ Become(State, "recv")
    /\ UNCHANGED chunk

\* The io error of the socket is reported to the client.  If that happened under
\* mbedtls_ssl_read, the task is left in the loop of on_io_recv.
ReportIoError(s) ==
    LET h == client.xioHandle
        down == IF Tls THEN [s EXCEPT !.xio[h].st = "error"] ELSE s
    IN  \/ Become(SetError(down), "recv")
        \/ Tls /\ Become(SetError(down), "hung")

\* Sending the head fails, and after it, on the closed socket, the rest.
FlushFails ==
    /\ pc = "flush" /\ Pending # <<>> /\ link.net # "up"
    /\ ReportIoError([State EXCEPT !.xio[client.xioHandle].pending =
                                       IF Tls THEN <<>> ELSE Tail(@),
                                   !.xio[client.xioHandle].st = "error"])
    /\ UNCHANGED <<chunk, faults>>

\* recv fails
RecvFails ==
    /\ pc = "recv" /\ chunk = <<>> /\ link.net = "reset" /\ IsOpen(State, client.xioHandle)
    /\ ReportIoError(State)
    /\ UNCHANGED <<chunk, faults>>

\* Over TLS there is no memory for what the socket has received; the bytes are lost.
RecvNoMemory ==
    /\ Tls /\ pc = "recv" /\ chunk = <<>> /\ link.net = "up" /\ link.owed # {}
    /\ IsOpen(State, client.xioHandle)
    /\ Spend(<<"noMem">>)
    /\ ReportIoError(State)
    /\ UNCHANGED chunk

\* The codec is between two packets, or inside one of this very connection.
InStep == client.codec = "ready" \/ link.cut

\* One recv of at most 64 bytes: the packets p, or p and q; or the first bytes of a
\* longer packet; or a refusal; or bytes that the codec cannot parse.
RecvInStep ==
    /\ InStep
    /\ \/ \E p \in link.owed, q \in link.owed :
            /\ "CONNACK" \in link.owed => p = "CONNACK"
            /\ chunk' = IF p = q THEN <<p>> ELSE <<p, q>>
            /\ link' = [link EXCEPT !.owed = @ \ {p, q}, !.cut = FALSE,
                                    !.accepted = @ \/ p = "CONNACK"]
            /\ client' = [client EXCEPT !.codec = "ready"]
            /\ UNCHANGED faults
       \/ /\ link.owed # {}
          /\ chunk' = <<>>
          /\ link' = [link EXCEPT !.cut = TRUE]
          /\ client' = [client EXCEPT !.codec = "partial"]
          /\ Spend(<<"split">>)
       \/ /\ "CONNACK" \in link.owed
          /\ chunk' = <<"REFUSED">>
          /\ link' = [link EXCEPT !.owed = {}, !.net = "silent", !.cut = FALSE]
          /\ client' = [client EXCEPT !.codec = "ready"]
          /\ Spend(<<"refuse">>)
       \/ /\ chunk' = <<"BAD">>
          /\ link' = [link EXCEPT !.cut = FALSE]
          /\ client' = [client EXCEPT !.codec = "broken"]
          /\ Spend(<<"badPacket">>)

\* The codec is inside a packet of an earlier connection, or in its error state: it
\* takes the bytes received for the rest of that packet, and what follows them for
\* a header.  Payloads are taken not to contain the four bytes of a CONNACK.
Garbled == (Replies \ {"CONNACK"}) \cup {"REFUSED", "BAD"}
RecvOutOfStep ==
    /\ ~InStep
    /\ \E p \in link.owed, q \in link.owed, to \in {"ready", "partial", "broken"} :
          /\ "CONNACK" \in link.owed => p = "CONNACK"
          /\ link' = [link EXCEPT !.owed = @ \ {p, q}, !.accepted = @ \/ p = "CONNACK"]
          /\ client' = [client EXCEPT !.codec = to]
          /\ chunk' \in {<<g>> : g \in Garbled} \cup {<<>>}
          /\ to = "broken" => chunk' = <<"BAD">>
    /\ UNCHANGED faults

Recv ==
    /\ pc = "recv" /\ chunk = <<>> /\ link.net = "up" /\ IsOpen(State, client.xioHandle)
    /\ RecvInStep \/ RecvOutOfStep
    /\ ran' = TRUE
    /\ UNCHANGED <<comm, xio, now, pc>>

\* The first packet of the chunk has been dispatched and left s behind.  Over TLS the
\* decode loop goes on reading: once the transport has been closed under it,
\* on_io_recv never returns.
Dispatched(s) ==
    /\ Become(s, IF Tls /\ Tail(chunk) = <<>> /\ ~IsOpen(s, s.client.xioHandle)
                 THEN "hung" ELSE "recv")
    /\ chunk' = Tail(chunk)

Dispatch ==
    /\ pc = "recv" /\ chunk # <<>>
    /\ \E o1, o2 \in SendOutcomes, qos \in 0..2 :
          /\ Head(chunk) # "MESSAGE" => qos = 0
          /\ Sends(Head(chunk), qos) < 1 => o1 = "ok"
          /\ Sends(Head(chunk), qos) < 2 => o2 = "ok"
          /\ Spend(<<o1, o2>>)
          /\ Dispatched(RecvComplete(State, Head(chunk), qos, o1, o2))

\* There is no memory for a message, or for the return codes of a SUBACK: the
\* application is not called.
DispatchNoMemory ==
    /\ pc = "recv" /\ chunk # <<>> /\ Head(chunk) \in {"MESSAGE", "SUBACK"}
    /\ Spend(<<"noMessage">>)
    /\ Dispatched(SetError(State))

\* Nothing more to receive: the keep-alive check ends mqtt_client_dowork.
FinishDoWork ==
    /\ pc = "recv" /\ chunk = <<>>
    /\ \E o \in SendOutcomes :
          /\ Spend(<<o>>)
          /\ ~(KeepAliveActive(State) /\ PingDue(State) /\ ~PingOverdue(State)) => o = "ok"
          /\ Become(KeepAliveCheck(State, o), "loop")
    /\ UNCHANGED chunk

-----------------------------------------------------------------------------
\* The network and the clock

LinkFault ==
    /\ link.net = "up"
    /\ \E f \in {"reset", "silent"} : /\ Spend(<<f>>)
                                      /\ link' = [link EXCEPT !.net = f]
    /\ UNCHANGED <<client, comm, xio, now, pc, chunk, ran>>

\* Defect: a tick counter that does not wrap.
NoWrap ==
    /\ pc = "loop" /\ ran
    /\ now' = now + 1
    /\ ran' = FALSE
    /\ UNCHANGED <<client, comm, xio, link, pc, chunk, faults>>

\* The loop does not block, so it turns at least once between two ticks.
Tick ==
    /\ now # LastTick
    /\ pc \in {"hung", "connecting"} \/ (pc = "loop" /\ ran)
    /\ now' = (now + 1) % TickMod
    /\ ran' = FALSE
    /\ UNCHANGED <<client, comm, xio, link, pc, chunk, faults>>

-----------------------------------------------------------------------------
\* MQTT_Comm_Create, then MQTT_Comm_Start_Connection
Init ==
    /\ client = NewClient
    /\ \E h \in Handles :
          /\ comm = [xioHandle |-> h, state |-> "CONNECTING", packetId |-> 1]
          /\ xio = [x \in Handles |-> IF x = h THEN NewTransport ELSE NoTransport]
    /\ link = NoLink
    /\ now = 0
    /\ pc = "loop"
    /\ chunk = <<>>
    /\ faults = MaxFaults
    /\ ran = FALSE

Process == \/ Reconnect \/ StartConnecting \/ TryConnect \/ HandshakeStalls \/ DoWork
           \/ FlushSends \/ FlushEnds \/ FlushFails
           \/ RecvFails \/ RecvNoMemory \/ Recv \/ Dispatch \/ DispatchNoMemory
           \/ FinishDoWork

Next == Process \/ LinkFault \/ Tick

Spec == Init /\ [][Next]_vars

-----------------------------------------------------------------------------
TypeOK ==
    /\ client \in Client
    /\ comm \in Communicator
    /\ xio \in [Handles -> Transport]
    /\ link \in Link
    /\ now \in Ticks
    /\ pc \in {"loop", "connecting", "flush", "recv", "hung"}
    /\ chunk \in Seq(Received)
    /\ faults \in 0 .. MaxFaults
    /\ ran \in BOOLEAN

\* The client works on its handle inside a dowork, and will in the next turn.
InUse == pc \in {"flush", "recv"} \/ (pc = "loop" /\ comm.state = "CONNECTED")

\* No use after free: whenever the client is going to use its xio handle, that
\* handle is NULL or the live one of the communicator, although mqtt_comm.c
\* destroys and recreates handles without telling the client.
NoDanglingHandle ==
    InUse => client.xioHandle = NULL \/ (/\ client.xioHandle = comm.xioHandle
                                         /\ Allocated(State, client.xioHandle))

\* No leak: the transport the communicator holds is the only one allocated, so a
\* reconnect never leaves a socket or a TLS context behind.
OneTransport == \A h \in Handles : xio[h].st # "none" => h = comm.xioHandle

\* On an open transport clientConnected means that the broker has accepted this
\* connection, not an earlier one: keep-alive never runs on a stale session.
SessionIsCurrent ==
    InUse /\ client.clientConnected /\ IsOpen(State, client.xioHandle) => link.accepted

\* A communicator that reports MQTT_CONNECTED between two turns of the loop has an
\* open transport to work on; otherwise no later step could ever notice.
ConnectedHasTransport ==
    pc = "loop" /\ comm.state = "CONNECTED"
        => client.socketConnected /\ IsOpen(State, client.xioHandle)

\* However often MQTT_CONNECTING retries, a transport is opened with nothing pending
\* and on a TLS context no handshake has used: no rest of a packet of an earlier
\* connection, which socketio_close leaves in pending_io_list, reaches the broker
\* ahead of CONNECT, and no handshake resumes in the middle of a failed one.
\* Module SocketIo relies on it.
OpensClean ==
    pc = "connecting" /\ comm.xioHandle # NULL =>
        xio[comm.xioHandle].pending = <<>> /\ xio[comm.xioHandle].tls = "fresh"

\* SRS_MQTT_CLIENT_07_009: a mqtt_client_connect that succeeds, with no fault on
\* the way, has sent CONNECT to the broker.
ConnectSends ==
    [][TryConnect /\ pc' = "loop" /\ faults' = faults => link'.asked]_vars

\* CONNECT is the first packet of every connection, although onOpenComplete only logs
\* that it could not be built or sent, and then leaves the connection open: a broker
\* closes a connection that begins with anything else, and no connection is closed
\* that way (Delivered); an open one is lost to a fault of the network alone.
ConnectIsFirst ==
    [][link.net = "up" /\ link'.net = "reset" => LinkFault]_vars

\* SRS_MQTT_CLIENT_07_035: the no-ping-response error is raised only if a PINGREQ
\* sent on this connection is unanswered.
PingTimeoutIsReal ==
    pc = "recv" /\ chunk = <<>> /\ KeepAliveActive(State) /\ PingOverdue(State) => link.pinged
=============================================================================
