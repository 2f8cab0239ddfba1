--------------------------- MODULE MqttComm_proofs ---------------------------
(***************************************************************************)
(* Proofs about MqttComm: type correctness, and that no transport is used  *)
(* after it was freed or leaked, for any number of faults, any addresses   *)
(* and either transport.                                                   *)
(***************************************************************************)
EXTENDS MqttComm, TLAPS

(***************************************************************************)
(* The states the functions of the client are called in.  Live: exactly    *)
(* the transport of the communicator is allocated.  Sound: and the client  *)
(* works on it or on none.  Every function leads from a sound state to a   *)
(* sound one with the same transport, and none makes the communicator      *)
(* MQTT_CONNECTING.                                                        *)
(***************************************************************************)
System == [client : Client, comm : Communicator, xio : [Handles -> Transport],
           link : Link, now : Ticks]

Live(s) == \A h \in Handles : s.xio[h].st # "none" <=> h = s.comm.xioHandle

Sound(s) ==
    /\ s \in System
    /\ Live(s)
    /\ s.client.xioHandle \in {NULL, s.comm.xioHandle}

Keeps(s, t) ==
    /\ Sound(t)
    /\ t.comm.xioHandle = s.comm.xioHandle
    /\ t.comm.state = "CONNECTING" => s.comm.state = "CONNECTING"

-----------------------------------------------------------------------------
\* Keeping is transitive: a function that calls another one keeps what both keep.
LEMMA KeepsTwice ==
    ASSUME NEW s, NEW t, NEW u, Keeps(s, t), Keeps(t, u)
    PROVE  Keeps(s, u)
BY DEF Keeps

\* A callback of mqtt_comm.c sets the communicator's state.
LEMMA StateSet ==
    ASSUME NEW s, Sound(s), NEW c \in CommStates \ {"CONNECTING"}
    PROVE  Keeps(s, [s EXCEPT !.comm.state = c])
BY DEF Sound, Live, Keeps, System, Communicator

\* What happens on the connection changes no handle.
LEMMA LinkSet ==
    ASSUME NEW s, Sound(s), NEW l \in Link
    PROVE  Keeps(s, [s EXCEPT !.link = l])
BY DEF Sound, Live, Keeps, System

\* close_connection sets xioHandle to NULL.
LEMMA HandleForgotten ==
    ASSUME NEW s, Sound(s)
    PROVE  Keeps(s, [s EXCEPT !.client.xioHandle = NULL])
BY DEF Sound, Live, Keeps, System, Client

-----------------------------------------------------------------------------
\* Calling the disconnect callback changes no handle.
LEMMA CallDisconnectCbKeeps ==
    ASSUME NEW s, Sound(s)
    PROVE  Keeps(s, CallDisconnectCb(s))
BY DEF Sound, Live, Keeps, System, Client, CallDisconnectCb

\* on_connection_closed touches flags of the client only.
LEMMA OnConnectionClosedKeeps ==
    ASSUME NEW s, Sound(s)
    PROVE  Keeps(s, OnConnectionClosed(s))
<1> DEFINE t == [s EXCEPT !.client.socketConnected = FALSE,
                          !.client.clientConnected = FALSE]
<1>1. Keeps(s, t)
    BY DEF Sound, Live, Keeps, System, Client
<1>2. Keeps(t, CallDisconnectCb(t))
    BY <1>1, CallDisconnectCbKeeps DEF Keeps
<1> QED BY <1>1, <1>2 DEF Keeps, OnConnectionClosed

\* What the functions of a transport do to its record.
TransportStates == {"none", "closed", "open", "error"}

\* A change of io_state (socketio, tlsio) changes nothing else.
LEMMA StateEdit ==
    ASSUME NEW r \in Transport, NEW st \in TransportStates
    PROVE  /\ [r EXCEPT !.st = st] \in Transport
           /\ [r EXCEPT !.st = st].st = st
           /\ [r EXCEPT !.st = st].pending = r.pending
BY DEF Transport, TransportStates

\* What a handshake does to the TLS context does not change the state of the transport.
LEMMA ContextEdit ==
    ASSUME NEW r \in Transport, NEW c \in TlsContexts
    PROVE  /\ [r EXCEPT !.tls = c] \in Transport
           /\ [r EXCEPT !.tls = c].st = r.st
BY DEF Transport

\* A change of pending_io_list does not change the state of the transport.
LEMMA PendingEdit ==
    ASSUME NEW r \in Transport, NEW q \in Seq(Requests)
    PROVE  /\ [r EXCEPT !.pending = q] \in Transport
           /\ [r EXCEPT !.pending = q].st = r.st
BY DEF Transport

\* Replacing the record of the allocated transport by another allocated one.
LEMMA TransportReplaced ==
    ASSUME NEW s, Sound(s), NEW h \in Handles, h = s.comm.xioHandle,
           NEW x \in Transport, x.st # "none",
           NEW t \in System,
           t.client.xioHandle \in {NULL, s.comm.xioHandle},
           t.comm.xioHandle = s.comm.xioHandle,
           t.comm.state = "CONNECTING" => s.comm.state = "CONNECTING",
           t.xio = [s.xio EXCEPT ![h] = x]
    PROVE  Keeps(s, t)
BY DEF Sound, Live, Keeps, System

\* Closing the transport of the communicator does not free it.
LEMMA ShutKeeps ==
    ASSUME NEW s, Sound(s), NEW h \in Handles, h = s.comm.xioHandle
    PROVE  Keeps(s, Shut(s, h))
<1> DEFINE t == Shut(s, h)
           x == [s.xio[h] EXCEPT !.st = "closed"]
<1>1. s.xio \in [Handles -> Transport] /\ s.link \in Link
    BY DEF Sound, System
<1>2. x \in Transport /\ x.st = "closed" /\ NoLink \in Link
    <2>1. NoLink \in Link
        BY DEF Link, NoLink
    <2>2. s.xio[h] \in Transport
        BY <1>1
    <2> QED BY <2>1, <2>2, StateEdit DEF TransportStates
<1>3. /\ t.client.xioHandle \in {NULL, s.comm.xioHandle}
      /\ t.comm = s.comm
      /\ t.xio = [s.xio EXCEPT ![h] = x]
      /\ t \in System
    BY <1>1, <1>2 DEF Sound, System, Shut
<1> HIDE DEF t, x
<1>4. Keeps(s, t)
    BY <1>2, <1>3, TransportReplaced
<1> QED BY <1>4 DEF t

\* A transport in its error state is still allocated.
LEMMA ErrorMarked ==
    ASSUME NEW s, Sound(s), NEW h \in Handles, h = s.comm.xioHandle
    PROVE  Keeps(s, [s EXCEPT !.xio[h].st = "error"])
<1> DEFINE x == [s.xio[h] EXCEPT !.st = "error"]
           t == [s EXCEPT !.xio[h].st = "error"]
<1>1. x \in Transport /\ x.st # "none"
    <2>1. s.xio[h] \in Transport
        BY DEF Sound, System
    <2> QED BY <2>1, StateEdit DEF TransportStates
<1>2. /\ t.client.xioHandle \in {NULL, s.comm.xioHandle}
      /\ t.comm = s.comm
      /\ t.xio = [s.xio EXCEPT ![h] = x]
      /\ t \in System
    BY <1>1 DEF Sound, System
<1> HIDE DEF t, x
<1>3. Keeps(s, t)
    BY <1>1, <1>2, TransportReplaced
<1> QED BY <1>3 DEF t

\* Failing the pending sends of a closed transport does not free it.
LEMMA FailPendingKeeps ==
    ASSUME NEW s, Sound(s), NEW h, h \in {NULL, s.comm.xioHandle}
    PROVE  Keeps(s, FailPending(s, h))
<1> DEFINE x == [s.xio[h] EXCEPT !.pending = <<>>, !.st = "error"]
           t == FailPending(s, h)
<1>1. CASE h # NULL /\ ~Tls /\ s.xio[h].pending # <<>>
    <2>0. h \in Handles /\ h = s.comm.xioHandle
        BY <1>1 DEF Sound, System, Communicator
    <2>1. s.xio \in [Handles -> Transport] /\ s.xio[h] \in Transport
        BY <2>0 DEF Sound, System
    <2>2. x \in Transport /\ x.st = "error"
        <3> DEFINE e == [s.xio[h] EXCEPT !.pending = <<>>]
        <3>1. e \in Transport
            BY <2>1, <<>> \in Seq(Requests), PendingEdit
        <3>2. x = [e EXCEPT !.st = "error"]
            OBVIOUS
        <3> HIDE DEF e, x
        <3> QED BY <3>1, <3>2, StateEdit DEF TransportStates
    <2>3. /\ t.client = s.client
          /\ t.comm = [s.comm EXCEPT !.state = "ERROR"]
          /\ t.xio = [s.xio EXCEPT ![h] = x]
          /\ t \in System
        BY <1>1, <2>0, <2>1, <2>2 DEF Sound, System, Communicator, CommStates, FailPending
    <2>4. /\ t.client.xioHandle \in {NULL, s.comm.xioHandle}
          /\ t.comm.xioHandle = s.comm.xioHandle /\ t.comm.state = "ERROR"
          /\ t.xio = [s.xio EXCEPT ![h] = x]
          /\ t \in System
        BY <2>3 DEF Sound, System, Communicator
    <2> HIDE DEF t, x
    <2>5. Keeps(s, t)
        BY <2>0, <2>2, <2>4, TransportReplaced
    <2> QED BY <2>5 DEF t
<1>2. CASE ~(h # NULL /\ ~Tls /\ s.xio[h].pending # <<>>)
    BY <1>2 DEF Keeps, FailPending
<1> QED BY <1>1, <1>2

\* close_connection forgets the client's handle at most; the communicator's stays.
LEMMA CloseConnectionKeeps ==
    ASSUME NEW s, Sound(s)
    PROVE  Keeps(s, CloseConnection(s))
<1> DEFINE h == s.client.xioHandle
           closed == IF CloseCallsBack(s, h) THEN OnConnectionClosed(Shut(s, h)) ELSE s
           worked == IF s.client.disconnect_cb THEN closed ELSE FailPending(closed, h)
<1>1. Keeps(s, s)
    BY DEF Keeps
<1>2. h \in {NULL, s.comm.xioHandle}
    BY DEF Sound
<1>3. Keeps(s, closed)
    <2>1. CASE CloseCallsBack(s, h)
        <3>1. h \in Handles /\ h = s.comm.xioHandle
            BY <1>2, <2>1 DEF Sound, System, Communicator, CloseCallsBack
        <3>2. Keeps(s, Shut(s, h))
            BY <3>1, ShutKeeps
        <3>3. Keeps(Shut(s, h), OnConnectionClosed(Shut(s, h)))
            BY <3>2, OnConnectionClosedKeeps DEF Keeps
        <3> QED BY <2>1, <3>2, <3>3, KeepsTwice
    <2> QED BY <1>1, <2>1
<1> HIDE DEF closed
<1>4. Keeps(s, worked)
    <2>1. Sound(closed) /\ h \in {NULL, closed.comm.xioHandle}
        BY <1>2, <1>3 DEF Keeps
    <2>2. Keeps(closed, FailPending(closed, h))
        BY <2>1, FailPendingKeeps
    <2> QED BY <1>3, <2>2, KeepsTwice
<1> HIDE DEF worked
<1>5. Keeps(s, [worked EXCEPT !.client.xioHandle = NULL])
    <2>1. Keeps(worked, [worked EXCEPT !.client.xioHandle = NULL])
        BY <1>4, HandleForgotten DEF Keeps
    <2> QED BY <1>4, <2>1, KeepsTwice
<1>6. Keeps(s, CallDisconnectCb(s))
    BY CallDisconnectCbKeeps
<1>7. CloseConnection(s) = IF s.client.socketConnected
                           THEN [worked EXCEPT !.client.xioHandle = NULL]
                           ELSE CallDisconnectCb(s)
    BY DEF CloseConnection, worked, closed
<1> QED BY <1>5, <1>6, <1>7

\* A callback to the communicator followed by close_connection.
LEMMA ClosedAs ==
    ASSUME NEW s, Sound(s), NEW c \in CommStates \ {"CONNECTING"}
    PROVE  Keeps(s, CloseConnection([s EXCEPT !.comm.state = c]))
<1> DEFINE t == [s EXCEPT !.comm.state = c]
<1>1. Keeps(s, t)
    BY StateSet
<1> HIDE DEF t
<1>2. Keeps(t, CloseConnection(t))
    BY <1>1, CloseConnectionKeeps DEF Keeps
<1>3. Keeps(s, CloseConnection(t))
    BY <1>1, <1>2, KeepsTwice
<1> QED BY <1>3 DEF t

\* set_error_callback and onIoError.
LEMMA SetErrorKeeps ==
    ASSUME NEW s, Sound(s)
    PROVE  Keeps(s, SetError(s))
BY ClosedAs DEF SetError, CommStates

-----------------------------------------------------------------------------
\* sendComplete, which closes the connection after DISCONNECT.
LEMMA SendCompleteKeeps ==
    ASSUME NEW s, Sound(s)
    PROVE  Keeps(s, SendComplete(s))
<1>1. Keeps(s, s)
    BY DEF Keeps
<1>2. Keeps(s, CloseConnection([s EXCEPT !.comm.state = "DISCONNECTED"]))
    BY ClosedAs DEF CommStates
<1> QED BY <1>1, <1>2 DEF SendComplete

\* The link stays well-formed when a packet reaches the broker.
LEMMA DeliveredType ==
    ASSUME NEW l \in Link, NEW p \in Requests
    PROVE  Delivered(l, p) \in Link
<1>1. Answer[p] \subseteq Replies
    BY DEF Answer, Replies, Requests
<1>2. l.owed \cup Answer[p] \in SUBSET Replies
    BY <1>1 DEF Link
<1> QED BY <1>2 DEF Delivered, Link

\* xio_send, with every callback it may make.
LEMMA XioSendKeeps ==
    ASSUME NEW s, Sound(s), NEW p \in Requests, NEW o \in XioSendOutcomes
    PROVE  Keeps(s, XioSend(s, s.client.xioHandle, p, o))
<1> DEFINE h == s.client.xioHandle
           r == XioSendResult(s, h, o)
           handed == IF p = "PINGREQ" THEN [s EXCEPT !.link.pinged = TRUE] ELSE s
<1>1. Keeps(s, s)
    BY DEF Keeps
<1>2. r \in {"refused", "ok", "queued", "dropped", "fail"}
    BY DEF XioSendResult, XioSendOutcomes
<1>3. Keeps(s, handed)
    BY <1>1 DEF Sound, Live, Keeps, System, Link
<1> HIDE DEF handed
<1>4. ASSUME r # "refused"
      PROVE  h \in Handles /\ h = s.comm.xioHandle
    BY <1>4 DEF XioSendResult, IsOpen, Sound, System, Communicator
<1>5. CASE r = "ok"
    <2> DEFINE t == [handed EXCEPT !.link = Delivered(@, p)]
    <2>1. handed.link \in Link
        BY <1>3 DEF Keeps, Sound, System
    <2>2. Keeps(handed, t)
        BY <1>3, <2>1, DeliveredType, LinkSet DEF Keeps
    <2> HIDE DEF t
    <2>3. Keeps(t, SendComplete(t))
        BY <2>2, SendCompleteKeeps DEF Keeps
    <2>4. Keeps(s, SendComplete(t))
        BY <1>3, <2>2, <2>3, KeepsTwice
    <2> QED BY <1>5, <2>4 DEF XioSend, t, handed
<1>6. CASE r = "queued"
    <2> DEFINE q == [handed.xio[h] EXCEPT !.pending = Append(@, p)]
               t == [handed EXCEPT !.xio[h].pending = Append(@, p)]
    <2>1. /\ h \in Handles /\ h = handed.comm.xioHandle
          /\ handed.xio[h] \in Transport /\ handed.xio[h].st # "none"
        BY <1>3, <1>4, <1>6 DEF Keeps, Sound, Live, System
    <2>2. Append(handed.xio[h].pending, p) \in Seq(Requests)
        BY <2>1 DEF Transport
    <2>3. q \in Transport /\ q.st # "none"
        BY <2>1, <2>2, PendingEdit
    <2>4. /\ t.client.xioHandle \in {NULL, handed.comm.xioHandle}
          /\ t.comm = handed.comm
          /\ t.xio = [handed.xio EXCEPT ![h] = q]
          /\ t \in System
        BY <1>3, <2>1, <2>3 DEF Keeps, Sound, System
    <2>5. Sound(handed)
        BY <1>3 DEF Keeps
    <2> HIDE DEF t, q
    <2>6. Keeps(handed, t)
        BY <2>1, <2>3, <2>4, <2>5, TransportReplaced
    <2>7. Keeps(s, t)
        BY <1>3, <2>6, KeepsTwice
    <2> QED BY <1>6, <2>7 DEF XioSend, t, handed
<1>7. CASE r = "dropped"
    <2>1. Keeps(s, [s EXCEPT !.link.net = "silent"])
        BY DEF Sound, Live, Keeps, System, Link
    <2> QED BY <1>1, <1>7, <2>1 DEF XioSend
<1>8. CASE r = "fail"
    <2> DEFINE t == [s EXCEPT !.xio[h].st = "error"]
    <2>1. Keeps(s, t)
        BY <1>4, <1>8, ErrorMarked
    <2> HIDE DEF t
    <2>2. Keeps(t, SetError(t))
        BY <2>1, SetErrorKeeps DEF Keeps
    <2>3. Keeps(s, SetError(t))
        BY <2>1, <2>2, KeepsTwice
    <2> QED BY <1>1, <1>8, <2>3 DEF XioSend, t
<1>9. CASE r = "refused"
    BY <1>1, <1>9 DEF XioSend
<1> QED BY <1>2, <1>5, <1>6, <1>7, <1>8, <1>9

\* sendPacketItem.
LEMMA SendPacketItemKeeps ==
    ASSUME NEW s, Sound(s), NEW p \in Requests, NEW o \in XioSendOutcomes
    PROVE  Keeps(s, SendPacketItem(s, p, o))
<1> DEFINE t == [s EXCEPT !.client.packetSendTimeMs = s.now]
<1>1. Keeps(s, t) /\ t.client.xioHandle = s.client.xioHandle
    BY DEF Sound, Live, Keeps, System, Client
<1> HIDE DEF t
<1>2. Keeps(t, XioSend(t, t.client.xioHandle, p, o))
    BY <1>1, XioSendKeeps DEF Keeps
<1>3. Keeps(s, XioSend(t, s.client.xioHandle, p, o))
    BY <1>1, <1>2, KeepsTwice
<1> QED BY <1>3 DEF SendPacketItem, t

\* mqtt_client_publish and mqtt_client_subscribe; CONNECT.
LEMMA ClientSendKeeps ==
    ASSUME NEW s, Sound(s), NEW p \in {"CONNECT", "PUBLISH", "SUBSCRIBE"},
           NEW o \in SendOutcomes
    PROVE  Keeps(s, ClientSend(s, p, o))
<1> DEFINE t == [s EXCEPT !.client.packetState = p]
<1>1. Keeps(s, s)
    BY DEF Keeps
<1>2. Keeps(s, t)
    BY DEF Sound, Live, Keeps, System, Client, PacketStates
<1> HIDE DEF t
<1>3. ASSUME o # "noPacket" PROVE Keeps(s, SendPacketItem(t, p, o))
    <2>1. o \in XioSendOutcomes /\ p \in Requests
        BY <1>3 DEF SendOutcomes, Requests
    <2>2. Keeps(t, SendPacketItem(t, p, o))
        BY <1>2, <2>1, SendPacketItemKeeps DEF Keeps
    <2> QED BY <1>2, <2>2, KeepsTwice
<1> QED BY <1>1, <1>3 DEF ClientSend, t

-----------------------------------------------------------------------------
\* onOpenComplete, which sends CONNECT or closes.
LEMMA OnOpenCompleteKeeps ==
    ASSUME NEW s, Sound(s), NEW opened \in BOOLEAN, NEW o \in SendOutcomes
    PROVE  Keeps(s, OnOpenComplete(s, opened, o))
<1> DEFINE t == [s EXCEPT !.client.packetState = "CONNECT",
                          !.client.socketConnected = TRUE]
<1>1. Keeps(s, t)
    BY DEF Sound, Live, Keeps, System, Client, PacketStates
<1> HIDE DEF t
<1>2. Keeps(t, ClientSend(t, "CONNECT", o))
    BY <1>1, ClientSendKeeps DEF Keeps
<1>3. Keeps(s, ClientSend(t, "CONNECT", o))
    BY <1>1, <1>2, KeepsTwice
<1>4. Keeps(s, CloseConnection(s))
    BY CloseConnectionKeeps
<1>5. Keeps(s, CloseConnection([s EXCEPT !.comm.state = "ERROR"]))
    BY ClosedAs DEF CommStates
<1> QED BY <1>3, <1>4, <1>5 DEF OnOpenComplete, t

\* The handshake completes on the communicator's transport.
LEMMA OpenedKeeps ==
    ASSUME NEW s, Sound(s), NEW h \in Handles, h = s.comm.xioHandle,
           NEW c \in TlsContexts, NEW l \in Link
    PROVE  Keeps(s, [s EXCEPT !.xio[h].st = "open", !.xio[h].tls = c, !.link = l])
<1> DEFINE x == [s.xio[h] EXCEPT !.st = "open", !.tls = c]
           u == [s EXCEPT !.xio[h].st = "open", !.xio[h].tls = c, !.link = l]
<1>1. s.xio \in [Handles -> Transport] /\ s.xio[h] \in Transport
    BY DEF Sound, System
<1>2. x \in Transport /\ x.st = "open"
    <2> DEFINE e == [s.xio[h] EXCEPT !.st = "open"]
    <2>1. e \in Transport /\ e.st = "open"
        BY <1>1, StateEdit DEF TransportStates
    <2>2. x = [e EXCEPT !.tls = c]
        OBVIOUS
    <2> HIDE DEF e, x
    <2> QED BY <2>1, <2>2, ContextEdit
<1>3. /\ u.client.xioHandle \in {NULL, s.comm.xioHandle}
      /\ u.comm = s.comm
      /\ u.xio = [s.xio EXCEPT ![h] = x]
      /\ u \in System
    BY <1>1, <1>2 DEF Sound, System
<1> HIDE DEF u, x
<1>4. Keeps(s, u)
    BY <1>2, <1>3, TransportReplaced
<1> QED BY <1>4 DEF u

\* A handshake that does not complete leaves its marks on the TLS context only.
LEMMA ContextUsed ==
    ASSUME NEW s, Sound(s), NEW h \in Handles, h = s.comm.xioHandle
    PROVE  Keeps(s, [s EXCEPT !.xio[h].tls = "used"])
<1> DEFINE x == [s.xio[h] EXCEPT !.tls = "used"]
           u == [s EXCEPT !.xio[h].tls = "used"]
<1>1. s.xio \in [Handles -> Transport] /\ s.xio[h] \in Transport /\ s.xio[h].st # "none"
    BY DEF Sound, System, Live
<1>2. x \in Transport /\ x.st # "none"
    BY <1>1, ContextEdit DEF TlsContexts
<1>3. /\ u.client.xioHandle \in {NULL, s.comm.xioHandle}
      /\ u.comm = s.comm
      /\ u.xio = [s.xio EXCEPT ![h] = x]
      /\ u \in System
    BY <1>1, <1>2 DEF Sound, System
<1> HIDE DEF u, x
<1>4. Keeps(s, u)
    BY <1>2, <1>3, TransportReplaced
<1> QED BY <1>4 DEF u

\* mqtt_client_connect makes the client work on the transport it is given, whatever
\* it worked on before.
LEMMA ConnectSound ==
    ASSUME NEW s, s \in System, Live(s), s.comm.xioHandle # NULL,
           NEW open \in OpenOutcomes, NEW o \in SendOutcomes
    PROVE  Sound(Connect(s, s.comm.xioHandle, open, o))
<1> DEFINE h == s.comm.xioHandle
           t == [s EXCEPT !.client.xioHandle = h, !.client.packetState = "UNKNOWN"]
           u == [t EXCEPT !.xio[h].st = "open", !.link = FreshLink,
                          !.xio[h].tls = IF Tls THEN "shaken" ELSE "fresh"]
           f == OnOpenComplete(t, FALSE, o)
           l == [FreshLink EXCEPT !.net = "reset"]
           v == [f EXCEPT !.xio[h].st = "open", !.xio[h].tls = "shaken",
                          !.link = [FreshLink EXCEPT !.net = "reset"]]
           w == [f EXCEPT !.xio[h].tls = "used"]
<1>1. h \in Handles
    BY DEF System, Communicator
<1>2. Sound(t) /\ t.comm.xioHandle = h
    BY DEF Sound, Live, System, Client, Communicator, PacketStates
<1>3. /\ FreshLink \in Link /\ l \in Link
      /\ (IF Tls THEN "shaken" ELSE "fresh") \in TlsContexts /\ "shaken" \in TlsContexts
    BY DEF FreshLink, NoLink, Link, TlsContexts
<1>4. Connect(s, h, open, o) =
        IF h = NULL THEN s
        ELSE IF open = "noMem" THEN t
        ELSE IF s.xio[h].st # "closed" THEN IF Tls THEN t ELSE f
        ELSE CASE open = "ok"      -> OnOpenComplete(u, TRUE, o)
               [] open = "late"    -> OnOpenComplete(v, TRUE, o)
               [] open = "tlsFail" -> w
               [] OTHER            -> f
    BY DEF Connect
<1>5. u = [t EXCEPT !.xio[h].st = "open",
                    !.xio[h].tls = IF Tls THEN "shaken" ELSE "fresh", !.link = FreshLink]
    BY <1>1, <1>2 DEF Sound, System
<1> HIDE DEF t, u
<1>6. Keeps(t, u)
    BY <1>1, <1>2, <1>3, <1>5, OpenedKeeps
<1>7. Keeps(t, f)
    BY <1>2, OnOpenCompleteKeeps
<1> HIDE DEF f
<1>8. Keeps(f, v) /\ Keeps(f, w)
    <2>1. Sound(f) /\ h = f.comm.xioHandle
        BY <1>2, <1>7 DEF Keeps
    <2>2. Keeps(f, v)
        BY <1>1, <1>3, <2>1, OpenedKeeps
    <2>3. Keeps(f, w)
        BY <1>1, <2>1, ContextUsed
    <2> QED BY <2>2, <2>3
<1> HIDE DEF v, w
<1> DEFINE cu == OnOpenComplete(u, TRUE, o)
           cv == OnOpenComplete(v, TRUE, o)
<1>9. Sound(cu) /\ Sound(cv)
    BY <1>6, <1>8, OnOpenCompleteKeeps DEF Keeps
<1>10. h # NULL /\ Sound(t) /\ Sound(f) /\ Sound(w)
    BY <1>2, <1>7, <1>8 DEF Keeps
<1>11. Connect(s, h, open, o) \in {t, f, cu, cv, w} \/ h = NULL
    <2> HIDE DEF h, cu, cv
    <2> QED BY <1>4 DEF cu, cv
<1> HIDE DEF cu, cv
<1> QED BY <1>9, <1>10, <1>11

\* The keep-alive half of mqtt_client_dowork.
LEMMA KeepAliveCheckKeeps ==
    ASSUME NEW s, Sound(s), NEW o \in SendOutcomes
    PROVE  Keeps(s, KeepAliveCheck(s, o))
<1> DEFINE e == SetError(s)
           t == [e EXCEPT !.client.timeSincePing = 0,
                          !.client.packetSendTimeMs = 0,
                          !.client.packetState = "UNKNOWN"]
           p == SendPacketItem(s, "PINGREQ", o)
           u == [p EXCEPT !.client.timeSincePing = s.now]
<1>1. Keeps(s, s)
    BY DEF Keeps
<1>2. Keeps(s, e)
    BY SetErrorKeeps
<1> HIDE DEF e
<1>3. 0 \in Ticks
    BY ClientAssumption DEF Ticks
<1>4. Keeps(s, t)
    BY <1>2, <1>3 DEF Sound, Live, Keeps, System, Client, PacketStates
<1>5. ASSUME o # "noPacket" PROVE Keeps(s, u)
    <2>1. o \in XioSendOutcomes /\ "PINGREQ" \in Requests
        BY <1>5 DEF SendOutcomes, Requests
    <2>2. Keeps(s, p)
        BY <2>1, SendPacketItemKeeps
    <2> HIDE DEF p
    <2>3. s.now \in Ticks
        BY DEF Sound, System
    <2> QED BY <2>2, <2>3 DEF Sound, Live, Keeps, System, Client
<1> QED BY <1>1, <1>4, <1>5 DEF KeepAliveCheck, e

-----------------------------------------------------------------------------
\* MQTT_Comm_Publish.
LEMMA CommPublishKeeps ==
    ASSUME NEW s, Sound(s), NEW o \in SendOutcomes
    PROVE  Keeps(s, CommPublish(s, o))
<1> DEFINE t == ClientSend(s, "PUBLISH", o)
<1>1. Keeps(s, s)
    BY DEF Keeps
<1>2. Keeps(s, t)
    BY ClientSendKeeps
<1> HIDE DEF t
<1>3. Keeps(t, [t EXCEPT !.comm.state = "ERROR"])
    BY <1>2, StateSet DEF Keeps, CommStates
<1>4. Keeps(s, [t EXCEPT !.comm.state = "ERROR"])
    BY <1>2, <1>3, KeepsTwice
<1> QED BY <1>1, <1>2, <1>4 DEF CommPublish, t

\* MQTT_Comm_Subcribe, with the wrap of packetId.
LEMMA CommSubcribeKeeps ==
    ASSUME NEW s, Sound(s), NEW o \in SendOutcomes
    PROVE  Keeps(s, CommSubcribe(s, o))
<1> DEFINE n == [s EXCEPT !.comm.packetId = NextPacketId(@)]
           t == ClientSend(n, "SUBSCRIBE", o)
<1>1. s.comm.packetId \in PacketIds
    BY DEF Sound, System, Communicator
<1>2. NextPacketId(s.comm.packetId) \in PacketIds
    BY <1>1, CommAssumption DEF NextPacketId, PacketIds
<1>3. Keeps(s, n)
    BY <1>2 DEF Sound, Live, Keeps, System, Communicator
<1> HIDE DEF n
<1>4. Keeps(s, t)
    BY <1>3, ClientSendKeeps, KeepsTwice DEF Keeps
<1> HIDE DEF t
<1>5. \A u : Keeps(s, u) => Keeps(s, [u EXCEPT !.comm.state = "ERROR"])
    BY StateSet, KeepsTwice DEF Keeps, CommStates
<1>6. /\ Keeps(s, [n EXCEPT !.comm.state = "ERROR"])
      /\ Keeps(s, [t EXCEPT !.comm.state = "ERROR"])
    BY <1>3, <1>4, <1>5
<1> QED BY <1>3, <1>4, <1>6 DEF CommSubcribe, n, t

\* An acknowledgement sent by recvCompleteCallback.
LEMMA AcknowledgeKeeps ==
    ASSUME NEW s, Sound(s), NEW p \in Requests, NEW o \in SendOutcomes
    PROVE  Keeps(s, Acknowledge(s, p, o))
BY SetErrorKeeps, SendPacketItemKeeps DEF Acknowledge, SendOutcomes

\* The CONNACK branch of recvCompleteCallback with the application's nested calls.
LEMMA OnConnAckKeeps ==
    ASSUME NEW s, Sound(s), NEW p, NEW o1 \in SendOutcomes, NEW o2 \in SendOutcomes
    PROVE  Keeps(s, OnConnAck(s, p, o1, o2))
<1> DEFINE t == [s EXCEPT !.comm.state = "CONNECTED"]
           u == CommPublish(t, o1)
           v == CommSubcribe(u, o2)
           w == [v EXCEPT !.client.clientConnected = TRUE]
<1>1. Keeps(s, t)
    BY StateSet DEF CommStates
<1> HIDE DEF t
<1>2. Keeps(t, u)
    BY <1>1, CommPublishKeeps DEF Keeps
<1> HIDE DEF u
<1>3. Keeps(u, v)
    BY <1>2, CommSubcribeKeeps DEF Keeps
<1> HIDE DEF v
<1>4. Keeps(v, w)
    BY <1>3 DEF Sound, Live, Keeps, System, Client
<1> HIDE DEF w
<1>5. Keeps(s, v) /\ Keeps(s, w)
    BY <1>1, <1>2, <1>3, <1>4, KeepsTwice
<1> QED BY <1>5 DEF OnConnAck, t, u, v, w

\* The PUBLISH branch of recvCompleteCallback, for each QoS.
LEMMA OnMessageKeeps ==
    ASSUME NEW s, Sound(s), NEW qos \in 0..2,
           NEW o1 \in SendOutcomes, NEW o2 \in SendOutcomes
    PROVE  Keeps(s, OnMessage(s, qos, o1, o2))
<1> DEFINE t == CommPublish(s, o1)
<1>1. Keeps(s, t)
    BY CommPublishKeeps
<1> HIDE DEF t
<1>2. Keeps(s, Acknowledge(t, "PUBCOMP", o2)) /\ Keeps(s, Acknowledge(t, "PUBREC", o2))
    <2>1. "PUBCOMP" \in Requests /\ "PUBREC" \in Requests
        BY DEF Requests
    <2> QED BY <1>1, <2>1, AcknowledgeKeeps, KeepsTwice DEF Keeps
<1>3. qos = 0 \/ qos = 1 \/ qos = 2
    OBVIOUS
<1> QED BY <1>1, <1>2, <1>3 DEF OnMessage, Acknowledge, t

\* recvCompleteCallback, whatever packet it is given.
LEMMA RecvCompleteKeeps ==
    ASSUME NEW s, Sound(s), NEW p \in Received, NEW qos \in 0..2,
           NEW o1 \in SendOutcomes, NEW o2 \in SendOutcomes
    PROVE  Keeps(s, RecvComplete(s, p, qos, o1, o2))
<1>1. Keeps(s, s)
    BY DEF Keeps
<1>2. Keeps(s, OnConnAck(s, p, o1, o2))
    BY OnConnAckKeeps
<1>3. Keeps(s, OnMessage(s, qos, o1, o2))
    BY OnMessageKeeps
<1>4. Keeps(s, CommPublish(s, o1))
    BY CommPublishKeeps
<1>5. Keeps(s, Acknowledge(s, "PUBREL", o1)) /\ Keeps(s, Acknowledge(s, "PUBCOMP", o1))
    BY AcknowledgeKeeps DEF Requests
<1>6. Keeps(s, PingResp(s))
    <2>1. 0 \in Ticks
        BY ClientAssumption DEF Ticks
    <2> QED BY <2>1 DEF PingResp, Sound, Live, Keeps, System, Client, Link
<1>7. Keeps(s, SetError(s))
    BY SetErrorKeeps
<1> QED BY <1>1, <1>2, <1>3, <1>4, <1>5, <1>6, <1>7 DEF RecvComplete, Received, Replies

-----------------------------------------------------------------------------
\* Nothing is allocated any more.
Empty(s) == s \in System /\ \A h \in Handles : s.xio[h].st = "none"

\* Discarding frees the one transport there is, even though freeing it calls back
\* into the client.
LEMMA DiscardEmpties ==
    ASSUME NEW s, Sound(s)
    PROVE  Empty(Discard(s))
<1> DEFINE h == s.comm.xioHandle
           c == Shut(s, h)
           e == [c EXCEPT !.xio[h].st = "error"]
           n == IF Tls /\ h # NULL /\ c.xio[h].tls = "shaken" THEN SetError(e) ELSE c
           d == [n EXCEPT !.xio[h] = NoTransport, !.link = NoLink]
<1>1. CASE h = NULL
    <2>1. Discard(s) = s
        BY <1>1 DEF Discard, XioCloseQuietly, XioDestroy
    <2>2. Empty(s)
        BY <1>1, XioAssumption DEF Empty, Sound, Live
    <2> QED BY <2>1, <2>2
<1>2. CASE h # NULL
    <2>1. h \in Handles
        BY <1>2 DEF Sound, System, Communicator
    <2>2. Keeps(s, c)
        BY <2>1, ShutKeeps
    <2> HIDE DEF c
    <2>3. h = c.comm.xioHandle /\ Sound(c)
        BY <2>2 DEF Keeps
    <2>4. Keeps(c, e)
        BY <2>1, <2>3, ErrorMarked
    <2> HIDE DEF e
    <2>5. Keeps(c, n)
        BY <2>3, <2>4, SetErrorKeeps, KeepsTwice DEF Keeps
    <2> HIDE DEF n
    <2>6. Sound(n) /\ h = n.comm.xioHandle
        BY <2>3, <2>5 DEF Keeps
    <2>7. NoTransport \in Transport /\ NoTransport.st = "none" /\ NoLink \in Link
        BY <<>> \in Seq(Requests) DEF NoTransport, Transport, TlsContexts, NoLink, Link
    <2>8. d \in System
        BY <2>1, <2>6, <2>7 DEF Sound, System
    <2>9. d.xio = [n.xio EXCEPT ![h] = NoTransport] /\ n.xio \in [Handles -> Transport]
        BY <2>6 DEF Sound, System
    <2>10. \A g \in Handles : n.xio[g].st # "none" <=> g = h
        BY <2>6 DEF Sound, Live
    <2> HIDE DEF d
    <2>11. Empty(d)
        BY <2>1, <2>7, <2>8, <2>9, <2>10 DEF Empty
    <2>12. Discard(s) = d
        BY <1>2 DEF Discard, XioCloseQuietly, XioDestroy, n, e, c, d
    <2> QED BY <2>11, <2>12
<1> QED BY <1>1, <1>2

\* The transport is as xio_create makes it: never opened, nothing pending.
Untouched(s) == s.comm.xioHandle # NULL => s.xio[s.comm.xioHandle] = NewTransport

\* Discarding a transport that was never opened calls nobody back.
LEMMA DiscardUntouched ==
    ASSUME NEW s, s \in System, Live(s), Untouched(s)
    PROVE  Empty(Discard(s))
<1> DEFINE h == s.comm.xioHandle
           c == Shut(s, h)
           d == [c EXCEPT !.xio[h] = NoTransport, !.link = NoLink]
<1>1. CASE h = NULL
    BY <1>1, XioAssumption DEF Empty, Live, Discard, XioCloseQuietly, XioDestroy
<1>2. CASE h # NULL
    <2>1. h \in Handles /\ s.xio \in [Handles -> Transport]
        BY <1>2 DEF System, Communicator
    <2>2. s.xio[h] = NewTransport /\ NewTransport.st = "closed" /\ NewTransport.tls = "fresh"
        BY <1>2 DEF Untouched, NewTransport, NoTransport
    <2>3. NoTransport \in Transport /\ NoTransport.st = "none" /\ NoLink \in Link
        BY <<>> \in Seq(Requests) DEF NoTransport, Transport, TlsContexts, NoLink, Link
    <2>4. c.xio = s.xio /\ c \in System
        <3>1. [s.xio EXCEPT ![h].st = "closed"] = s.xio
            BY <2>1, <2>2 DEF NewTransport, NoTransport
        <3>2. c.xio = s.xio /\ c.link = s.link
            BY <2>2, <3>1 DEF Shut, System
        <3> QED BY <3>2 DEF Shut, System
    <2> HIDE DEF c
    <2>5. d.xio = [s.xio EXCEPT ![h] = NoTransport] /\ d \in System
        BY <2>1, <2>3, <2>4 DEF System
    <2>6. c.xio[h].tls = "fresh"
        BY <2>2, <2>4
    <2>7. Discard(s) = d
        BY <1>2, <2>6 DEF Discard, XioCloseQuietly, XioDestroy, c
    <2> HIDE DEF d
    <2>8. Empty(d)
        BY <2>1, <2>3, <2>5 DEF Empty, Live
    <2> QED BY <2>7, <2>8
<1> QED BY <1>1, <1>2

\* close_connection does nothing to a transport that was never opened.
LEMMA CloseUntouched ==
    ASSUME NEW s, Sound(s), Untouched(s)
    PROVE  Untouched(CloseConnection(s))
<1> DEFINE h == s.client.xioHandle
           closed == IF CloseCallsBack(s, h) THEN OnConnectionClosed(Shut(s, h)) ELSE s
           worked == IF s.client.disconnect_cb THEN closed ELSE FailPending(closed, h)
<1>1. h = NULL \/ (h \in Handles /\ h = s.comm.xioHandle /\ s.xio[h] = NewTransport)
    BY DEF Sound, Untouched, System, Communicator
<1>2. NewTransport.st = "closed" /\ NewTransport.pending = <<>>
    BY DEF NewTransport, NoTransport
<1>3. closed.xio = s.xio /\ closed.comm = s.comm
    <2>1. CASE CloseCallsBack(s, h)
        <3>1. h \in Handles /\ s.xio[h] = NewTransport
            BY <1>1, <2>1 DEF CloseCallsBack
        <3>2. [s.xio EXCEPT ![h].st = "closed"] = s.xio
            BY <1>2, <3>1 DEF Sound, System, NewTransport, NoTransport
        <3>3. Shut(s, h).xio = s.xio /\ Shut(s, h).comm = s.comm
            BY <3>1, <3>2 DEF Shut, Sound, System
        <3>4. \A u : /\ OnConnectionClosed(u).xio = u.xio
                     /\ OnConnectionClosed(u).comm = u.comm
            BY DEF OnConnectionClosed, CallDisconnectCb
        <3> QED BY <2>1, <3>3, <3>4
    <2> QED BY <2>1
<1> HIDE DEF closed
<1>4. worked.xio = s.xio /\ worked.comm = s.comm
    BY <1>1, <1>2, <1>3 DEF FailPending
<1> HIDE DEF worked
<1>5. CloseConnection(s) = IF s.client.socketConnected
                           THEN [worked EXCEPT !.client.xioHandle = NULL]
                           ELSE CallDisconnectCb(s)
    BY DEF CloseConnection, worked, closed
<1>6. CloseConnection(s).xio = s.xio /\ CloseConnection(s).comm = s.comm
    BY <1>4, <1>5 DEF CallDisconnectCb
<1> QED BY <1>6 DEF Untouched

\* A mqtt_client_connect that fails leaves the transport as it found it, whatever
\* the client believed of an earlier connection.
LEMMA ConnectFails ==
    ASSUME NEW s, s \in System, Live(s), Untouched(s), NEW open \in OpenOutcomes,
           NEW o \in SendOutcomes, ~ConnectSucceeds(s, s.comm.xioHandle, open)
    PROVE  Untouched(Connect(s, s.comm.xioHandle, open, o))
<1> DEFINE h == s.comm.xioHandle
           t == [s EXCEPT !.client.xioHandle = h, !.client.packetState = "UNKNOWN"]
           u == [t EXCEPT !.xio[h].st = "open", !.link = FreshLink,
                          !.xio[h].tls = IF Tls THEN "shaken" ELSE "fresh"]
           v == [OnOpenComplete(t, FALSE, o) EXCEPT
                     !.xio[h].st = "open", !.xio[h].tls = "shaken",
                     !.link = [FreshLink EXCEPT !.net = "reset"]]
           w == [OnOpenComplete(t, FALSE, o) EXCEPT !.xio[h].tls = "used"]
           e == [t EXCEPT !.comm.state = "ERROR"]
<1>1. CASE h = NULL
    BY <1>1 DEF Connect
<1>2. CASE h # NULL
    <2>1. s.xio[h].st = "closed"
        BY <1>2 DEF Untouched, NewTransport, NoTransport
    <2>2. open \in {"error", "noMem"}
        BY <1>2, <2>1 DEF ConnectSucceeds, OpenOutcomes
    <2>3. Sound(t) /\ Untouched(t)
        BY DEF Sound, Live, System, Client, Communicator, PacketStates, Untouched
    <2>4. Connect(s, h, open, o) = IF open = "noMem" THEN t ELSE OnOpenComplete(t, FALSE, o)
        <3>1. Connect(s, h, open, o) =
                IF h = NULL THEN s
                ELSE IF open = "noMem" THEN t
                ELSE IF s.xio[h].st # "closed"
                     THEN IF Tls THEN t ELSE OnOpenComplete(t, FALSE, o)
                ELSE CASE open = "ok"      -> OnOpenComplete(u, TRUE, o)
                       [] open = "late"    -> OnOpenComplete(v, TRUE, o)
                       [] open = "tlsFail" -> w
                       [] OTHER            -> OnOpenComplete(t, FALSE, o)
            BY DEF Connect
        <3> HIDE DEF u, v, w, t
        <3> QED BY <1>2, <2>1, <2>2, <3>1
    <2> HIDE DEF t
    <2>5. Sound(e) /\ Untouched(e)
        <3>1. Sound(e)
            BY <2>3, StateSet DEF Keeps, CommStates
        <3>2. e.xio = t.xio /\ e.comm.xioHandle = t.comm.xioHandle
            BY <2>3 DEF Sound, System, Communicator
        <3> QED BY <2>3, <3>1, <3>2 DEF Untouched
    <2> HIDE DEF e
    <2>6. Untouched(CloseConnection(t)) /\ Untouched(CloseConnection(e))
        BY <2>3, <2>5, CloseUntouched
    <2>7. Untouched(OnOpenComplete(t, FALSE, o))
        BY <2>6 DEF OnOpenComplete, e
    <2> QED BY <2>3, <2>4, <2>7
<1> QED BY <1>1, <1>2

\* xio_create on an empty heap, also when it fails: the communicator's handle is
\* exactly what is allocated.
LEMMA XioCreateLive ==
    ASSUME NEW s, Empty(s), NEW h \in Handles \cup {NULL}
    PROVE  LET v == XioCreate(s, h)
               t == [v EXCEPT !.comm.state = "CONNECTING"]
           IN  /\ v \in System /\ Live(v) /\ Untouched(v)
               /\ t \in System /\ Live(t) /\ Untouched(t)
               /\ t.comm.state = "CONNECTING"
<1> DEFINE t == [s EXCEPT !.comm.xioHandle = NULL]
           u == [s EXCEPT !.comm.xioHandle = h, !.xio[h] = NewTransport]
<1>1. NewTransport \in Transport /\ NewTransport.st = "closed"
    BY <<>> \in Seq(Requests) DEF NewTransport, NoTransport, Transport, TlsContexts
<1>2. \A v \in System : Live(v) /\ Untouched(v) =>
        LET w == [v EXCEPT !.comm.state = "CONNECTING"]
        IN  /\ w \in System /\ Live(w) /\ Untouched(w) /\ w.comm.state = "CONNECTING"
    BY DEF System, Live, Untouched, Communicator, CommStates
<1>3. t \in System /\ Live(t) /\ Untouched(t)
    BY XioAssumption DEF Empty, System, Live, Untouched, Communicator
<1>4. ASSUME h # NULL PROVE u \in System /\ Live(u) /\ Untouched(u)
    <2>1. h \in Handles
        BY <1>4
    <2>2. /\ u \in System
          /\ u.comm.xioHandle = h
          /\ u.xio = [s.xio EXCEPT ![h] = NewTransport]
        BY <1>1, <2>1 DEF Empty, System, Communicator
    <2>3. Live(u) /\ Untouched(u)
        BY <1>1, <2>1, <2>2 DEF Empty, System, Live, Untouched
    <2> QED BY <2>2, <2>3
<1>5. XioCreate(s, h) = IF h = NULL THEN t ELSE u
    BY DEF XioCreate
<1> DEFINE v == XioCreate(s, h)
<1> HIDE DEF t, u
<1>6. v \in System /\ Live(v) /\ Untouched(v)
    BY <1>3, <1>4, <1>5
<1> HIDE DEF v
<1>7. LET w == [v EXCEPT !.comm.state = "CONNECTING"]
      IN  /\ w \in System /\ Live(w) /\ Untouched(w) /\ w.comm.state = "CONNECTING"
    BY <1>2, <1>6
<1> QED BY <1>6, <1>7 DEF v

-----------------------------------------------------------------------------
\* Between the replacement of the transport and mqtt_client_connect, which hands it
\* to the client, the client's handle is stale; nothing uses it there, and the new
\* transport has not been used.
Reconnecting == pc = "connecting" \/ (pc = "loop" /\ comm.state = "CONNECTING")

IInv ==
    /\ TypeOK
    /\ Live(State)
    /\ Reconnecting \/ client.xioHandle \in {NULL, comm.xioHandle}
    /\ Reconnecting => Untouched(State)
    /\ pc \in {"flush", "recv"} => comm.state # "CONNECTING"

Places == {"loop", "connecting", "flush", "recv", "hung"}

\* An action that leads to state s and place p preserves IInv if s is as IInv
\* demands at p.
LEMMA BecomeIInv ==
    ASSUME IInv, NEW s \in System, Live(s), NEW p \in Places, Become(s, p),
           chunk' \in Seq(Received), faults' \in 0 .. MaxFaults,
           \/ s.client.xioHandle \in {NULL, s.comm.xioHandle}
           \/ p = "connecting"
           \/ p = "loop" /\ s.comm.state = "CONNECTING",
           p = "connecting" \/ (p = "loop" /\ s.comm.state = "CONNECTING") => Untouched(s),
           p \in {"flush", "recv"} => s.comm.state # "CONNECTING"
    PROVE  IInv'
<1>1. now' \in Ticks
    BY DEF IInv, TypeOK, Become
<1>2. TypeOK'
    BY <1>1 DEF TypeOK, System, Become, Places
<1>3. Live(State)'
    BY DEF Live, State, Become
<1>4. (Reconnecting \/ client.xioHandle \in {NULL, comm.xioHandle})'
    BY DEF Reconnecting, Become
<1>5. (Reconnecting => Untouched(State))'
    BY DEF Reconnecting, Become, Untouched, State
<1>6. (pc \in {"flush", "recv"} => comm.state # "CONNECTING")'
    BY DEF Become
<1> QED BY <1>2, <1>3, <1>4, <1>5, <1>6 DEF IInv

\* The same for a sound state, where every place but the retry loop is allowed,
\* provided that the communicator does not ask for that one.
LEMMA BecomeSound ==
    ASSUME IInv, NEW s, Sound(s), NEW p \in Places \ {"connecting"}, Become(s, p),
           s.comm.state # "CONNECTING" \/ p = "hung",
           chunk' \in Seq(Received), faults' \in 0 .. MaxFaults
    PROVE  IInv'
BY BecomeIInv DEF Sound

\* Faults are never overspent.
LEMMA SpendType ==
    ASSUME faults \in 0 .. MaxFaults, NEW ks, Spend(ks)
    PROVE  faults' \in 0 .. MaxFaults
BY CommAssumption DEF Spend

\* What IInv says of the current state.
LEMMA StateSound ==
    ASSUME IInv
    PROVE  /\ State \in System /\ Live(State) /\ State.comm = comm
           /\ ~Reconnecting => Sound(State)
           /\ Reconnecting => Untouched(State)
           /\ pc \in {"flush", "recv"} => State.comm.state # "CONNECTING"
BY DEF IInv, TypeOK, State, System, Sound

-----------------------------------------------------------------------------
\* MQTT_Comm_Create allocates the one transport.
LEMMA InitIInv == ASSUME Init PROVE IInv
<1>1. 0 \in Ticks /\ 1 \in PacketIds
    BY ClientAssumption, CommAssumption DEF Ticks, PacketIds
<1>2. PICK h \in Handles :
        /\ comm = [xioHandle |-> h, state |-> "CONNECTING", packetId |-> 1]
        /\ xio = [x \in Handles |-> IF x = h THEN NewTransport ELSE NoTransport]
    BY DEF Init
<1>3. /\ NewTransport \in Transport /\ NewTransport.st = "closed"
      /\ NoTransport \in Transport /\ NoTransport.st = "none"
    BY <<>> \in Seq(Requests) DEF NewTransport, NoTransport, Transport, TlsContexts
<1>4. comm \in Communicator /\ xio \in [Handles -> Transport]
    BY <1>1, <1>2, <1>3 DEF Communicator, CommStates
<1>5. client \in Client /\ link \in Link
    BY <1>1 DEF Init, NewClient, Client, PacketStates, NoLink, Link
<1>6. chunk \in Seq(Received) /\ faults \in 0 .. MaxFaults
    BY <<>> \in Seq(Received), CommAssumption DEF Init
<1>9. TypeOK
    BY <1>1, <1>4, <1>5, <1>6 DEF Init, TypeOK
<1>7. Live(State)
    BY <1>2, <1>3 DEF Live, State
<1>8. Reconnecting
    BY <1>2 DEF Init, Reconnecting
<1>10. Untouched(State) /\ pc = "loop"
    BY <1>2 DEF Init, Untouched, State
<1> QED BY <1>9, <1>7, <1>8, <1>10 DEF IInv

\* case MQTT_ERROR: the old transport is freed before the new one is made.
LEMMA ReconnectIInv == ASSUME IInv, Reconnect PROVE IInv'
<1> DEFINE s == Discard(State)
<1>1. Sound(State)
    BY StateSound DEF Reconnect, Reconnecting
<1>2. Empty(s)
    BY <1>1, DiscardEmpties
<1>3. chunk' \in Seq(Received)
    BY DEF IInv, TypeOK, Reconnect
<1> HIDE DEF s
<1>4. PICK h \in Handles \cup {NULL} :
        /\ Become([XioCreate(s, h) EXCEPT !.comm.state = "CONNECTING"], "loop")
        /\ faults' = faults \/ Spend(<<"noMem">>)
    BY DEF Reconnect, FreeHandles, s
<1>5. faults' \in 0 .. MaxFaults
    BY <1>4, SpendType DEF IInv, TypeOK
<1> DEFINE c == XioCreate(s, h)
           t == [c EXCEPT !.comm.state = "CONNECTING"]
<1>6. t \in System /\ Live(t)
    BY <1>2, XioCreateLive
<1>7. Untouched(t) /\ t.comm.state = "CONNECTING"
    BY <1>2, XioCreateLive
<1>8. Become(t, "loop")
    BY <1>4
<1> HIDE DEF t
<1> QED BY <1>3, <1>5, <1>6, <1>7, <1>8, BecomeIInv DEF Places

\* Entering the retry loop.
LEMMA StartConnectingIInv == ASSUME IInv, StartConnecting PROVE IInv'
<1>1. chunk' \in Seq(Received) /\ faults' \in 0 .. MaxFaults
    BY DEF IInv, TypeOK, StartConnecting
<1>2. Untouched(State)
    BY StateSound DEF StartConnecting, Reconnecting
<1> QED BY <1>1, <1>2, StateSound, BecomeIInv DEF StartConnecting, Places

\* One attempt of the retry loop.
LEMMA TryConnectIInv == ASSUME IInv, TryConnect PROVE IInv'
<1>1. PICK open \in OpenOutcomes, o \in SendOutcomes :
        /\ Spend(<<FaultOf(open), o>>)
        /\ LET s == Connect(State, comm.xioHandle, open, o)
           IN  IF ~ConnectSucceeds(State, comm.xioHandle, open)
               THEN Become(s, "connecting")
               ELSE IF s.comm.state = "CONNECTING"
               THEN Become([s EXCEPT !.comm.state = "CONNECTED"], "loop")
               ELSE Become(s, "loop")
    BY DEF TryConnect
<1> DEFINE s == Connect(State, comm.xioHandle, open, o)
           t == [s EXCEPT !.comm.state = "CONNECTED"]
<1>2. chunk' \in Seq(Received) /\ faults' \in 0 .. MaxFaults
    BY <1>1, SpendType DEF IInv, TypeOK, TryConnect
<1>3. State.comm.xioHandle = comm.xioHandle /\ Untouched(State)
    BY StateSound DEF State, TryConnect, Reconnecting
<1>4. CASE comm.xioHandle = NULL
    <2>1. s = State /\ ~ConnectSucceeds(State, comm.xioHandle, open)
        BY <1>4 DEF Connect, ConnectSucceeds
    <2>2. Become(State, "connecting")
        BY <1>1, <2>1
    <2> QED BY <1>2, <1>3, <2>2, StateSound, BecomeIInv DEF Places
<1>5. CASE comm.xioHandle # NULL
    <2>1. Sound(s)
        BY <1>3, <1>5, StateSound, ConnectSound
    <2>2. ~ConnectSucceeds(State, comm.xioHandle, open) => Untouched(s)
        BY <1>3, StateSound, ConnectFails
    <2> HIDE DEF s
    <2>3. Sound(t) /\ t.comm.state = "CONNECTED"
        BY <2>1, StateSet DEF Keeps, CommStates, Sound, System, Communicator
    <2> HIDE DEF t
    <2>4. \/ Untouched(s) /\ Become(s, "connecting")
          \/ Become(t, "loop")
          \/ s.comm.state # "CONNECTING" /\ Become(s, "loop")
        BY <1>1, <2>2 DEF s, t
    <2>5. CASE Untouched(s) /\ Become(s, "connecting")
        BY <1>2, <2>1, <2>5, BecomeIInv DEF Places, Sound
    <2>6. CASE Become(t, "loop")
        BY <1>2, <2>3, <2>6, BecomeSound DEF Places
    <2>7. CASE s.comm.state # "CONNECTING" /\ Become(s, "loop")
        BY <1>2, <2>1, <2>7, BecomeSound DEF Places
    <2> QED BY <2>4, <2>5, <2>6, <2>7
<1> QED BY <1>4, <1>5

\* A handshake that never returns.
LEMMA HandshakeStallsIInv == ASSUME IInv, HandshakeStalls PROVE IInv'
<1> DEFINE h == comm.xioHandle
           r == [State EXCEPT !.client.xioHandle = comm.xioHandle,
                              !.client.packetState = "UNKNOWN"]
           t == [r EXCEPT !.xio[h].tls = "used"]
<1>1. chunk' \in Seq(Received) /\ faults' \in 0 .. MaxFaults
    BY SpendType DEF IInv, TypeOK, HandshakeStalls
<1>2. State \in System /\ Live(State) /\ State.comm = comm
    BY StateSound DEF State
<1>3. Sound(r) /\ r.comm = comm
    BY <1>2 DEF Sound, Live, System, Client, Communicator, PacketStates
<1>4. h \in Handles
    BY <1>2 DEF HandshakeStalls, System, Communicator
<1>5. t = [State EXCEPT !.client.xioHandle = comm.xioHandle,
                        !.client.packetState = "UNKNOWN",
                        !.xio[comm.xioHandle].tls = "used"]
    BY <1>2 DEF System
<1> HIDE DEF r
<1>6. Sound(t)
    BY <1>3, <1>4, ContextUsed DEF Keeps
<1>7. Become(t, "hung") \/ Become(OnOpenComplete(t, FALSE, "ok"), "hung")
    BY <1>5 DEF HandshakeStalls
<1> HIDE DEF t
<1>8. Sound(OnOpenComplete(t, FALSE, "ok"))
    BY <1>6, OnOpenCompleteKeeps DEF Keeps, SendOutcomes, XioSendOutcomes
<1> QED BY <1>1, <1>6, <1>7, <1>8, BecomeSound DEF Places

\* Entering mqtt_client_dowork.
LEMMA DoWorkIInv == ASSUME IInv, DoWork PROVE IInv'
<1>1. chunk' \in Seq(Received) /\ faults' \in 0 .. MaxFaults
    BY DEF IInv, TypeOK, DoWork
<1>2. Sound(State) /\ State.comm.state # "CONNECTING"
    BY StateSound DEF DoWork, Reconnecting
<1> QED BY <1>1, <1>2, BecomeSound DEF DoWork, Places

\* The transport a dowork is working on, with its pending list replaced.
LEMMA PendingReplaced ==
    ASSUME IInv, pc = "flush", Pending # <<>>, NEW q \in Seq(Requests)
    PROVE  LET h == client.xioHandle
           IN  /\ h \in Handles /\ h = comm.xioHandle /\ xio[h] \in Transport
               /\ Tail(Pending) \in Seq(Requests) /\ Head(Pending) \in Requests
               /\ Keeps(State, [State EXCEPT !.xio[h].pending = q])
               /\ State.comm.state # "CONNECTING"
<1> DEFINE h == client.xioHandle
           x == [xio[h] EXCEPT !.pending = q]
           t == [State EXCEPT !.xio[h].pending = q]
<1>1. Sound(State)
    BY StateSound DEF Reconnecting
<1>2. h \in Handles /\ h = comm.xioHandle /\ xio[h] \in Transport /\ xio[h].st # "none"
    BY <1>1 DEF IInv, TypeOK, Client, Pending, Reconnecting, Live, State
<1>3. Tail(Pending) \in Seq(Requests) /\ Head(Pending) \in Requests
    <2>1. Pending \in Seq(Requests)
        BY <1>2 DEF Pending, Transport
    <2> QED BY <2>1
<1>4. State.comm.xioHandle = h /\ State.client.xioHandle = h /\ State.xio = xio
    BY <1>2 DEF State
<1>5. x \in Transport /\ x.st # "none"
    BY <1>2, PendingEdit
<1>6. /\ t.client.xioHandle \in {NULL, State.comm.xioHandle}
      /\ t.comm = State.comm
      /\ t.xio = [State.xio EXCEPT ![h] = x] /\ t \in System
    BY <1>1, <1>2, <1>4, <1>5 DEF Sound, System
<1> HIDE DEF x, t, h
<1>7. Keeps(State, t)
    BY <1>1, <1>2, <1>4, <1>5, <1>6, TransportReplaced
<1> QED BY <1>2, <1>3, <1>7, StateSound DEF t, h

\* A pending send goes out.
LEMMA FlushSendsIInv == ASSUME IInv, FlushSends PROVE IInv'
<1> DEFINE a == [State EXCEPT !.xio[client.xioHandle].pending = Tail(@)]
           b == [a EXCEPT !.link = Delivered(@, Head(Pending))]
<1>1. chunk' \in Seq(Received) /\ faults' \in 0 .. MaxFaults
    BY DEF IInv, TypeOK, FlushSends
<1>2. pc = "flush" /\ Pending # <<>>
    BY DEF FlushSends
<1>3. a = [State EXCEPT !.xio[client.xioHandle].pending = Tail(Pending)]
    BY <1>2 DEF Pending, State
<1>4. Head(Pending) \in Requests /\ Sound(a) /\ a.comm.state # "CONNECTING"
    <2>1. Tail(Pending) \in Seq(Requests) /\ Head(Pending) \in Requests
        BY <1>2, <<>> \in Seq(Requests), PendingReplaced
    <2> HIDE DEF a
    <2> QED BY <1>2, <1>3, <2>1, PendingReplaced DEF Keeps
<1>5. Become(SendComplete(b), "flush")
    BY DEF FlushSends
<1> HIDE DEF a
<1>6. Delivered(a.link, Head(Pending)) \in Link
    BY <1>4, DeliveredType DEF Sound, System
<1>7. Sound(b) /\ b.comm.state # "CONNECTING"
    BY <1>4, <1>6, LinkSet DEF Keeps
<1> HIDE DEF b
<1>8. Sound(SendComplete(b)) /\ SendComplete(b).comm.state # "CONNECTING"
    BY <1>7, SendCompleteKeeps DEF Keeps
<1> QED BY <1>1, <1>5, <1>8, BecomeSound DEF Places

\* The flush ends.
LEMMA FlushEndsIInv == ASSUME IInv, FlushEnds PROVE IInv'
<1>1. chunk' \in Seq(Received) /\ faults' \in 0 .. MaxFaults
    BY SpendType DEF IInv, TypeOK, FlushEnds
<1>2. Sound(State) /\ State.comm.state # "CONNECTING"
    BY StateSound DEF FlushEnds, Reconnecting
<1> QED BY <1>1, <1>2, BecomeSound DEF FlushEnds, Places

\* An io error reported to the client about the transport it works on.
LEMMA ReportIoErrorIInv ==
    ASSUME IInv, NEW s, Sound(s), s.comm.state # "CONNECTING", client.xioHandle \in Handles,
           client.xioHandle = s.comm.xioHandle, ReportIoError(s),
           chunk' \in Seq(Received), faults' \in 0 .. MaxFaults
    PROVE  IInv'
<1> DEFINE d == IF Tls THEN [s EXCEPT !.xio[client.xioHandle].st = "error"] ELSE s
<1>1. Sound(d) /\ d.comm.state # "CONNECTING"
    BY ErrorMarked DEF Keeps
<1>2. Become(SetError(d), "recv") \/ Become(SetError(d), "hung")
    BY DEF ReportIoError
<1> HIDE DEF d
<1>3. Sound(SetError(d)) /\ SetError(d).comm.state # "CONNECTING"
    BY <1>1, SetErrorKeeps DEF Keeps
<1> QED BY <1>2, <1>3, BecomeSound DEF Places

\* A pending send fails.
LEMMA FlushFailsIInv == ASSUME IInv, FlushFails PROVE IInv'
<1> DEFINE h == client.xioHandle
           q == IF Tls THEN <<>> ELSE Tail(Pending)
           a == [State EXCEPT !.xio[h].pending = q]
           b == [a EXCEPT !.xio[h].st = "error"]
<1>1. chunk' \in Seq(Received) /\ faults' \in 0 .. MaxFaults
    BY DEF IInv, TypeOK, FlushFails
<1>2. pc = "flush" /\ Pending # <<>>
    BY DEF FlushFails
<1>3. /\ h \in Handles /\ h = State.comm.xioHandle
      /\ q \in Seq(Requests)
    BY <1>2, <<>> \in Seq(Requests), PendingReplaced DEF State
<1> HIDE DEF q
<1>4. Keeps(State, a)
    BY <1>2, <1>3, PendingReplaced
<1> HIDE DEF a
<1>5. Sound(a) /\ h = a.comm.xioHandle /\ a.comm.state # "CONNECTING"
    BY <1>2, <1>3, <1>4, StateSound DEF Keeps
<1>6. Keeps(a, b)
    BY <1>3, <1>5, ErrorMarked
<1>7. ReportIoError(b)
    BY <1>2 DEF FlushFails, Pending, State, a, q
<1> HIDE DEF b
<1>8. Sound(b) /\ h = b.comm.xioHandle /\ b.comm.state # "CONNECTING"
    BY <1>5, <1>6 DEF Keeps
<1> QED BY <1>1, <1>3, <1>7, <1>8, ReportIoErrorIInv

\* recv fails.
LEMMA RecvFailsIInv == ASSUME IInv, RecvFails PROVE IInv'
<1>1. chunk' \in Seq(Received) /\ faults' \in 0 .. MaxFaults
    BY DEF IInv, TypeOK, RecvFails
<1>2. Sound(State) /\ State.comm.state # "CONNECTING"
    BY StateSound DEF RecvFails, Reconnecting
<1>3. client.xioHandle \in Handles /\ client.xioHandle = State.comm.xioHandle
    BY DEF IInv, TypeOK, Client, Reconnecting, RecvFails, IsOpen, State
<1> QED BY <1>1, <1>2, <1>3, ReportIoErrorIInv DEF RecvFails

\* What recv returned is lost.
LEMMA RecvNoMemoryIInv == ASSUME IInv, RecvNoMemory PROVE IInv'
<1>1. chunk' \in Seq(Received) /\ faults' \in 0 .. MaxFaults
    BY SpendType DEF IInv, TypeOK, RecvNoMemory
<1>2. Sound(State) /\ State.comm.state # "CONNECTING"
    BY StateSound DEF RecvNoMemory, Reconnecting
<1>3. client.xioHandle \in Handles /\ client.xioHandle = State.comm.xioHandle
    BY DEF IInv, TypeOK, Client, Reconnecting, RecvNoMemory, IsOpen, State
<1> QED BY <1>1, <1>2, <1>3, ReportIoErrorIInv DEF RecvNoMemory

\* The broker has delivered p and q.
LEMMA OwedTaken ==
    ASSUME NEW l \in Link, NEW p, NEW q
    PROVE  /\ [l EXCEPT !.owed = @ \ {p, q}, !.accepted = @ \/ p = "CONNACK"] \in Link
           /\ [l EXCEPT !.owed = @ \ {p, q}, !.cut = FALSE,
                        !.accepted = @ \/ p = "CONNACK"] \in Link
<1> DEFINE o == l.owed \ {p, q}
           a == l.accepted \/ p = "CONNACK"
<1>1. o \in SUBSET Replies
    BY DEF Link
<1>2. a \in BOOLEAN
    OBVIOUS
<1> HIDE DEF o, a
<1>3. /\ [l EXCEPT !.owed = o, !.accepted = a] \in Link
      /\ [l EXCEPT !.owed = o, !.cut = FALSE, !.accepted = a] \in Link
    BY <1>1, <1>2 DEF Link
<1> QED BY <1>3 DEF o, a

\* recv returns bytes.
LEMMA RecvIInv == ASSUME IInv, Recv PROVE IInv'
<1>1. /\ client \in Client /\ link \in Link /\ faults \in 0 .. MaxFaults
    BY DEF IInv, TypeOK
<1>2. UNCHANGED <<comm, xio, now, pc>> /\ pc = "recv" /\ ran' = TRUE
    BY DEF Recv
<1>3. /\ chunk' \in Seq(Received) /\ link' \in Link /\ client' \in Client
      /\ client'.xioHandle = client.xioHandle /\ faults' \in 0 .. MaxFaults
    <2>1. CASE RecvInStep
        <3>1. faults' \in 0 .. MaxFaults
            BY <1>1, <2>1, SpendType DEF RecvInStep
        <3>2. client' \in Client /\ client'.xioHandle = client.xioHandle
            BY <1>1, <2>1 DEF RecvInStep, Client
        <3>3. link' \in Link /\ chunk' \in Seq(Received)
            <4>1. ASSUME NEW p \in link.owed, NEW q \in link.owed,
                         chunk' = (IF p = q THEN <<p>> ELSE <<p, q>>),
                         link' = [link EXCEPT !.owed = @ \ {p, q}, !.cut = FALSE,
                                              !.accepted = @ \/ p = "CONNACK"]
                  PROVE  link' \in Link /\ chunk' \in Seq(Received)
                <5>1. p \in Received /\ q \in Received
                    BY <1>1 DEF Link, Received
                <5>2. link' \in Link
                    BY <1>1, <4>1, OwedTaken
                <5> QED BY <4>1, <5>1, <5>2
            <4>2. /\ [link EXCEPT !.cut = TRUE] \in Link
                  /\ [link EXCEPT !.cut = FALSE] \in Link
                  /\ [link EXCEPT !.owed = {}, !.net = "silent", !.cut = FALSE] \in Link
                BY <1>1 DEF Link
            <4>3. /\ <<>> \in Seq(Received)
                  /\ <<"REFUSED">> \in Seq(Received) /\ <<"BAD">> \in Seq(Received)
                <5>1. "REFUSED" \in Received /\ "BAD" \in Received
                    BY DEF Received
                <5> QED BY <5>1
            <4> QED BY <2>1, <4>1, <4>2, <4>3 DEF RecvInStep
        <3> QED BY <3>1, <3>2, <3>3
    <2>2. CASE RecvOutOfStep
        <3>1. client' \in Client /\ client'.xioHandle = client.xioHandle
            BY <1>1, <2>2 DEF RecvOutOfStep, Client
        <3>2. link' \in Link /\ faults' \in 0 .. MaxFaults
            <4>1. PICK p \in link.owed, q \in link.owed :
                    link' = [link EXCEPT !.owed = @ \ {p, q},
                                         !.accepted = @ \/ p = "CONNACK"]
                BY <2>2 DEF RecvOutOfStep
            <4>2. faults' = faults
                BY <2>2 DEF RecvOutOfStep
            <4>3. link' \in Link
                BY <1>1, <4>1, OwedTaken
            <4> QED BY <1>1, <4>2, <4>3
        <3>3. chunk' \in Seq(Received)
            <4>1. chunk' = <<>> \/ \E g \in Garbled : chunk' = <<g>>
                BY <2>2 DEF RecvOutOfStep
            <4>2. Garbled \subseteq Received
                BY DEF Garbled, Received
            <4>3. CASE chunk' = <<>>
                BY <4>3
            <4>4. ASSUME NEW g \in Garbled, chunk' = <<g>> PROVE chunk' \in Seq(Received)
                <5>1. g \in Received
                    BY <4>2
                <5> QED BY <4>4, <5>1
            <4> QED BY <4>1, <4>3, <4>4
        <3> QED BY <3>1, <3>2, <3>3
    <2> QED BY <2>1, <2>2 DEF Recv
<1>4. TypeOK'
    BY <1>2, <1>3 DEF IInv, TypeOK
<1>5. Live(State)'
    BY <1>2 DEF IInv, Live, State
<1>6. (Reconnecting \/ client.xioHandle \in {NULL, comm.xioHandle})'
    BY <1>2, <1>3 DEF IInv, Reconnecting
<1>7. /\ (Reconnecting => Untouched(State))'
      /\ (pc \in {"flush", "recv"} => comm.state # "CONNECTING")'
    BY <1>2 DEF IInv, Reconnecting, Untouched, State
<1> QED BY <1>4, <1>5, <1>6, <1>7 DEF IInv

\* A packet is dispatched.
LEMMA DispatchIInv == ASSUME IInv, Dispatch PROVE IInv'
<1>1. chunk \in Seq(Received) /\ chunk # <<>> /\ chunk' = Tail(chunk)
    BY DEF IInv, TypeOK, Dispatch, Dispatched
<1>2. Head(chunk) \in Received /\ chunk' \in Seq(Received)
    BY <1>1
<1>3. PICK o1, o2 \in SendOutcomes, qos \in 0..2 :
        /\ Spend(<<o1, o2>>)
        /\ \E p \in {"hung", "recv"} :
              Become(RecvComplete(State, Head(chunk), qos, o1, o2), p)
    BY DEF Dispatch, Dispatched
<1>4. faults' \in 0 .. MaxFaults
    BY <1>3, SpendType DEF IInv, TypeOK
<1>5. Sound(State) /\ State.comm.state # "CONNECTING"
    BY StateSound DEF Dispatch, Reconnecting
<1> DEFINE s == RecvComplete(State, Head(chunk), qos, o1, o2)
<1>6. Sound(s) /\ s.comm.state # "CONNECTING"
    BY <1>2, <1>5, RecvCompleteKeeps DEF Keeps
<1> HIDE DEF s
<1> QED BY <1>2, <1>3, <1>4, <1>6, BecomeSound DEF Places, s

\* A message for which there is no memory closes the connection.
LEMMA DispatchNoMemoryIInv == ASSUME IInv, DispatchNoMemory PROVE IInv'
<1>1. /\ chunk \in Seq(Received) /\ chunk # <<>> /\ chunk' = Tail(chunk)
      /\ faults' \in 0 .. MaxFaults
    BY SpendType DEF IInv, TypeOK, DispatchNoMemory, Dispatched
<1>2. chunk' \in Seq(Received)
    BY <1>1
<1>3. \E p \in {"hung", "recv"} : Become(SetError(State), p)
    BY DEF DispatchNoMemory, Dispatched
<1>4. Sound(State) /\ State.comm.state # "CONNECTING"
    BY StateSound DEF DispatchNoMemory, Reconnecting
<1>5. Sound(SetError(State)) /\ SetError(State).comm.state # "CONNECTING"
    BY <1>4, SetErrorKeeps DEF Keeps
<1> QED BY <1>1, <1>2, <1>3, <1>5, BecomeSound DEF Places

\* The keep-alive check ends mqtt_client_dowork.
LEMMA FinishDoWorkIInv == ASSUME IInv, FinishDoWork PROVE IInv'
<1>1. PICK o \in SendOutcomes :
        Spend(<<o>>) /\ Become(KeepAliveCheck(State, o), "loop")
    BY DEF FinishDoWork
<1>2. chunk' \in Seq(Received) /\ faults' \in 0 .. MaxFaults
    BY <1>1, SpendType DEF IInv, TypeOK, FinishDoWork
<1>3. Sound(State) /\ State.comm.state # "CONNECTING"
    BY StateSound DEF FinishDoWork, Reconnecting
<1>4. Sound(KeepAliveCheck(State, o)) /\ KeepAliveCheck(State, o).comm.state # "CONNECTING"
    BY <1>3, KeepAliveCheckKeeps DEF Keeps
<1> QED BY <1>1, <1>2, <1>4, BecomeSound DEF Places

\* The connection is reset or the peer falls silent.
LEMMA LinkFaultIInv == ASSUME IInv, LinkFault PROVE IInv'
<1>1. faults' \in 0 .. MaxFaults
    BY SpendType DEF IInv, TypeOK, LinkFault
<1>2. link' \in Link
    BY DEF IInv, TypeOK, LinkFault, Link
<1> QED BY <1>1, <1>2 DEF IInv, TypeOK, LinkFault, Live, State, Reconnecting, Untouched

\* The clock ticks, and wraps.
LEMMA TickIInv == ASSUME IInv, Tick PROVE IInv'
<1>1. now' \in Ticks
    BY ClientAssumption DEF IInv, TypeOK, Tick, Ticks
<1> QED BY <1>1 DEF IInv, TypeOK, Tick, Live, State, Reconnecting, Untouched

-----------------------------------------------------------------------------
\* IInv is inductive.
LEMMA Inductive == ASSUME IInv, [Next]_vars PROVE IInv'
<1>1. CASE UNCHANGED vars
    BY <1>1 DEF vars, IInv, TypeOK, Live, State, Reconnecting, Untouched
<1>2. CASE Process
    BY <1>2, ReconnectIInv, StartConnectingIInv, TryConnectIInv, HandshakeStallsIInv,
       DoWorkIInv, FlushSendsIInv, FlushEndsIInv, FlushFailsIInv, RecvFailsIInv,
       RecvNoMemoryIInv, RecvIInv, DispatchIInv, DispatchNoMemoryIInv, FinishDoWorkIInv
       DEF Process
<1> QED BY <1>1, <1>2, LinkFaultIInv, TickIInv DEF Next

\* IInv holds in every state the application task can reach.
THEOREM IInvHolds == Spec => []IInv
<1>1. Init => IInv
    BY InitIInv
<1>2. IInv /\ [Next]_vars => IInv'
    BY Inductive
<1> QED BY <1>1, <1>2, PTL DEF Spec

\* Every variable keeps its type, for any addresses, clock, packetId width and number
\* of faults: in particular the unsigned counters of mqtt_client.c and mqtt_comm.c wrap.
THEOREM TypeCorrect == Spec => []TypeOK
<1>1. IInv => TypeOK
    BY DEF IInv
<1> QED BY <1>1, IInvHolds, PTL

\* What IInv says wherever the client uses its transport.
LEMMA IInvNoDanglingHandle == IInv => NoDanglingHandle
BY DEF IInv, TypeOK, Client, Communicator, Live, Reconnecting, InUse,
       NoDanglingHandle, Allocated, State

\* What IInv says of the heap.
LEMMA IInvOneTransport == IInv => OneTransport
BY DEF IInv, Live, OneTransport, State

\* What IInv says where transports are opened.
LEMMA IInvOpensClean == IInv => OpensClean
BY DEF IInv, OpensClean, Reconnecting, Untouched, State, NewTransport, NoTransport

\* The client never uses a transport that MQTT_Comm_Process has destroyed, and never
\* one that is not the communicator's, whatever fails and wherever callbacks nest.
THEOREM HandleSafe == Spec => []NoDanglingHandle
BY IInvNoDanglingHandle, IInvHolds, PTL

\* A reconnect (case MQTT_ERROR of MQTT_Comm_Process) leaves no transport behind.
THEOREM NoLeak == Spec => []OneTransport
BY IInvOneTransport, IInvHolds, PTL

\* MQTT_CONNECTING opens only transports that were never used, although
\* socketio_close leaves what is pending in place: nothing of an earlier connection
\* is sent on a new one.
THEOREM NothingOfAnEarlierConnection == Spec => []OpensClean
BY IInvOpensClean, IInvHolds, PTL

=============================================================================
