------------------------- MODULE MqttDisconnect_proofs -------------------------
(***************************************************************************)
(* Proofs about mqtt_client_disconnect and the task that is created again  *)
(* when it has finished.  The handles are safe over either transport; what *)
(* is said of the callback and of the closed socket holds over a plain     *)
(* socket.                                                                 *)
(***************************************************************************)
EXTENDS MqttDisconnect, MqttSession_proofs

\* mqtt_client_disconnect makes up no handle.
LEMMA DisconnectKeeps ==
    ASSUME NEW s, Sound(s), NEW cb \in BOOLEAN, NEW o \in SendOutcomes
    PROVE  Keeps(s, Disconnect(s, cb, o))
<1> DEFINE r == [s EXCEPT !.client.disconnect_cb = cb]
           n == [s EXCEPT !.client.packetState = "ERROR", !.client.xioHandle = NULL]
           q == [r EXCEPT !.client.packetState = "DISCONNECT"]
           u == SendPacketItem(q, "DISCONNECT", o)
           t == [u EXCEPT !.client.xioHandle = NULL]
<1>1. Keeps(s, r) /\ Keeps(s, n)
    BY DEF Sound, Live, Keeps, System, Client, PacketStates
<1>2. Disconnect(s, cb, o) = IF ~s.client.clientConnected THEN CloseConnection(r)
                             ELSE IF o = "noPacket" THEN n ELSE t
    BY DEF Disconnect
<1>3. Keeps(r, q)
    BY <1>1 DEF Sound, Live, Keeps, System, Client, PacketStates
<1> HIDE DEF r, n
<1>4. Keeps(s, CloseConnection(r))
    BY <1>1, CloseConnectionKeeps, KeepsTwice DEF Keeps
<1>5. ASSUME o # "noPacket" PROVE Keeps(s, t)
    <2>1. o \in XioSendOutcomes /\ "DISCONNECT" \in Requests
        BY <1>5 DEF SendOutcomes, Requests
    <2> HIDE DEF q
    <2>2. Keeps(q, u)
        BY <1>3, <2>1, SendPacketItemKeeps DEF Keeps
    <2> HIDE DEF u
    <2>3. Keeps(u, t)
        BY <2>2, HandleForgotten DEF Keeps
    <2> HIDE DEF t
    <2> QED BY <1>1, <1>3, <2>2, <2>3, KeepsTwice
<1> QED BY <1>1, <1>2, <1>4, <1>5

\* The application, or whoever calls, disconnects.
CalledWith(s) == [s EXCEPT !.client.closedCalls = 0]

LEMMA CalledWithKeeps ==
    ASSUME NEW s, Sound(s)
    PROVE  /\ Keeps(s, CalledWith(s)) /\ CalledWith(s).comm = s.comm
           /\ CalledWith(s).client = [s.client EXCEPT !.closedCalls = 0]
           /\ CalledWith(s).client.closedCalls = 0
BY DEF CalledWith, Sound, Live, Keeps, System, Client

LEMMA CallDisconnectIInv == ASSUME IInv, CallDisconnect PROVE IInv'
<1>1. PICK cb \in BOOLEAN, o \in SendOutcomes :
        /\ Spend(<<o>>) /\ Become(Disconnect(CalledWith(State), cb, o), "loop")
    BY DEF CallDisconnect, CalledWith
<1>2. /\ Sound(State) /\ State.comm.state = "CONNECTED"
      /\ chunk' \in Seq(Received) /\ faults \in 0 .. MaxFaults
    BY StateSound DEF CallDisconnect, Reconnecting, State, IInv, TypeOK
<1> DEFINE s == CalledWith(State)
           t == Disconnect(s, cb, o)
<1>3. Sound(s) /\ s.comm.state = "CONNECTED"
    BY <1>2, CalledWithKeeps DEF Keeps
<1> HIDE DEF s
<1>4. Sound(t) /\ t.comm.state # "CONNECTING"
    BY <1>3, DisconnectKeeps DEF Keeps
<1>5. Become(t, "loop")
    BY <1>1 DEF s
<1> HIDE DEF t
<1>6. faults' \in 0 .. MaxFaults
    BY <1>1, <1>2, SpendType
<1> QED BY <1>2, <1>4, <1>5, <1>6, BecomeSound DEF Places

\* What can be reached after the task has left its loop: no transport.
LEMMA AbandonEmpties ==
    ASSUME NEW s, Sound(s)
    PROVE  Empty(Abandon(s)) /\ Abandon(s).client = s.client
<1> DEFINE h == s.comm.xioHandle
           d == [s EXCEPT !.xio[h] = NoTransport, !.link = NoLink]
<1>1. CASE h = NULL
    BY <1>1, XioAssumption DEF Abandon, Empty, Sound, Live
<1>2. CASE h # NULL
    <2>1. h \in Handles
        BY <1>2 DEF Sound, System, Communicator
    <2>2. NoTransport \in Transport /\ NoTransport.st = "none" /\ NoLink \in Link
        BY <<>> \in Seq(Requests) DEF NoTransport, Transport, TlsContexts, NoLink, Link
    <2>3. d \in System /\ d.client = s.client
        BY <2>1, <2>2 DEF Sound, System
    <2>4. d.xio = [s.xio EXCEPT ![h] = NoTransport] /\ s.xio \in [Handles -> Transport]
        BY DEF Sound, System
    <2>5. \A g \in Handles : s.xio[g].st # "none" <=> g = h
        BY DEF Sound, Live
    <2> HIDE DEF d
    <2>6. Empty(d)
        BY <2>1, <2>2, <2>3, <2>4, <2>5 DEF Empty
    <2> QED BY <1>2, <2>3, <2>6 DEF Abandon, d
<1> QED BY <1>1, <1>2

\* The task that is created again starts from an empty heap, as far as it can see.
LEMMA SessionRenewed ==
    ASSUME IInv, SessionEnds
    PROVE  LET s == Abandon(State)
           IN  /\ Empty(s) /\ s.client = State.client /\ chunk' = <<>> /\ faults' = faults
               /\ \E h \in Handles :
                     Become([XioCreate(s, h) EXCEPT !.client = Renewed(s.client),
                                                    !.comm.state = "CONNECTING",
                                                    !.comm.packetId = 1], "loop")
BY StateSound, AbandonEmpties DEF SessionEnds, Reconnecting, FreeHandles

LEMMA SessionEndsIInv == ASSUME IInv, SessionEnds PROVE IInv'
BY SessionRenewed, RenewedIInv

\* Until what was freed is used, these are the steps.
LEMMA DisconnectSteps ==
    [DisconnectNext]_avars => \/ [AppNext]_vars \/ CallDisconnect \/ SessionEnds
BY DEF DisconnectNext, ProcessDisconnected, Overtakes, CreateFails, Finished, Breaks,
       avars, dvars

\* IInv holds with mqtt_client_disconnect, too.
THEOREM DisconnectIInvHolds == DisconnectSpec => []IInv
<1>1. AppInit => IInv
    BY InitIInv DEF AppInit
<1>2. IInv /\ [DisconnectNext]_avars => IInv'
    BY DisconnectSteps, Inductive, WatchdogIInv, CallDisconnectIInv, SessionEndsIInv
       DEF AppNext
<1> QED BY <1>1, <1>2, PTL DEF DisconnectSpec

\* After a disconnection, complete or given up half-way, after the transport has been
\* left behind and the next one made, the client uses no handle of a transport that is
\* freed or not the communicator's, whatever fails in the meantime; none is opened used, and
\* none is left behind but by a session that has ended.
THEOREM DisconnectSafe ==
    DisconnectSpec => [](TypeOK /\ NoDanglingHandle /\ OpensClean /\ OneTransportASession)
<1>1. IInv => TypeOK
    BY DEF IInv
<1>2. OneTransport => OneTransportASession
    BY DEF OneTransport, OneTransportASession
<1> QED BY <1>1, <1>2, IInvNoDanglingHandle, IInvOneTransport, IInvOpensClean,
           DisconnectIInvHolds, PTL

-----------------------------------------------------------------------------
(***************************************************************************)
(* Over a plain socket.  Leaving: mqtt_client_disconnect has been called   *)
(* with a callback, or has sent or queued DISCONNECT.  From then on the    *)
(* client has no handle and the task has nothing to do but to begin again, *)
(* so that nothing can close the connection, and call back, again.         *)
(***************************************************************************)
Leaving(s) == ~Unregistered(s) \/ s.comm.state = "DISCONNECTED"

NothingToClose(s) ==
    Leaving(s) => s.client.xioHandle = NULL /\ s.comm.state \in {"CONNECTED", "DISCONNECTED"}

ClosedOnce(s) ==
    /\ s.client.closedCalls <= 1
    /\ s.comm.state = "DISCONNECTED" =>
           /\ ~s.client.socketConnected /\ ~s.client.clientConnected
           /\ ~IsOpen(s, s.comm.xioHandle)

DisconnectInv ==
    /\ SessionInv
    /\ Leaving(State) => pc = "loop"
    /\ NothingToClose(State)
    /\ ClosedOnce(State)

-----------------------------------------------------------------------------
\* on_connection_closed ends the session and calls the callback, once.
LEMMA ClosedCalls ==
    ASSUME NEW s, Sound(s), s.client.closedCalls = 0
    PROVE  LET t == OnConnectionClosed(s)
           IN  /\ ~t.client.socketConnected /\ ~t.client.clientConnected
               /\ t.client.closedCalls <= 1
               /\ t.client.disconnect_cb = s.client.disconnect_cb
               /\ t.client.packetState = s.client.packetState
               /\ t.comm = s.comm /\ t.xio = s.xio
<1> DEFINE u == [s EXCEPT !.client.socketConnected = FALSE,
                          !.client.clientConnected = FALSE]
           v == [u EXCEPT !.client.closedCalls = IF @ < 2 THEN @ + 1 ELSE 2]
<1>1. /\ Sound(u) /\ u.comm = s.comm /\ u.xio = s.xio
      /\ ~u.client.socketConnected /\ ~u.client.clientConnected
      /\ u.client.closedCalls = 0
      /\ u.client.disconnect_cb = s.client.disconnect_cb
      /\ u.client.packetState = s.client.packetState
    BY DEF Sound, Live, System, Client
<1>2. OnConnectionClosed(s) = IF u.client.disconnect_cb THEN v ELSE u
    BY DEF OnConnectionClosed, CallDisconnectCb
<1> HIDE DEF u
<1>3. /\ v.comm = u.comm /\ v.xio = u.xio
      /\ v.client.socketConnected = u.client.socketConnected
      /\ v.client.clientConnected = u.client.clientConnected
      /\ v.client.closedCalls = 1
      /\ v.client.disconnect_cb = u.client.disconnect_cb
      /\ v.client.packetState = u.client.packetState
    BY <1>1 DEF Sound, System, Client
<1> HIDE DEF v
<1> QED BY <1>1, <1>2, <1>3

\* close_connection closes the socket and calls back once.  What was pending is
\* reported as an error, unless a callback is registered.
LEMMA ClosesOnce ==
    ASSUME ~Tls, NEW s, Sound(s), s.client.closedCalls = 0, s.client.socketConnected,
           s.client.xioHandle # NULL
    PROVE  LET t == CloseConnection(s)
           IN  /\ t.client.xioHandle = NULL /\ t.client.closedCalls <= 1
               /\ ~t.client.socketConnected /\ ~t.client.clientConnected
               /\ t.client.disconnect_cb = s.client.disconnect_cb
               /\ t.client.packetState = s.client.packetState
               /\ ~IsOpen(t, t.comm.xioHandle)
               /\ \/ t.comm.state = s.comm.state
                  \/ /\ t.comm.state = "ERROR" /\ ~s.client.disconnect_cb
                     /\ s.xio[s.client.xioHandle].pending # <<>>
<1> DEFINE h == s.client.xioHandle
           d == Shut(s, h)
           c == OnConnectionClosed(d)
           w == IF s.client.disconnect_cb THEN c ELSE FailPending(c, h)
           t == [w EXCEPT !.client.xioHandle = NULL]
<1>1. h \in Handles /\ h = s.comm.xioHandle
    BY DEF Sound, System, Communicator
<1>2. CloseConnection(s) = t
    BY DEF CloseConnection, CloseCallsBack
<1>3. /\ Sound(d) /\ d.client = s.client /\ d.comm = s.comm
      /\ d.xio[h].st = "closed" /\ d.xio[h].pending = s.xio[h].pending
    <2>1. Sound(d) /\ d.client = s.client /\ d.comm = s.comm
        BY <1>1, ShutKeeps, ShutAlone DEF Keeps
    <2>2. s.xio \in [Handles -> Transport] /\ s.xio[h] \in Transport
        BY <1>1 DEF Sound, System
    <2>3. d.xio = [s.xio EXCEPT ![h].st = "closed"]
        BY DEF Shut, Sound, System
    <2> HIDE DEF d, h
    <2> QED BY <1>1, <2>1, <2>2, <2>3 DEF Transport
<1> HIDE DEF d
<1>4. /\ Sound(c) /\ c.comm = s.comm /\ c.xio = d.xio
      /\ ~c.client.socketConnected /\ ~c.client.clientConnected
      /\ c.client.closedCalls <= 1
      /\ c.client.disconnect_cb = s.client.disconnect_cb
      /\ c.client.packetState = s.client.packetState
    <2>1. Sound(c)
        BY <1>3, OnConnectionClosedKeeps DEF Keeps
    <2> QED BY <1>3, <2>1, ClosedCalls
<1> HIDE DEF c, h
<1>5. /\ Sound(w) /\ w.client = c.client /\ w.comm.xioHandle = s.comm.xioHandle
      /\ w.xio[h].st # "open"
      /\ \/ w.comm.state = s.comm.state
         \/ /\ w.comm.state = "ERROR" /\ ~s.client.disconnect_cb
            /\ s.xio[h].pending # <<>>
    <2>1. CASE s.client.disconnect_cb
        BY <1>3, <1>4, <2>1
    <2>2. CASE ~s.client.disconnect_cb
        <3> DEFINE f == FailPending(c, h)
        <3>1. Keeps(c, f)
            BY <1>1, <1>4, FailPendingKeeps
        <3>2. f.client = c.client /\ f.comm.state \in {c.comm.state, "ERROR"}
            BY <1>4, FailPendingAlone
        <3>3. c.xio[h].pending = <<>> => f = c
            BY DEF FailPending
        <3>4. f.xio[h].st # "open"
            <4>1. c.xio \in [Handles -> Transport] /\ c.xio[h] \in Transport
                BY <1>1, <1>4 DEF Sound, System
            <4>2. f = c \/ f.xio = [c.xio EXCEPT ![h].pending = <<>>, ![h].st = "error"]
                BY <1>4 DEF FailPending, Sound, System
            <4> HIDE DEF f
            <4> QED BY <1>1, <1>3, <1>4, <4>1, <4>2 DEF Transport
        <3> HIDE DEF f
        <3> QED BY <1>1, <1>3, <1>4, <2>2, <3>1, <3>2, <3>3, <3>4 DEF f, Keeps
    <2> QED BY <2>1, <2>2
<1> HIDE DEF w
<1>6. /\ t.client = [w.client EXCEPT !.xioHandle = NULL] /\ t.comm = w.comm
      /\ t.xio = w.xio /\ w.client \in Client
    BY <1>5 DEF Sound, System
<1> HIDE DEF t
<1>7. ~IsOpen(t, t.comm.xioHandle)
    BY <1>1, <1>5, <1>6 DEF IsOpen
<1> QED BY <1>2, <1>4, <1>5, <1>6, <1>7 DEF Client, h

\* What mqtt_client_disconnect leaves, before it forgets the handle.
Ended(t) ==
    /\ t.client.clientConnected => t.client.socketConnected
    /\ t.client.closedCalls <= 1
    /\ t.comm.state \in {"CONNECTED", "DISCONNECTED"}
    /\ t.comm.state = "DISCONNECTED" =>
           /\ ~t.client.socketConnected /\ ~t.client.clientConnected
           /\ ~IsOpen(t, t.comm.xioHandle)

\* DISCONNECT is sent, and the connection closed once it has left; or it is queued, or
\* fails to go out, and the connection stays as it was.
LEMMA SendEnds ==
    ASSUME ~Tls, NEW s, Sound(s), s.comm.state = "CONNECTED", s.client.xioHandle # NULL,
           s.client.socketConnected, s.client.closedCalls = 0,
           s.client.packetState = "DISCONNECT", NEW o \in XioSendOutcomes
    PROVE  Ended(XioSend(s, s.client.xioHandle, "DISCONNECT", o))
<1> DEFINE h == s.client.xioHandle
           r == XioSendResult(s, h, o)
           d == [s EXCEPT !.link = Delivered(@, "DISCONNECT")]
           e == [d EXCEPT !.comm.state = "DISCONNECTED"]
           c == CloseConnection(e)
           a == [s EXCEPT !.xio[h].pending = Append(@, "DISCONNECT")]
           t == XioSend(s, h, "DISCONNECT", o)
<1>1. t = (CASE r = "ok"      -> SendComplete(d)
             [] r = "queued"  -> a
             [] r = "dropped" -> s
             [] r = "fail"    -> s
             [] OTHER         -> s)
    BY DEF XioSend
<1>2. Ended(s)
    BY DEF Ended
<1>3. ASSUME r = "ok" PROVE Ended(SendComplete(d))
    <2>1. s.xio[h].pending = <<>>
        BY <1>3 DEF XioSendResult
    <2>2. /\ Sound(e) /\ e.client = s.client /\ e.xio = s.xio
          /\ e.comm.state = "DISCONNECTED" /\ d.client = s.client
        <3>1. Delivered(s.link, "DISCONNECT") \in Link
            BY DeliveredType DEF Sound, System, Requests
        <3> DEFINE l == Delivered(s.link, "DISCONNECT")
        <3> HIDE DEF l
        <3>2. d = [s EXCEPT !.link = l]
            BY DEF l
        <3>3. Sound(d) /\ d.client = s.client /\ d.xio = s.xio
            BY <3>1, <3>2, LinkSet DEF Keeps, l, Sound, System
        <3> HIDE DEF d
        <3>4. Sound(e) /\ e.client = d.client /\ e.xio = d.xio
            BY <3>3, StateSet DEF Keeps, CommStates, Sound, System
        <3>5. e.comm.state = "DISCONNECTED"
            BY <3>3 DEF Sound, System, Communicator
        <3> QED BY <3>3, <3>4, <3>5
    <2>3. SendComplete(d) = c
        BY <2>2 DEF SendComplete
    <2> HIDE DEF d, e
    <2>4. /\ c.client.closedCalls <= 1 /\ c.comm.state = "DISCONNECTED"
          /\ ~c.client.socketConnected /\ ~c.client.clientConnected
          /\ ~IsOpen(c, c.comm.xioHandle)
        BY <2>1, <2>2, ClosesOnce
    <2> HIDE DEF c
    <2> QED BY <2>3, <2>4 DEF Ended
<1>4. Ended(a)
    <2>1. a.client = s.client /\ a.comm = s.comm
        BY DEF Sound, System
    <2> HIDE DEF a
    <2> QED BY <1>2, <2>1 DEF Ended
<1> HIDE DEF t, a, d, r
<1> QED BY <1>1, <1>2, <1>3, <1>4 DEF t

\* mqtt_client_disconnect on a client that is not leaving already.
LEMMA DisconnectEnds ==
    ASSUME ~Tls, NEW s, Sound(s), s.comm.state = "CONNECTED", s.client.xioHandle # NULL,
           s.client.socketConnected, s.client.closedCalls = 0, Unregistered(s),
           NEW cb \in BOOLEAN, NEW o \in SendOutcomes
    PROVE  LET t == Disconnect(s, cb, o)
           IN  /\ t.client.xioHandle = NULL
               /\ t.client.clientConnected => t.client.socketConnected
               /\ NothingToClose(t) /\ ClosedOnce(t)
<1> DEFINE r == [s EXCEPT !.client.disconnect_cb = cb]
           n == [s EXCEPT !.client.packetState = "ERROR", !.client.xioHandle = NULL]
           q == [r EXCEPT !.client.packetState = "DISCONNECT"]
           v == [q EXCEPT !.client.packetSendTimeMs = q.now]
           u == XioSend(v, v.client.xioHandle, "DISCONNECT", o)
           t == [u EXCEPT !.client.xioHandle = NULL]
           c == CloseConnection(r)
<1>1. /\ Sound(r) /\ r.comm.state = "CONNECTED" /\ r.client.xioHandle # NULL
      /\ r.client.socketConnected /\ r.client.closedCalls = 0
      /\ r.client.packetState # "DISCONNECT"
    BY DEF Sound, Live, System, Client, Communicator, Unregistered
<1>2. /\ Sound(v) /\ v.comm.state = "CONNECTED" /\ v.client.xioHandle # NULL
      /\ v.client.socketConnected /\ v.client.closedCalls = 0
      /\ v.client.packetState = "DISCONNECT"
    BY DEF Sound, Live, System, Client, Communicator, PacketStates
<1>3. CASE ~s.client.clientConnected
    <2>1. Disconnect(s, cb, o) = c
        BY <1>3 DEF Disconnect
    <2> HIDE DEF r
    <2>2. /\ c.client.xioHandle = NULL /\ c.client.closedCalls <= 1
          /\ ~c.client.socketConnected /\ ~c.client.clientConnected
          /\ c.client.packetState = r.client.packetState
          /\ c.client.disconnect_cb = r.client.disconnect_cb
          /\ \/ c.comm.state = "CONNECTED"
             \/ c.comm.state = "ERROR" /\ ~r.client.disconnect_cb
        BY <1>1, ClosesOnce
    <2> HIDE DEF c
    <2> QED BY <1>1, <2>1, <2>2 DEF NothingToClose, ClosedOnce, Leaving, Unregistered
<1>4. CASE s.client.clientConnected /\ o = "noPacket"
    <2>1. Disconnect(s, cb, o) = n
        BY <1>4 DEF Disconnect
    <2>2. /\ n.client.xioHandle = NULL /\ n.client.socketConnected
          /\ n.client.closedCalls = 0 /\ n.comm.state = "CONNECTED"
        BY DEF Sound, System, Client, Communicator
    <2> HIDE DEF n
    <2> QED BY <2>1, <2>2 DEF NothingToClose, ClosedOnce
<1>5. CASE s.client.clientConnected /\ o # "noPacket"
    <2>1. Disconnect(s, cb, o) = t
        <3> DEFINE sent == SendPacketItem(q, "DISCONNECT", o)
        <3>1. Disconnect(s, cb, o) = [sent EXCEPT !.client.xioHandle = NULL]
            BY <1>5 DEF Disconnect
        <3>2. v.client.xioHandle = q.client.xioHandle
            BY DEF Sound, System, Client
        <3> HIDE DEF q
        <3>3. sent = u
            BY <3>2 DEF SendPacketItem
        <3> HIDE DEF sent, u
        <3> QED BY <3>1, <3>3
    <2>2. o \in XioSendOutcomes
        BY <1>5 DEF SendOutcomes
    <2> HIDE DEF v
    <2>3. Sound(u) /\ Ended(u)
        BY <1>2, <2>2, XioSendKeeps, SendEnds DEF Keeps, Requests
    <2> HIDE DEF u
    <2>4. /\ t.client = [u.client EXCEPT !.xioHandle = NULL] /\ t.comm = u.comm
          /\ t.xio = u.xio /\ u.client \in Client
        BY <2>3 DEF Sound, System
    <2> HIDE DEF t
    <2>5. /\ t.client.xioHandle = NULL
          /\ t.client.socketConnected = u.client.socketConnected
          /\ t.client.clientConnected = u.client.clientConnected
          /\ t.client.closedCalls = u.client.closedCalls
          /\ IsOpen(t, t.comm.xioHandle) <=> IsOpen(u, u.comm.xioHandle)
        BY <2>4 DEF Client, IsOpen
    <2> QED BY <2>1, <2>3, <2>4, <2>5 DEF NothingToClose, ClosedOnce, Ended
<1> QED BY <1>3, <1>4, <1>5

-----------------------------------------------------------------------------
\* CallDisconnect ends with the task between two turns, or asks for a reconnect.
LEMMA CallDisconnectInv ==
    ASSUME ~Tls, DisconnectInv, CallDisconnect
    PROVE  DisconnectInv'
<1>1. PICK cb \in BOOLEAN, o \in SendOutcomes :
        Become(Disconnect(CalledWith(State), cb, o), "loop")
    BY DEF CallDisconnect, CalledWith
<1>2. /\ Sound(State) /\ State.comm.state = "CONNECTED" /\ pc = "loop"
      /\ State.client.xioHandle # NULL /\ Unregistered(State) /\ chunk' = chunk
    BY StateSound DEF CallDisconnect, DisconnectInv, SessionInv, Reconnecting, State,
                      NothingToClose, Leaving
<1>3. State.client.socketConnected /\ chunk = <<>>
    BY <1>2, AtLoop DEF DisconnectInv, SessionAt, OnlySession
<1> DEFINE s == CalledWith(State)
           t == Disconnect(s, cb, o)
<1>4. /\ Sound(s) /\ s.comm.state = "CONNECTED" /\ s.client.xioHandle # NULL
      /\ s.client.socketConnected /\ s.client.closedCalls = 0 /\ Unregistered(s)
    <2>1. /\ Sound(s) /\ s.comm = State.comm /\ s.client.closedCalls = 0
          /\ s.client = [State.client EXCEPT !.closedCalls = 0]
        BY <1>2, CalledWithKeeps DEF Keeps
    <2> HIDE DEF s
    <2>2. State.client \in Client
        BY <1>2 DEF Sound, System
    <2> QED BY <1>2, <1>3, <2>1, <2>2 DEF Client, Unregistered
<1>5. Become(t, "loop")
    BY <1>1
<1> HIDE DEF s
<1>6. /\ t.client.xioHandle = NULL
      /\ t.client.clientConnected => t.client.socketConnected
      /\ NothingToClose(t) /\ ClosedOnce(t) /\ t.comm.state # "CONNECTING"
    BY <1>4, DisconnectEnds, DisconnectKeeps DEF Keeps
<1> HIDE DEF t
<1>7. SessionAt(t, "loop", <<>>)
    BY <1>6 DEF SessionAt, OnlySession, ConnAckFirst, Held, Replaced, OnOpenTransport, IsOpen
<1>8. Session' /\ IInv'
    BY <1>2, <1>3, <1>5, <1>7, BecomeSession, CallDisconnectIInv DEF DisconnectInv, SessionInv
<1>9. /\ State'.client = t.client /\ State'.comm = t.comm /\ State'.xio = t.xio
      /\ pc' = "loop"
    BY <1>5 DEF Become, State
<1>10. NothingToClose(State') /\ ClosedOnce(State')
    BY <1>6, <1>9 DEF NothingToClose, ClosedOnce, Leaving, Unregistered, IsOpen
<1> QED BY <1>8, <1>9, <1>10 DEF DisconnectInv, SessionInv

\* A new client is one that nobody has asked to disconnect.
LEMMA RenewedFresh ==
    ASSUME NEW s, s \in System, NEW h \in Handles,
           Become([XioCreate(s, h) EXCEPT !.client = Renewed(s.client),
                                          !.comm.state = "CONNECTING",
                                          !.comm.packetId = 1], "loop")
    PROVE  ~Leaving(State') /\ State'.client.closedCalls = s.client.closedCalls
<1> DEFINE c == XioCreate(s, h)
           w == Renewed(s.client)
           t == [c EXCEPT !.client = w, !.comm.state = "CONNECTING", !.comm.packetId = 1]
<1>1. /\ t.client = w /\ t.comm.state = "CONNECTING"
      /\ ~w.disconnect_cb /\ w.packetState # "DISCONNECT"
      /\ w.closedCalls = s.client.closedCalls
    BY DEF XioCreate, System, Communicator, Client, Renewed, NewClient
<1>2. Become(t, "loop")
    OBVIOUS
<1> HIDE DEF t, w
<1>3. State'.client = w /\ State'.comm = t.comm
    BY <1>1, <1>2 DEF Become, State
<1> QED BY <1>1, <1>3 DEF Leaving, Unregistered

\* The task that is created again has nothing to disconnect.
LEMMA SessionEndsInv ==
    ASSUME DisconnectInv, SessionEnds
    PROVE  DisconnectInv'
<1> DEFINE s == Abandon(State)
<1>1. Empty(s) /\ s.client = State.client /\ chunk' = <<>> /\ IInv'
    BY SessionRenewed, SessionEndsIInv DEF DisconnectInv, SessionInv
<1>2. PICK h \in Handles :
        Become([XioCreate(s, h) EXCEPT !.client = Renewed(s.client),
                                       !.comm.state = "CONNECTING",
                                       !.comm.packetId = 1], "loop")
    BY SessionRenewed DEF DisconnectInv, SessionInv
<1> HIDE DEF s
<1>3. Session'
    BY <1>1, <1>2, RenewedSession
<1>4. ~Leaving(State') /\ State'.client.closedCalls = State.client.closedCalls
    BY <1>1, <1>2, RenewedFresh DEF Empty
<1>5. ClosedOnce(State') /\ NothingToClose(State')
    BY <1>4 DEF ClosedOnce, NothingToClose, Leaving, DisconnectInv
<1> QED BY <1>1, <1>3, <1>4, <1>5 DEF DisconnectInv, SessionInv

\* A client that is leaving has no handle: its task turns idly until it leaves its loop.
LEMMA LeavingIdle ==
    ASSUME DisconnectInv, [AppNext]_vars, Leaving(State)
    PROVE  UNCHANGED <<client, comm, xio, pc>>
<1>1. /\ pc = "loop" /\ client.xioHandle = NULL
      /\ comm.state \in {"CONNECTED", "DISCONNECTED"}
    BY DEF DisconnectInv, NothingToClose, State
<1> QED BY <1>1 DEF AppNext, Next, Process, Reconnect, StartConnecting, TryConnect,
       HandshakeStalls, DoWork, FlushSends, FlushEnds, FlushFails, RecvFails, RecvNoMemory,
       Recv, Dispatch, DispatchNoMemory, FinishDoWork, LinkFault, Tick, Watchdog, Halted,
       Become, State, vars

\* The task and the monitor, which report no disconnection of their own accord.
LEMMA AppNextInv ==
    ASSUME ~Tls, DisconnectInv, [AppNext]_vars
    PROVE  DisconnectInv'
<1>1. SessionInv'
    BY SessionInductive DEF DisconnectInv
<1>2. CASE Leaving(State)
    <2>1. UNCHANGED <<client, comm, xio, pc>>
        BY <1>2, LeavingIdle
    <2>2. State'.client = State.client /\ State'.comm = State.comm /\ State'.xio = State.xio
        BY <2>1 DEF State
    <2>3. /\ Leaving(State') <=> Leaving(State)
          /\ NothingToClose(State') /\ ClosedOnce(State')
        BY <2>2 DEF DisconnectInv, NothingToClose, ClosedOnce, Leaving, Unregistered, IsOpen
    <2> QED BY <1>1, <2>1, <2>3 DEF DisconnectInv
<1>3. CASE ~Leaving(State)
    <2>1. Quiet(State, State')
        BY StepQuiet DEF DisconnectInv
    <2>2. ~Leaving(State') /\ State'.client.closedCalls = State.client.closedCalls
        BY <1>3, <2>1 DEF Quiet, Leaving
    <2>3. NothingToClose(State') /\ ClosedOnce(State')
        BY <2>2 DEF DisconnectInv, NothingToClose, ClosedOnce, Leaving
    <2> QED BY <1>1, <2>2, <2>3 DEF DisconnectInv
<1> QED BY <1>2, <1>3

\* DisconnectInv holds in every state the device can reach over a plain socket.
THEOREM DisconnectInvHolds == ASSUME ~Tls PROVE DisconnectSpec => []DisconnectInv
<1>1. AppInit => DisconnectInv
    <2> SUFFICES ASSUME Init PROVE DisconnectInv
        BY DEF AppInit
    <2>1. SessionInv
        BY InitIInv, InitSession DEF SessionInv
    <2>2. ~Leaving(State) /\ ClosedOnce(State)
        BY DEF Init, NewClient, State, Leaving, Unregistered, ClosedOnce
    <2> QED BY <2>1, <2>2 DEF DisconnectInv, NothingToClose
<1>2. DisconnectInv /\ [DisconnectNext]_avars => DisconnectInv'
    BY DisconnectSteps, AppNextInv, CallDisconnectInv, SessionEndsInv
<1> QED BY <1>1, <1>2, PTL DEF DisconnectSpec

LEMMA DisconnectInvCallback == DisconnectInv => CallbackOnce
BY DEF DisconnectInv, ClosedOnce, CallbackOnce, State

LEMMA DisconnectInvClosed == DisconnectInv => DisconnectedIsClosed
BY DEF DisconnectInv, NothingToClose, ClosedOnce, Leaving, DisconnectedIsClosed, State

\* Whatever failed or was pending before, and whatever the monitor and the network do
\* afterwards, the callback given to mqtt_client_disconnect is not called a second time.
THEOREM CalledOnce == ASSUME ~Tls PROVE DisconnectSpec => []CallbackOnce
BY DisconnectInvCallback, DisconnectInvHolds, PTL

\* No session after one that was ended, given up or restarted takes over its flags: on an
\* open transport clientConnected means that the broker has accepted this connection.
THEOREM SessionsAreCurrent == ASSUME ~Tls PROVE DisconnectSpec => []SessionIsCurrent
<1>1. DisconnectInv => SessionIsCurrent
    BY SessionInvCurrent DEF DisconnectInv
<1> QED BY <1>1, DisconnectInvHolds, PTL

\* MQTT_DISCONNECTED, on which the task leaves its loop, is reported only when the socket is
\* closed and the client has let go of it.
THEOREM ClosedWhenReported == ASSUME ~Tls PROVE DisconnectSpec => []DisconnectedIsClosed
BY DisconnectInvClosed, DisconnectInvHolds, PTL
=============================================================================
