-------------------------- MODULE MqttSession_proofs --------------------------
(***************************************************************************)
(* Proofs about MqttApp.  First, what MqttComm_proofs proves of the        *)
(* application task alone also holds under the monitor task, which throws  *)
(* the communicator, its client and its transport away wherever a call     *)
(* does not return.  Then the session of the client: that what its flags   *)
(* say is true of the connection it has, whatever fails and wherever       *)
(* callbacks nest.  Last, that CONNECT is the first packet of every        *)
(* connection.                                                             *)
(***************************************************************************)
EXTENDS MqttApp, MqttComm_proofs

\* A client just initialised works on no transport.
LEMMA RenewedType ==
    ASSUME NEW c \in Client
    PROVE  Renewed(c) \in Client /\ Renewed(c).xioHandle = NULL
<1>1. NewClient \in Client /\ NewClient.xioHandle = NULL
    BY ClientAssumption DEF NewClient, Client, PacketStates, Ticks
<1>2. \A r \in Client, n \in 0 .. 2 : /\ [r EXCEPT !.closedCalls = n] \in Client
                                     /\ [r EXCEPT !.closedCalls = n].xioHandle = r.xioHandle
    BY DEF Client
<1>3. c.closedCalls \in 0 .. 2
    BY DEF Client
<1> QED BY <1>1, <1>2, <1>3 DEF Renewed

\* MQTT_Comm_Create and MQTT_Comm_Start_Connection on a communicator's record.
LEMMA StartConnection ==
    ASSUME NEW r \in Communicator
    PROVE  LET m == [r EXCEPT !.state = "CONNECTING", !.packetId = 1]
           IN  m \in Communicator /\ m.state = "CONNECTING" /\ m.xioHandle = r.xioHandle
<1> 1 \in PacketIds /\ "CONNECTING" \in CommStates
    BY CommAssumption DEF PacketIds, CommStates
<1> QED BY DEF Communicator

\* MQTT_Comm_Destroy frees the transport at both places the monitor finds the task:
\* in the retry loop it was never used, in a hung call it is the client's own.
LEMMA MonitorEmpties == ASSUME IInv, Watchdog PROVE Empty(Discard(State))
<1>1. CASE pc = "hung"
    BY <1>1, StateSound, DiscardEmpties DEF Reconnecting
<1>2. CASE pc = "connecting"
    BY <1>2, StateSound, DiscardUntouched DEF Reconnecting
<1> QED BY <1>1, <1>2 DEF Watchdog, Halted

\* A new communicator, client and transport, on the heap that s leaves.
LEMMA RenewedIInv ==
    ASSUME IInv, NEW s, Empty(s), NEW h \in Handles, chunk' = <<>>, faults' = faults,
           Become([XioCreate(s, h) EXCEPT !.client = Renewed(s.client),
                                          !.comm.state = "CONNECTING",
                                          !.comm.packetId = 1], "loop")
    PROVE  IInv'
<1>1. Empty(s)
    OBVIOUS
<1>2. chunk' \in Seq(Received) /\ faults' \in 0 .. MaxFaults
    BY <<>> \in Seq(Received) DEF IInv, TypeOK
<1> DEFINE c == XioCreate(s, h)
           m == [c.comm EXCEPT !.state = "CONNECTING", !.packetId = 1]
           w == Renewed(s.client)
           u == [c EXCEPT !.client = Renewed(s.client), !.comm.state = "CONNECTING",
                          !.comm.packetId = 1]
<1>4. c \in System /\ Live(c) /\ Untouched(c)
    BY <1>1, XioCreateLive
<1> HIDE DEF c
<1>5. /\ m \in Communicator /\ m.state = "CONNECTING"
      /\ m.xioHandle = c.comm.xioHandle
    BY <1>4, StartConnection DEF System
<1>6. u = [c EXCEPT !.client = w, !.comm = m]
    BY <1>4 DEF System
<1>7. Become(u, "loop")
    BY DEF c
<1>10. w \in Client /\ w.xioHandle = NULL
    BY <1>1, RenewedType DEF Empty, System
<1> HIDE DEF m, u, w
<1>8. u \in System /\ u.client = w /\ u.comm = m /\ u.xio = c.xio
    BY <1>4, <1>5, <1>6, <1>10 DEF System
<1>9. Live(u) /\ Untouched(u)
    BY <1>4, <1>5, <1>8 DEF Live, Untouched
<1> QED BY <1>2, <1>5, <1>7, <1>8, <1>9, BecomeIInv DEF Places

\* A restart that has freed the transport.
LEMMA RestartIInv == ASSUME IInv, Restart, Empty(Discard(State)) PROVE IInv'
BY RenewedIInv DEF Restart, FreeHandles

\* The restart by the monitor.
LEMMA WatchdogIInv == ASSUME IInv, Watchdog PROVE IInv'
BY MonitorEmpties, RestartIInv DEF Watchdog

\* Until what was freed is used, the device takes the steps of the task, the monitor and
\* the environment; afterwards it takes none.
LEMMA DeviceSteps == [DeviceNext]_dvars => [AppNext]_vars
BY DEF DeviceNext, Overtakes, CreateFails, Finished, Breaks, dvars

LEMMA AppSteps == AppSpec => Init /\ [][AppNext]_vars
<1>1. AppInit => Init
    BY DEF AppInit
<1> QED BY <1>1, DeviceSteps, PTL DEF AppSpec

\* IInv holds under the monitor task, too.
THEOREM AppIInvHolds == AppSpec => []IInv
<1>1. Init => IInv
    BY InitIInv
<1>2. IInv /\ [AppNext]_vars => IInv'
    BY Inductive, WatchdogIInv DEF AppNext
<1> QED BY <1>1, <1>2, AppSteps, PTL

\* Neither reconnecting nor a restart by the monitor makes the client use a transport
\* that was freed, leaves one behind, or opens one with something pending.
THEOREM RestartSafe == AppSpec => [](TypeOK /\ NoDanglingHandle /\ OneTransport /\ OpensClean)
<1>1. IInv => TypeOK
    BY DEF IInv
<1>2. IInv => NoDanglingHandle /\ OneTransport /\ OpensClean
    BY IInvNoDanglingHandle, IInvOneTransport, IInvOpensClean
<1> QED BY <1>1, <1>2, AppIInvHolds, PTL

-----------------------------------------------------------------------------

\* Over TLS a client that believes in a socket works on a transport whose handshake
\* has completed and that was not closed: closing it will call the client back.
Held(s) ==
    Tls /\ s.client.socketConnected =>
        /\ s.client.xioHandle # NULL
        /\ s.xio[s.client.xioHandle].st # "closed"
        /\ s.xio[s.client.xioHandle].tls = "shaken"

OnOpenTransport(s) == IsOpen(s, s.client.xioHandle)
Opened(s) == s.client.socketConnected /\ OnOpenTransport(s)

\* The broker is there and has not seen CONNECT; whatever else reaches it first makes
\* it close the connection.
Ungreeted(s) == s.link.net = "up" /\ ~s.link.asked

\* Nothing that is no CONNECT reaches a broker that has not seen one: this can only be
\* said of a function called when the broker has been asked or cannot be reached.
Courteous(s, t) ==
    ~Ungreeted(s) => ~Ungreeted(t) /\ (t.link.net = "reset" => s.link.net = "reset")

\* mqtt_client_disconnect has not been called.
Unregistered(s) == ~s.client.disconnect_cb /\ s.client.packetState # "DISCONNECT"

(***************************************************************************)
(* What the functions of the client do to a session, whatever fails in     *)
(* them.  Wanes: it may only end, and when it does, the client forgets the *)
(* session and its handle together; a broker that was asked stays so.     *)
(*  Quiet: without a                      *)
(* mqtt_client_disconnect nothing is reported as one.  Reported: the       *)
(* communicator stays in its state only if the transport stays open.       *)
(***************************************************************************)
Wanes(s, t) ==
    /\ t.client.clientConnected => s.client.clientConnected
    /\ t.client.socketConnected => s.client.socketConnected
    /\ t.client.xioHandle \in {NULL, s.client.xioHandle}
    /\ s.client.socketConnected /\ ~t.client.socketConnected =>
           ~t.client.clientConnected /\ t.client.xioHandle = NULL
    /\ t.client.xioHandle # NULL =>
           /\ t.link.accepted = s.link.accepted
           /\ OnOpenTransport(t) => OnOpenTransport(s)
    /\ Held(s) => Held(t)
    /\ Courteous(s, t)

Quiet(s, t) ==
    Unregistered(s) =>
        /\ Unregistered(t)
        /\ t.client.closedCalls = s.client.closedCalls
        /\ t.comm.state = "DISCONNECTED" => s.comm.state = "DISCONNECTED"

Reported(s, t) ==
    t.comm.state \in {"CONNECTED", "CONNECTING"} =>
        t.comm.state = s.comm.state /\ (Opened(s) => Opened(t))

Tells(s, t) == Wanes(s, t) /\ Quiet(s, t) /\ Reported(s, t)

-----------------------------------------------------------------------------
\* A function that calls another one does what both do.
LEMMA WanesTwice ==
    ASSUME NEW s, NEW t, NEW u, Wanes(s, t), Wanes(t, u)
    PROVE  Wanes(s, u)
BY DEF Wanes, Courteous

\* Nor do two quiet steps report a disconnection.
LEMMA QuietTwice ==
    ASSUME NEW s, NEW t, NEW u, Quiet(s, t), Quiet(t, u)
    PROVE  Quiet(s, u)
BY DEF Quiet

\* So the relations compose along the calls of a function.
LEMMA TellsTwice ==
    ASSUME NEW s, NEW t, NEW u, Tells(s, t), Tells(t, u)
    PROVE  Tells(s, u)
<1>1. Wanes(s, u) /\ Quiet(s, u)
    BY WanesTwice, QuietTwice DEF Tells
<1>2. Reported(s, u)
    BY DEF Tells, Reported
<1> QED BY <1>1, <1>2 DEF Tells

\* A call that fails early changes nothing.
LEMMA TellsSame == ASSUME NEW s PROVE Tells(s, s)
BY DEF Tells, Wanes, Quiet, Reported, Courteous

\* A change that leaves the session, the transport and the state alone.
LEMMA TellsUnseen ==
    ASSUME NEW s, NEW t,
           t.client.clientConnected = s.client.clientConnected,
           t.client.socketConnected = s.client.socketConnected,
           t.client.xioHandle = s.client.xioHandle,
           t.client.disconnect_cb = s.client.disconnect_cb,
           t.client.closedCalls = s.client.closedCalls,
           t.client.packetState # "DISCONNECT" \/ t.client.packetState = s.client.packetState,
           t.comm.state = s.comm.state, t.xio = s.xio,
           t.link.accepted = s.link.accepted, Courteous(s, t)
    PROVE  Tells(s, t)
<1>1. /\ Held(t) <=> Held(s)
      /\ OnOpenTransport(t) <=> OnOpenTransport(s)
      /\ Opened(t) <=> Opened(s)
    BY DEF Held, OnOpenTransport, Opened, IsOpen
<1>2. Wanes(s, t) /\ Reported(s, t)
    BY <1>1 DEF Wanes, Reported
<1>3. Quiet(s, t)
    BY DEF Quiet, Unregistered
<1> QED BY <1>2, <1>3 DEF Tells

\* set_error_callback tells the communicator.
LEMMA ErrorReported ==
    ASSUME NEW s, NEW t, Wanes(s, t), Quiet(s, t), t.comm.state = "ERROR"
    PROVE  Tells(s, t)
BY DEF Tells, Reported

-----------------------------------------------------------------------------
(***************************************************************************)
(* Closing: the connection is kept as it is or ended, and what was pending *)
(* is kept or gone.                                                        *)
(***************************************************************************)
HangsUp(s, t) ==
    /\ t.link \in {s.link, NoLink}
    /\ \A h \in Handles : t.xio[h].pending \in {<<>>, s.xio[h].pending}

\* A change of the client or the communicator alone closes nothing.
LEMMA HangsUpUnseen ==
    ASSUME NEW s, NEW t, t.link = s.link, t.xio = s.xio
    PROVE  HangsUp(s, t) /\ Courteous(s, t)
BY DEF HangsUp, Courteous, Ungreeted

\* Two such steps are one.
LEMMA HangsUpTwice ==
    ASSUME NEW s, NEW t, NEW u, HangsUp(s, t), HangsUp(t, u)
    PROVE  HangsUp(s, u)
BY DEF HangsUp

\* Hanging up sends nothing.
LEMMA HangsUpCourteous ==
    ASSUME NEW s, NEW t, HangsUp(s, t)
    PROVE  /\ Courteous(s, t) /\ (Ungreeted(t) => Ungreeted(s) /\ t.link = s.link)
           /\ t.link.net = "reset" => s.link.net = "reset"
           /\ s.link.net = "down" => t.link.net = "down"
BY DEF HangsUp, Courteous, Ungreeted, NoLink

\* The socket is closed.
LEMMA ShutHangsUp ==
    ASSUME NEW s, Sound(s), NEW h \in Handles
    PROVE  HangsUp(s, Shut(s, h))
<1> DEFINE t == Shut(s, h)
<1>1. s.xio \in [Handles -> Transport]
    BY DEF Sound, System
<1>2. t.link \in {s.link, NoLink} /\ t.xio = [s.xio EXCEPT ![h].st = "closed"]
    BY DEF Shut, Sound, System
<1> HIDE DEF t
<1>3. \A g \in Handles : t.xio[g].pending = s.xio[g].pending
    BY <1>1, <1>2 DEF Transport
<1> QED BY <1>2, <1>3 DEF HangsUp, t

\* Its pending sends fail.
LEMMA FailPendingHangsUp ==
    ASSUME NEW s, Sound(s), NEW h \in Handles \cup {NULL}
    PROVE  HangsUp(s, FailPending(s, h))
<1> DEFINE t == [s EXCEPT !.xio[h].pending = <<>>, !.xio[h].st = "error",
                          !.comm.state = "ERROR"]
           x == [s.xio[h] EXCEPT !.pending = <<>>, !.st = "error"]
<1>1. FailPending(s, h) = s \/ (h # NULL /\ FailPending(s, h) = t)
    BY DEF FailPending
<1>2. ASSUME h # NULL PROVE HangsUp(s, t)
    <2>1. h \in Handles /\ s.xio \in [Handles -> Transport] /\ s.xio[h] \in Transport
        BY <1>2 DEF Sound, System
    <2>2. t.link = s.link /\ t.xio = [s.xio EXCEPT ![h] = x] /\ x.pending = <<>>
        BY <2>1 DEF Sound, System, Transport
    <2> HIDE DEF t, x
    <2>3. \A g \in Handles : t.xio[g].pending \in {<<>>, s.xio[g].pending}
        BY <2>1, <2>2
    <2> QED BY <2>2, <2>3 DEF HangsUp
<1>3. HangsUp(s, s)
    BY HangsUpUnseen
<1> HIDE DEF t
<1> QED BY <1>1, <1>2, <1>3

\* close_connection.
LEMMA CloseConnectionHangsUp ==
    ASSUME NEW s, Sound(s)
    PROVE  HangsUp(s, CloseConnection(s))
<1> DEFINE h == s.client.xioHandle
           c == OnConnectionClosed(Shut(s, h))
           closed == IF CloseCallsBack(s, h) THEN OnConnectionClosed(Shut(s, h)) ELSE s
           worked == IF s.client.disconnect_cb THEN closed ELSE FailPending(closed, h)
           t == [worked EXCEPT !.client.xioHandle = NULL]
<1>1. h \in Handles \cup {NULL}
    BY DEF Sound, System, Client
<1>2. HangsUp(s, s)
    BY HangsUpUnseen
<1>3. ASSUME CloseCallsBack(s, h)
      PROVE  HangsUp(s, c) /\ Sound(c)
    <2>1. h \in Handles /\ h = s.comm.xioHandle
        BY <1>3 DEF Sound, System, Communicator, CloseCallsBack
    <2>2. HangsUp(s, Shut(s, h)) /\ Sound(Shut(s, h))
        BY <2>1, ShutHangsUp, ShutKeeps DEF Keeps
    <2>3. Sound(c)
        BY <2>2, OnConnectionClosedKeeps DEF Keeps
    <2>4. c.link = Shut(s, h).link /\ c.xio = Shut(s, h).xio
        BY <2>2 DEF OnConnectionClosed, CallDisconnectCb, Sound, System
    <2> HIDE DEF c
    <2>5. HangsUp(Shut(s, h), c)
        BY <2>4, HangsUpUnseen
    <2> QED BY <2>2, <2>3, <2>5, HangsUpTwice
<1>4. HangsUp(s, closed) /\ Sound(closed)
    BY <1>2, <1>3
<1>5. closed.comm = s.comm /\ s.client.xioHandle \in {NULL, s.comm.xioHandle}
    BY DEF OnConnectionClosed, CallDisconnectCb, Shut, Sound, System
<1> HIDE DEF closed
<1>6. HangsUp(s, worked) /\ Sound(worked)
    <2>1. HangsUp(closed, FailPending(closed, h)) /\ Sound(FailPending(closed, h))
        BY <1>1, <1>4, <1>5, FailPendingHangsUp, FailPendingKeeps DEF Keeps
    <2> QED BY <1>4, <2>1, HangsUpTwice
<1> HIDE DEF worked
<1>7. t.link = worked.link /\ t.xio = worked.xio
    BY <1>6 DEF Sound, System
<1>8. CloseConnection(s) = IF s.client.socketConnected THEN t ELSE CallDisconnectCb(s)
    BY DEF CloseConnection, worked, closed
<1> HIDE DEF t
<1>9. HangsUp(s, t)
    BY <1>6, <1>7, HangsUpUnseen, HangsUpTwice
<1>10. HangsUp(s, CallDisconnectCb(s))
    BY HangsUpUnseen DEF CallDisconnectCb, Sound, System
<1> QED BY <1>8, <1>9, <1>10

\* The callbacks of mqtt_comm.c send nothing either.
LEMMA StateSetHangsUp ==
    ASSUME NEW s, Sound(s), NEW c
    PROVE  HangsUp(s, [s EXCEPT !.comm.state = c])
BY HangsUpUnseen DEF Sound, System

\* set_error_callback.
LEMMA SetErrorHangsUp ==
    ASSUME NEW s, Sound(s)
    PROVE  HangsUp(s, SetError(s))
<1> DEFINE e == [s EXCEPT !.comm.state = "ERROR"]
<1>1. Sound(e) /\ HangsUp(s, e)
    BY StateSet, StateSetHangsUp DEF Keeps, CommStates
<1> HIDE DEF e
<1>2. HangsUp(s, CloseConnection(e))
    BY <1>1, CloseConnectionHangsUp, HangsUpTwice
<1> QED BY <1>2 DEF SetError, e

\* sendComplete.
LEMMA SendCompleteHangsUp ==
    ASSUME NEW s, Sound(s)
    PROVE  HangsUp(s, SendComplete(s))
<1> DEFINE e == [s EXCEPT !.comm.state = "DISCONNECTED"]
<1>1. Sound(e) /\ HangsUp(s, e)
    BY StateSet, StateSetHangsUp DEF Keeps, CommStates
<1> HIDE DEF e
<1>2. HangsUp(s, CloseConnection(e))
    BY <1>1, CloseConnectionHangsUp, HangsUpTwice
<1> QED BY <1>2, HangsUpUnseen DEF SendComplete, e

\* A transport enters its error state.
LEMMA ErrorMarkedHangsUp ==
    ASSUME NEW s, Sound(s), NEW h \in Handles
    PROVE  HangsUp(s, [s EXCEPT !.xio[h].st = "error"])
<1> DEFINE t == [s EXCEPT !.xio[h].st = "error"]
<1>1. s.xio \in [Handles -> Transport]
    BY DEF Sound, System
<1>2. t.link = s.link /\ t.xio = [s.xio EXCEPT ![h].st = "error"]
    BY DEF Sound, System
<1> HIDE DEF t
<1>3. \A g \in Handles : t.xio[g].pending = s.xio[g].pending
    BY <1>1, <1>2 DEF Transport
<1> QED BY <1>2, <1>3 DEF HangsUp, t

-----------------------------------------------------------------------------
\* A callback of mqtt_comm.c says nothing about the session.
LEMMA StateSetWanes ==
    ASSUME NEW s, Sound(s), NEW c
    PROVE  Wanes(s, [s EXCEPT !.comm.state = c])
<1> DEFINE t == [s EXCEPT !.comm.state = c]
<1>1. t.client = s.client /\ t.xio = s.xio /\ t.link = s.link
    BY DEF Sound, System
<1> HIDE DEF t
<1>2. /\ Held(t) <=> Held(s)
      /\ OnOpenTransport(t) <=> OnOpenTransport(s)
    BY <1>1 DEF Held, OnOpenTransport, IsOpen
<1>3. Wanes(s, t)
    BY <1>1, <1>2, HangsUpUnseen DEF Wanes
<1> QED BY <1>3 DEF t

\* The callback itself.
LEMMA CallbackWanes ==
    ASSUME NEW s, Sound(s)
    PROVE  /\ Wanes(s, CallDisconnectCb(s)) /\ Quiet(s, CallDisconnectCb(s))
           /\ CallDisconnectCb(s).comm = s.comm
<1> DEFINE t == CallDisconnectCb(s)
<1>1. /\ t.xio = s.xio /\ t.link = s.link /\ t.comm = s.comm
      /\ t.client.xioHandle = s.client.xioHandle
      /\ t.client.socketConnected = s.client.socketConnected
      /\ t.client.clientConnected = s.client.clientConnected
      /\ t.client.packetState = s.client.packetState
      /\ t.client.disconnect_cb = s.client.disconnect_cb
    BY DEF CallDisconnectCb, Sound, System, Client
<1>2. ~s.client.disconnect_cb => t = s
    BY DEF CallDisconnectCb
<1> HIDE DEF t
<1>3. Held(t) <=> Held(s)
    BY <1>1 DEF Held
<1>4. OnOpenTransport(t) <=> OnOpenTransport(s)
    BY <1>1 DEF OnOpenTransport, IsOpen
<1>5. Wanes(s, t)
    BY <1>1, <1>3, <1>4, HangsUpUnseen DEF Wanes
<1>6. Quiet(s, t)
    BY <1>1, <1>2 DEF Quiet, Unregistered
<1> QED BY <1>1, <1>5, <1>6 DEF t

\* on_connection_closed forgets the session.
LEMMA ClosedForgets ==
    ASSUME NEW s, Sound(s)
    PROVE  LET t == OnConnectionClosed(s)
           IN  /\ ~t.client.socketConnected /\ ~t.client.clientConnected
               /\ Quiet(s, t) /\ t.comm = s.comm /\ t.xio = s.xio
<1> DEFINE u == [s EXCEPT !.client.socketConnected = FALSE,
                          !.client.clientConnected = FALSE]
           t == CallDisconnectCb(u)
<1>1. Sound(u)
    BY DEF Sound, Live, System, Client
<1>2. /\ ~u.client.socketConnected /\ ~u.client.clientConnected
      /\ u.comm = s.comm /\ u.xio = s.xio
      /\ u.client.disconnect_cb = s.client.disconnect_cb
      /\ u.client.packetState = s.client.packetState
      /\ u.client.closedCalls = s.client.closedCalls
    BY DEF Sound, System, Client
<1>3. OnConnectionClosed(s) = t
    BY DEF OnConnectionClosed
<1> HIDE DEF u
<1>4. Wanes(u, t) /\ Quiet(u, t) /\ t.comm = u.comm /\ t.xio = u.xio
    BY <1>1, CallbackWanes DEF CallDisconnectCb, Sound, System
<1> HIDE DEF t
<1>5. Quiet(s, t)
    BY <1>2, <1>4 DEF Quiet, Unregistered
<1>6. ~t.client.socketConnected /\ ~t.client.clientConnected
    BY <1>2, <1>4 DEF Wanes
<1> QED BY <1>2, <1>3, <1>4, <1>5, <1>6

\* What closing a transport leaves of the client.
LEMMA ShutAlone ==
    ASSUME NEW s, Sound(s), NEW h
    PROVE  Shut(s, h).client = s.client /\ Shut(s, h).comm = s.comm
BY DEF Shut, Sound, System

\* Failing pending sends does not change the client.
LEMMA FailPendingAlone ==
    ASSUME NEW s, Sound(s), NEW h
    PROVE  /\ FailPending(s, h).client = s.client
           /\ FailPending(s, h).comm.state \in {s.comm.state, "ERROR"}
BY DEF FailPending, Sound, System, Communicator

\* close_connection ends the session and forgets the handle, or does nothing to it.
LEMMA CloseConnectionWanes ==
    ASSUME NEW s, Sound(s)
    PROVE  LET t == CloseConnection(s)
           IN  /\ Wanes(s, t) /\ Quiet(s, t)
               /\ t.comm.state \in {s.comm.state, "ERROR"}
               /\ s.client.socketConnected => t.client.xioHandle = NULL
<1> DEFINE h == s.client.xioHandle
           closed == IF CloseCallsBack(s, h) THEN OnConnectionClosed(Shut(s, h)) ELSE s
           worked == IF s.client.disconnect_cb THEN closed ELSE FailPending(closed, h)
           t == [worked EXCEPT !.client.xioHandle = NULL]
<1>1. CloseConnection(s) = IF s.client.socketConnected THEN t ELSE CallDisconnectCb(s)
    BY DEF CloseConnection
<1>2. CASE ~s.client.socketConnected
    BY <1>1, <1>2, CallbackWanes
<1>3. CASE s.client.socketConnected
    <2>1. /\ Sound(closed) /\ Quiet(s, closed) /\ closed.comm = s.comm
          /\ closed.client.clientConnected => s.client.clientConnected
          /\ \/ ~CloseCallsBack(s, h) /\ closed = s
             \/ ~closed.client.socketConnected /\ ~closed.client.clientConnected
        <3>1. CASE CloseCallsBack(s, h)
            <4>1. h \in Handles /\ h = s.comm.xioHandle
                BY <3>1 DEF Sound, System, Communicator, CloseCallsBack
            <4>2. Sound(Shut(s, h))
                BY <4>1, ShutKeeps DEF Keeps
            <4>3. Quiet(s, Shut(s, h)) /\ Shut(s, h).comm = s.comm
                BY ShutAlone DEF Quiet, Unregistered
            <4>4. Sound(OnConnectionClosed(Shut(s, h)))
                BY <4>2, OnConnectionClosedKeeps DEF Keeps
            <4> DEFINE c == OnConnectionClosed(Shut(s, h))
            <4>5. /\ ~c.client.socketConnected /\ ~c.client.clientConnected
                  /\ Quiet(Shut(s, h), c) /\ c.comm = s.comm
                BY <4>2, <4>3, ClosedForgets
            <4>6. Quiet(s, c)
                BY <4>3, <4>5, QuietTwice
            <4>7. closed = c
                BY <3>1
            <4> HIDE DEF c, closed
            <4> QED BY <4>4, <4>5, <4>6, <4>7 DEF c
        <3>2. CASE ~CloseCallsBack(s, h)
            BY <3>2 DEF Quiet
        <3> QED BY <3>1, <3>2
    <2> HIDE DEF closed
    <2>2. worked.client = closed.client /\ worked.comm.state \in {closed.comm.state, "ERROR"}
        BY <2>1, FailPendingAlone
    <2>3. Sound(worked)
        <3>1. h \in {NULL, closed.comm.xioHandle}
            BY <2>1 DEF Sound
        <3> QED BY <2>1, <3>1, FailPendingKeeps DEF Keeps
    <2> HIDE DEF worked
    <2>4. /\ t.client.xioHandle = NULL /\ t.comm = worked.comm
          /\ t.client.clientConnected = closed.client.clientConnected
          /\ t.client.socketConnected = closed.client.socketConnected
          /\ t.client.disconnect_cb = closed.client.disconnect_cb
          /\ t.client.packetState = closed.client.packetState
          /\ t.client.closedCalls = closed.client.closedCalls
        BY <2>2, <2>3 DEF Sound, System, Client
    <2> HIDE DEF t
    <2>5. Held(s) => Held(t)
        <3>1. ASSUME Held(s), Tls PROVE ~closed.client.socketConnected
            BY <1>3, <2>1, <3>1 DEF Held, CloseCallsBack
        <3> QED BY <2>4, <3>1 DEF Held
    <2>6. Wanes(s, t)
        <3>1. CloseConnection(s) = t
            BY <1>1, <1>3
        <3>2. Courteous(s, t)
            BY <3>1, CloseConnectionHangsUp, HangsUpCourteous
        <3> QED BY <1>3, <2>1, <2>4, <2>5, <3>2 DEF Wanes
    <2>7. Quiet(s, t)
        BY <2>1, <2>2, <2>4 DEF Quiet, Unregistered
    <2> QED BY <1>1, <1>3, <2>1, <2>2, <2>4, <2>6, <2>7
<1> QED BY <1>2, <1>3

\* The client reports an error after the connection has lost more than it tells.
LEMMA SetErrorTells ==
    ASSUME NEW s, NEW t, Sound(t), Wanes(s, t), Quiet(s, t)
    PROVE  /\ Tells(s, SetError(t)) /\ SetError(t).comm.state = "ERROR"
           /\ t.client.socketConnected => SetError(t).client.xioHandle = NULL
<1> DEFINE e == [t EXCEPT !.comm.state = "ERROR"]
           u == CloseConnection(e)
<1>1. /\ Sound(e) /\ Wanes(t, e)
      /\ e.comm.state = "ERROR" /\ e.client = t.client
    <2>1. Sound(e)
        BY StateSet DEF Keeps, CommStates
    <2>2. Wanes(t, e)
        BY StateSetWanes
    <2> QED BY <2>1, <2>2 DEF Sound, System, Communicator
<1>2. SetError(t) = u
    BY DEF SetError
<1> HIDE DEF e
<1>3. /\ Wanes(e, u) /\ Quiet(e, u) /\ u.comm.state = "ERROR"
      /\ e.client.socketConnected => u.client.xioHandle = NULL
    BY <1>1, CloseConnectionWanes
<1> HIDE DEF u
<1>4. Wanes(s, u)
    BY <1>1, <1>3, WanesTwice
<1>5. Quiet(s, u)
    BY <1>1, <1>3 DEF Quiet, Unregistered
<1> QED BY <1>1, <1>2, <1>3, <1>4, <1>5, ErrorReported

\* A transport in its error state was not closed, and is not open.
LEMMA ErrorMarkedWanes ==
    ASSUME NEW s, Sound(s), NEW h \in Handles, h = s.comm.xioHandle
    PROVE  LET t == [s EXCEPT !.xio[h].st = "error"]
           IN  Wanes(s, t) /\ Quiet(s, t)
<1> DEFINE t == [s EXCEPT !.xio[h].st = "error"]
<1>1. t.client = s.client /\ t.comm = s.comm /\ t.link = s.link
    BY DEF Sound, System
<1>2. s.xio \in [Handles -> Transport] /\ s.xio[h] \in Transport
    BY DEF Sound, System
<1>3. t.xio[h].st = "error" /\ t.xio[h].tls = s.xio[h].tls
    BY <1>2 DEF Transport
<1>4. s.client.xioHandle \in {NULL, h}
    BY DEF Sound
<1>5. Courteous(s, t)
    BY ErrorMarkedHangsUp, HangsUpCourteous
<1> HIDE DEF t
<1>6. ~OnOpenTransport(t)
    BY <1>1, <1>3, <1>4 DEF OnOpenTransport, IsOpen
<1>7. Held(s) => Held(t)
    BY <1>1, <1>3, <1>4 DEF Held
<1>8. Wanes(s, t)
    BY <1>1, <1>5, <1>6, <1>7 DEF Wanes
<1>9. Quiet(s, t)
    BY <1>1 DEF Quiet, Unregistered
<1> QED BY <1>8, <1>9 DEF t

\* A change of what is pending cannot be seen.
LEMMA PendingTells ==
    ASSUME NEW s, Sound(s), NEW h \in Handles, NEW q
    PROVE  Tells(s, [s EXCEPT !.xio[h].pending = q])
<1> DEFINE t == [s EXCEPT !.xio[h].pending = q]
<1>1. t.client = s.client /\ t.comm = s.comm /\ t.link = s.link
    BY DEF Sound, System
<1>2. s.xio \in [Handles -> Transport]
    BY DEF Sound, System
<1>3. \A g \in Handles : t.xio[g].st = s.xio[g].st /\ t.xio[g].tls = s.xio[g].tls
    BY <1>2 DEF Transport
<1>4. s.client.xioHandle \in {NULL} \cup Handles
    BY DEF Sound, System, Client
<1> HIDE DEF t
<1>5. OnOpenTransport(t) <=> OnOpenTransport(s)
    BY <1>1, <1>3, <1>4 DEF OnOpenTransport, IsOpen
<1>6. Held(s) <=> Held(t)
    BY <1>1, <1>3, <1>4 DEF Held
<1>7. Wanes(s, t) /\ Reported(s, t)
    BY <1>1, <1>5, <1>6 DEF Wanes, Reported, Opened, Courteous, Ungreeted
<1>8. Quiet(s, t)
    BY <1>1 DEF Quiet, Unregistered
<1> QED BY <1>7, <1>8 DEF t, Tells

\* What becomes of a connection whose broker was asked, or cannot be reached.
Answers(l, m) ==
    l.net # "up" \/ l.asked =>
        (m.net # "up" \/ m.asked) /\ (m.net = "reset" => l.net = "reset")

\* Nor can what the link does, while the broker's answer to CONNECT stands.
LEMMA LinkTells ==
    ASSUME NEW s, Sound(s), NEW l, l.accepted = s.link.accepted, Answers(s.link, l)
    PROVE  Tells(s, [s EXCEPT !.link = l])
<1> DEFINE t == [s EXCEPT !.link = l]
<1>1. t.client = s.client /\ t.comm = s.comm /\ t.link = l /\ t.xio = s.xio
    BY DEF Sound, System
<1> HIDE DEF t
<1>2. Courteous(s, t)
    BY <1>1 DEF Answers, Courteous, Ungreeted
<1>3. Tells(s, t)
    BY <1>1, <1>2, TellsUnseen
<1> QED BY <1>3 DEF t

\* What reaches the broker leaves its answer to CONNECT as it was.
LEMMA DeliveredAccepted ==
    ASSUME NEW l \in Link, NEW p
    PROVE  Delivered(l, p).accepted = l.accepted /\ Answers(l, Delivered(l, p))
BY DEF Delivered, Link, Answers

\* sendComplete: only after DISCONNECT does it do anything.
LEMMA SendCompleteTells ==
    ASSUME NEW s, Sound(s)
    PROVE  Tells(s, SendComplete(s))
<1> DEFINE e == [s EXCEPT !.comm.state = "DISCONNECTED"]
           t == CloseConnection(e)
<1>1. CASE s.client.packetState # "DISCONNECT"
    BY <1>1, TellsSame DEF SendComplete
<1>2. CASE s.client.packetState = "DISCONNECT"
    <2>1. Sound(e) /\ e.comm.state = "DISCONNECTED"
        BY StateSet DEF Keeps, CommStates, Sound, System, Communicator
    <2>2. Wanes(s, e)
        BY StateSetWanes
    <2> HIDE DEF e
    <2>3. Wanes(e, t) /\ t.comm.state \in {"DISCONNECTED", "ERROR"}
        BY <2>1, CloseConnectionWanes
    <2>4. SendComplete(s) = t
        BY <1>2 DEF SendComplete, e
    <2> HIDE DEF t
    <2>5. Quiet(s, t) /\ Reported(s, t)
        BY <1>2, <2>3 DEF Quiet, Unregistered, Reported
    <2> QED BY <2>2, <2>3, <2>4, <2>5, WanesTwice DEF Tells
<1> QED BY <1>1, <1>2

\* xio_send, with every callback it may make.
LEMMA XioSendTells ==
    ASSUME NEW s, Sound(s), NEW p \in Requests, NEW o \in XioSendOutcomes
    PROVE  Tells(s, XioSend(s, s.client.xioHandle, p, o))
<1> DEFINE h == s.client.xioHandle
           r == XioSendResult(s, h, o)
           handed == IF p = "PINGREQ" THEN [s EXCEPT !.link.pinged = TRUE] ELSE s
<1>1. Tells(s, s)
    BY TellsSame
<1>2. r \in {"refused", "ok", "queued", "dropped", "fail"}
    BY DEF XioSendResult, XioSendOutcomes
<1>3. Sound(handed) /\ Tells(s, handed) /\ handed.client = s.client /\ handed.comm = s.comm
    <2> DEFINE l == [s.link EXCEPT !.pinged = TRUE]
    <2>1. l \in Link /\ l.accepted = s.link.accepted /\ Answers(s.link, l)
        BY DEF Sound, System, Link, Answers
    <2>2. [s EXCEPT !.link.pinged = TRUE] = [s EXCEPT !.link = l]
        OBVIOUS
    <2>3. Sound([s EXCEPT !.link = l]) /\ Tells(s, [s EXCEPT !.link = l])
        BY <2>1, LinkSet, LinkTells DEF Keeps
    <2>4. [s EXCEPT !.link = l].client = s.client /\ [s EXCEPT !.link = l].comm = s.comm
        BY DEF Sound, System
    <2> QED BY <1>1, <2>2, <2>3, <2>4
<1> HIDE DEF handed
<1>4. ASSUME r # "refused"
      PROVE  h \in Handles /\ h = s.comm.xioHandle
    BY <1>4 DEF XioSendResult, IsOpen, Sound, System, Communicator
<1>5. CASE r = "ok"
    <2> DEFINE t == [handed EXCEPT !.link = Delivered(@, p)]
               l == Delivered(handed.link, p)
    <2>1. l \in Link /\ l.accepted = handed.link.accepted /\ Answers(handed.link, l)
        BY <1>3, DeliveredType, DeliveredAccepted DEF Sound, System
    <2> HIDE DEF l
    <2>2. t = [handed EXCEPT !.link = l]
        BY DEF l
    <2>3. Sound(t) /\ Tells(handed, t)
        BY <1>3, <2>1, <2>2, LinkSet, LinkTells DEF Keeps
    <2> HIDE DEF t
    <2>4. Tells(s, SendComplete(t))
        BY <1>3, <2>3, SendCompleteTells, TellsTwice
    <2> QED BY <1>5, <2>4 DEF XioSend, t, handed
<1>6. CASE r = "queued"
    <2> DEFINE q == Append(handed.xio[h].pending, p)
    <2>1. [handed EXCEPT !.xio[h].pending = Append(@, p)] = [handed EXCEPT !.xio[h].pending = q]
        BY <1>3, <1>4, <1>6 DEF Sound, System
    <2> HIDE DEF q
    <2>2. Tells(handed, [handed EXCEPT !.xio[h].pending = q])
        BY <1>3, <1>4, <1>6, PendingTells
    <2>3. Tells(s, [handed EXCEPT !.xio[h].pending = q])
        BY <1>3, <2>2, TellsTwice
    <2> QED BY <1>6, <2>1, <2>3 DEF XioSend, handed
<1>7. CASE r = "dropped"
    <2> DEFINE l == [s.link EXCEPT !.net = "silent"]
    <2>1. l.accepted = s.link.accepted /\ Answers(s.link, l)
        BY DEF Sound, System, Link, Answers
    <2>2. [s EXCEPT !.link.net = "silent"] = [s EXCEPT !.link = l]
        OBVIOUS
    <2> HIDE DEF l
    <2>3. Tells(s, [s EXCEPT !.link.net = "silent"])
        BY <2>1, <2>2, LinkTells
    <2> QED BY <1>1, <1>7, <2>3 DEF XioSend
<1>8. CASE r = "fail"
    <2> DEFINE t == [s EXCEPT !.xio[h].st = "error"]
    <2>1. Sound(t) /\ Wanes(s, t) /\ Quiet(s, t)
        BY <1>4, <1>8, ErrorMarked, ErrorMarkedWanes DEF Keeps
    <2> HIDE DEF t
    <2>2. Tells(s, SetError(t))
        BY <2>1, SetErrorTells
    <2> QED BY <1>1, <1>8, <2>2 DEF XioSend, t
<1>9. CASE r = "refused"
    BY <1>1, <1>9 DEF XioSend
<1> QED BY <1>2, <1>5, <1>6, <1>7, <1>8, <1>9

\* sendPacketItem.
LEMMA SendPacketItemTells ==
    ASSUME NEW s, Sound(s), NEW p \in Requests, NEW o \in XioSendOutcomes
    PROVE  Tells(s, SendPacketItem(s, p, o))
<1> DEFINE t == [s EXCEPT !.client.packetSendTimeMs = s.now]
<1>1. Sound(t) /\ t.client.xioHandle = s.client.xioHandle
    BY DEF Sound, Live, System, Client
<1>2. Tells(s, t)
    <2>1. /\ t.client.clientConnected = s.client.clientConnected
          /\ t.client.socketConnected = s.client.socketConnected
          /\ t.client.disconnect_cb = s.client.disconnect_cb
          /\ t.client.closedCalls = s.client.closedCalls
          /\ t.client.packetState = s.client.packetState
          /\ t.comm = s.comm /\ t.xio = s.xio /\ t.link = s.link
        BY DEF Sound, System, Client
    <2> HIDE DEF t
    <2> QED BY <1>1, <2>1, HangsUpUnseen, TellsUnseen
<1> HIDE DEF t
<1>3. Tells(t, XioSend(t, t.client.xioHandle, p, o))
    BY <1>1, XioSendTells
<1>4. Tells(s, XioSend(t, s.client.xioHandle, p, o))
    BY <1>1, <1>2, <1>3, TellsTwice
<1> QED BY <1>4 DEF SendPacketItem, t

\* mqtt_client_publish and mqtt_client_subscribe; CONNECT.
LEMMA ClientSendTells ==
    ASSUME NEW s, Sound(s), NEW p \in {"CONNECT", "PUBLISH", "SUBSCRIBE"},
           NEW o \in SendOutcomes
    PROVE  Tells(s, ClientSend(s, p, o))
<1> DEFINE t == [s EXCEPT !.client.packetState = p]
<1>1. CASE o = "noPacket"
    BY <1>1, TellsSame DEF ClientSend
<1>2. CASE o # "noPacket"
    <2>1. o \in XioSendOutcomes /\ p \in Requests
        BY <1>2 DEF SendOutcomes, Requests
    <2>2. Sound(t)
        BY DEF Sound, Live, System, Client, PacketStates
    <2>3. /\ t.client.clientConnected = s.client.clientConnected
          /\ t.client.socketConnected = s.client.socketConnected
          /\ t.client.xioHandle = s.client.xioHandle
          /\ t.client.disconnect_cb = s.client.disconnect_cb
          /\ t.client.closedCalls = s.client.closedCalls
          /\ t.client.packetState # "DISCONNECT"
          /\ t.comm = s.comm /\ t.xio = s.xio /\ t.link = s.link
        BY DEF Sound, System, Client
    <2> HIDE DEF t
    <2>4. Tells(s, t)
        BY <2>3, HangsUpUnseen, TellsUnseen
    <2>5. Tells(s, SendPacketItem(t, p, o))
        BY <2>1, <2>2, <2>4, SendPacketItemTells, TellsTwice
    <2> QED BY <1>2, <2>5 DEF ClientSend, t
<1> QED BY <1>1, <1>2

\* Over a plain socket a send that fails tells nobody but its caller: the client goes
\* on believing in the connection.
LEMMA PlainSendKeepsSocket ==
    ASSUME NEW s, Sound(s), ~Tls, NEW p \in {"CONNECT", "PUBLISH", "SUBSCRIBE"},
           NEW o \in SendOutcomes
    PROVE  LET t == ClientSend(s, p, o)
           IN  t.client.socketConnected = s.client.socketConnected
<1> DEFINE a == [s EXCEPT !.client.packetState = p]
           b == [a EXCEPT !.client.packetSendTimeMs = a.now]
           h == a.client.xioHandle
           r == XioSendResult(b, h, o)
<1>1. /\ b.client.socketConnected = s.client.socketConnected
      /\ b.client.packetState # "DISCONNECT"
    BY DEF Sound, System, Client
<1>2. ClientSend(s, p, o) = IF o = "noPacket" THEN s ELSE XioSend(b, h, p, o)
    BY DEF ClientSend, SendPacketItem
<1>3. p # "PINGREQ"
    OBVIOUS
<1> HIDE DEF b, h
<1>4. XioSend(b, h, p, o) \in {SendComplete([b EXCEPT !.link = Delivered(@, p)]),
                              [b EXCEPT !.xio[h].pending = Append(@, p)], b}
    BY <1>3 DEF XioSend
<1>5. /\ [b EXCEPT !.link = Delivered(@, p)].client = b.client
      /\ [b EXCEPT !.xio[h].pending = Append(@, p)].client = b.client
    BY DEF b, Sound, System
<1>6. SendComplete([b EXCEPT !.link = Delivered(@, p)]).client = b.client
    BY <1>1, <1>5 DEF SendComplete
<1> QED BY <1>1, <1>2, <1>4, <1>5, <1>6

\* Setting the communicator's error state tells the truth.
LEMMA ErrorTells ==
    ASSUME NEW s, NEW t, Sound(t), Tells(s, t)
    PROVE  Tells(s, [t EXCEPT !.comm.state = "ERROR"])
<1> DEFINE u == [t EXCEPT !.comm.state = "ERROR"]
<1>1. Wanes(t, u)
    BY StateSetWanes
<1>2. u.client = t.client /\ u.comm.state = "ERROR"
    BY DEF Sound, System, Communicator
<1> HIDE DEF u
<1>3. Wanes(s, u)
    BY <1>1, WanesTwice DEF Tells
<1>4. Quiet(s, u)
    BY <1>2 DEF Tells, Quiet, Unregistered
<1> QED BY <1>2, <1>3, <1>4, ErrorReported DEF u

\* MQTT_Comm_Publish.
LEMMA CommPublishTells ==
    ASSUME NEW s, Sound(s), NEW o \in SendOutcomes
    PROVE  Tells(s, CommPublish(s, o))
<1> DEFINE t == ClientSend(s, "PUBLISH", o)
<1>1. Sound(t) /\ Tells(s, t)
    BY ClientSendKeeps, ClientSendTells DEF Keeps
<1> HIDE DEF t
<1>2. Tells(s, [t EXCEPT !.comm.state = "ERROR"])
    BY <1>1, ErrorTells
<1> QED BY <1>1, <1>2, TellsSame DEF CommPublish, t

\* MQTT_Comm_Subcribe, with the wrap of packetId.
LEMMA CommSubcribeTells ==
    ASSUME NEW s, Sound(s), NEW o \in SendOutcomes
    PROVE  Tells(s, CommSubcribe(s, o))
<1> DEFINE n == [s EXCEPT !.comm.packetId = NextPacketId(@)]
           t == ClientSend(n, "SUBSCRIBE", o)
<1>1. s.comm.packetId \in PacketIds
    BY DEF Sound, System, Communicator
<1>2. NextPacketId(s.comm.packetId) \in PacketIds
    BY <1>1, CommAssumption DEF NextPacketId, PacketIds
<1>3. /\ Sound(n) /\ n.client = s.client /\ n.xio = s.xio /\ n.link = s.link
      /\ n.comm.state = s.comm.state
    BY <1>2 DEF Sound, Live, System, Communicator
<1> HIDE DEF n
<1>4. Tells(s, n)
    BY <1>3, HangsUpUnseen, TellsUnseen
<1>5. Sound(t) /\ Tells(s, t)
    BY <1>3, <1>4, ClientSendKeeps, ClientSendTells, TellsTwice DEF Keeps
<1> HIDE DEF t
<1>6. /\ Tells(s, [n EXCEPT !.comm.state = "ERROR"])
      /\ Tells(s, [t EXCEPT !.comm.state = "ERROR"])
    BY <1>3, <1>4, <1>5, ErrorTells
<1> QED BY <1>4, <1>5, <1>6 DEF CommSubcribe, n, t

\* The same two calls over a plain socket.
LEMMA PlainCallsKeepSocket ==
    ASSUME NEW s, Sound(s), ~Tls, NEW o \in SendOutcomes
    PROVE  /\ CommPublish(s, o).client.socketConnected = s.client.socketConnected
           /\ CommSubcribe(s, o).client.socketConnected = s.client.socketConnected
<1> DEFINE n == [s EXCEPT !.comm.packetId = NextPacketId(@)]
           t == ClientSend(s, "PUBLISH", o)
           u == ClientSend(n, "SUBSCRIBE", o)
<1>1. s.comm.packetId \in PacketIds
    BY DEF Sound, System, Communicator
<1>2. NextPacketId(s.comm.packetId) \in PacketIds
    BY <1>1, CommAssumption DEF NextPacketId, PacketIds
<1>3. Sound(n) /\ n.client = s.client
    BY <1>2 DEF Sound, Live, System, Communicator
<1> HIDE DEF n
<1>4. /\ Sound(t) /\ t.client.socketConnected = s.client.socketConnected
      /\ Sound(u) /\ u.client.socketConnected = s.client.socketConnected
    BY <1>3, PlainSendKeepsSocket, ClientSendKeeps DEF Keeps
<1> HIDE DEF t, u
<1>5. \A v : Sound(v) => [v EXCEPT !.comm.state = "ERROR"].client = v.client
    BY DEF Sound, System
<1> QED BY <1>3, <1>4, <1>5 DEF CommPublish, CommSubcribe, t, u, n

\* An acknowledgement sent by recvCompleteCallback.
LEMMA AcknowledgeTells ==
    ASSUME NEW s, Sound(s), NEW p \in Requests, NEW o \in SendOutcomes
    PROVE  Tells(s, Acknowledge(s, p, o))
<1>1. Tells(s, SetError(s))
    BY TellsSame, SetErrorTells DEF Tells
<1>2. o # "noPacket" => Tells(s, SendPacketItem(s, p, o))
    BY SendPacketItemTells DEF SendOutcomes
<1> QED BY <1>1, <1>2 DEF Acknowledge

\* The PUBLISH branch of recvCompleteCallback, for each QoS.
LEMMA OnMessageTells ==
    ASSUME NEW s, Sound(s), NEW qos \in 0..2,
           NEW o1 \in SendOutcomes, NEW o2 \in SendOutcomes
    PROVE  Tells(s, OnMessage(s, qos, o1, o2))
<1> DEFINE t == CommPublish(s, o1)
<1>1. Sound(t) /\ Tells(s, t)
    BY CommPublishKeeps, CommPublishTells DEF Keeps
<1> HIDE DEF t
<1>2. Tells(s, Acknowledge(t, "PUBCOMP", o2)) /\ Tells(s, Acknowledge(t, "PUBREC", o2))
    <2>1. "PUBCOMP" \in Requests /\ "PUBREC" \in Requests
        BY DEF Requests
    <2> QED BY <1>1, <2>1, AcknowledgeTells, TellsTwice
<1>3. qos = 0 \/ qos = 1 \/ qos = 2
    OBVIOUS
<1> QED BY <1>1, <1>2, <1>3 DEF OnMessage, Acknowledge, t

\* recvCompleteCallback, for everything but a CONNACK.
LEMMA RecvCompleteTells ==
    ASSUME NEW s, Sound(s), NEW p \in Received \ {"CONNACK", "REFUSED"}, NEW qos \in 0..2,
           NEW o1 \in SendOutcomes, NEW o2 \in SendOutcomes
    PROVE  Tells(s, RecvComplete(s, p, qos, o1, o2))
<1>1. Tells(s, s)
    BY TellsSame
<1>2. Tells(s, OnMessage(s, qos, o1, o2))
    BY OnMessageTells
<1>3. Tells(s, CommPublish(s, o1))
    BY CommPublishTells
<1>4. Tells(s, Acknowledge(s, "PUBREL", o1)) /\ Tells(s, Acknowledge(s, "PUBCOMP", o1))
    BY AcknowledgeTells DEF Requests
<1>5. Tells(s, PingResp(s))
    <2> DEFINE t == PingResp(s)
    <2>1. /\ t.client.clientConnected = s.client.clientConnected
          /\ t.client.socketConnected = s.client.socketConnected
          /\ t.client.xioHandle = s.client.xioHandle
          /\ t.client.disconnect_cb = s.client.disconnect_cb
          /\ t.client.closedCalls = s.client.closedCalls
          /\ t.client.packetState = s.client.packetState
          /\ t.comm = s.comm /\ t.xio = s.xio /\ t.link.accepted = s.link.accepted
          /\ t.link.net = s.link.net /\ t.link.asked = s.link.asked
        BY DEF PingResp, Sound, System, Client, Link
    <2> HIDE DEF t
    <2>2. Courteous(s, t)
        BY <2>1 DEF Courteous, Ungreeted
    <2>3. Tells(s, t)
        BY <2>1, <2>2, TellsUnseen
    <2> QED BY <2>3 DEF t
<1>6. Tells(s, SetError(s))
    BY <1>1, SetErrorTells DEF Tells
<1> QED BY <1>1, <1>2, <1>3, <1>4, <1>5, <1>6 DEF RecvComplete, Received, Replies

\* MQTT_Comm_OnOperationComplete sets the state before the application is called.
Announced(s) == [s EXCEPT !.comm.state = "CONNECTED"]

\* Afterwards the client remembers that the broker has accepted.
Accepted(s, p) == IF p = "CONNACK" THEN [s EXCEPT !.client.clientConnected = TRUE] ELSE s

\* CONNACK and a refusal: what the application's callback leaves of the session.
LEMMA OnConnAckTells ==
    ASSUME NEW s, Sound(s), NEW p, NEW o1 \in SendOutcomes, NEW o2 \in SendOutcomes
    PROVE  \E v : /\ Sound(v) /\ Tells(Announced(s), v)
                  /\ ~Tls => v.client.socketConnected = s.client.socketConnected
                  /\ OnConnAck(s, p, o1, o2) = Accepted(v, p)
<1> DEFINE c == Announced(s)
           u == CommPublish(c, o1)
           v == CommSubcribe(u, o2)
<1>1. Sound(c) /\ c.client = s.client
    BY StateSet DEF Announced, CommStates, Keeps, Sound, System
<1>2. OnConnAck(s, p, o1, o2) = Accepted(v, p)
    BY DEF OnConnAck, Announced, Accepted
<1> HIDE DEF c
<1>3. Sound(u) /\ Tells(c, u) /\ (~Tls => u.client.socketConnected = c.client.socketConnected)
    BY <1>1, CommPublishKeeps, CommPublishTells, PlainCallsKeepSocket DEF Keeps
<1> HIDE DEF u
<1>4. Sound(v) /\ Tells(u, v) /\ (~Tls => v.client.socketConnected = u.client.socketConnected)
    BY <1>3, CommSubcribeKeeps, CommSubcribeTells, PlainCallsKeepSocket DEF Keeps
<1> HIDE DEF v
<1>6. Tells(c, v)
    BY <1>3, <1>4, TellsTwice
<1> QED BY <1>1, <1>2, <1>3, <1>4, <1>6 DEF c

\* The keep-alive half of mqtt_client_dowork.
LEMMA KeepAliveCheckTells ==
    ASSUME NEW s, Sound(s), NEW o \in SendOutcomes
    PROVE  Tells(s, KeepAliveCheck(s, o))
<1> DEFINE e == SetError(s)
           t == [e EXCEPT !.client.timeSincePing = 0,
                          !.client.packetSendTimeMs = 0,
                          !.client.packetState = "UNKNOWN"]
           p == SendPacketItem(s, "PINGREQ", o)
           u == [p EXCEPT !.client.timeSincePing = s.now]
<1>1. Tells(s, s)
    BY TellsSame
<1>2. Tells(s, t)
    <2>1. Sound(e) /\ Tells(s, e)
        BY <1>1, SetErrorKeeps, SetErrorTells DEF Keeps, Tells
    <2> HIDE DEF e
    <2>2. /\ t.client.clientConnected = e.client.clientConnected
          /\ t.client.socketConnected = e.client.socketConnected
          /\ t.client.xioHandle = e.client.xioHandle
          /\ t.client.disconnect_cb = e.client.disconnect_cb
          /\ t.client.closedCalls = e.client.closedCalls
          /\ t.client.packetState # "DISCONNECT"
          /\ t.comm = e.comm /\ t.xio = e.xio /\ t.link = e.link
        BY <2>1 DEF Sound, System, Client
    <2> HIDE DEF t
    <2> QED BY <2>1, <2>2, HangsUpUnseen, TellsUnseen, TellsTwice
<1>3. ASSUME o # "noPacket" PROVE Tells(s, u)
    <2>1. o \in XioSendOutcomes /\ "PINGREQ" \in Requests
        BY <1>3 DEF SendOutcomes, Requests
    <2>2. Sound(p) /\ Tells(s, p)
        BY <2>1, SendPacketItemKeeps, SendPacketItemTells DEF Keeps
    <2> HIDE DEF p
    <2>3. /\ u.client.clientConnected = p.client.clientConnected
          /\ u.client.socketConnected = p.client.socketConnected
          /\ u.client.xioHandle = p.client.xioHandle
          /\ u.client.disconnect_cb = p.client.disconnect_cb
          /\ u.client.closedCalls = p.client.closedCalls
          /\ u.client.packetState = p.client.packetState
          /\ u.comm = p.comm /\ u.xio = p.xio /\ u.link = p.link
        BY <2>2 DEF Sound, System, Client
    <2> HIDE DEF u
    <2> QED BY <2>2, <2>3, HangsUpUnseen, TellsUnseen, TellsTwice
<1> HIDE DEF t, u
<1>4. KeepAliveCheck(s, o) \in {s, t} \/ (o # "noPacket" /\ KeepAliveCheck(s, o) = u)
    BY DEF KeepAliveCheck, t, u
<1> QED BY <1>1, <1>2, <1>3, <1>4

-----------------------------------------------------------------------------
\* onOpenComplete on a transport that could not be opened.
LEMMA OpenFailedTells ==
    ASSUME NEW s, Sound(s), NEW o
    PROVE  LET t == OnOpenComplete(s, FALSE, o)
           IN  /\ Wanes(s, t) /\ Quiet(s, t)
               /\ ~s.client.socketConnected =>
                      t.comm.state = "ERROR" /\ t.client.xioHandle = s.client.xioHandle
               /\ s.client.socketConnected => t.client.xioHandle = NULL
<1> DEFINE e == [s EXCEPT !.comm.state = "ERROR"]
<1>1. CASE s.client.socketConnected
    BY <1>1, CloseConnectionWanes DEF OnOpenComplete
<1>2. CASE ~s.client.socketConnected
    <2>1. OnOpenComplete(s, FALSE, o) = SetError(s)
        BY <1>2 DEF OnOpenComplete, SetError
    <2>2. Tells(s, SetError(s)) /\ SetError(s).comm.state = "ERROR"
        BY TellsSame, SetErrorTells DEF Tells
    <2>3. SetError(s).client.xioHandle = s.client.xioHandle
        <3>1. Sound(e) /\ e.client = s.client
            BY StateSet DEF Keeps, CommStates, Sound, System
        <3>2. SetError(s) = CallDisconnectCb(e)
            BY <1>2, <3>1 DEF SetError, CloseConnection
        <3> HIDE DEF e
        <3>3. CallDisconnectCb(e).client.xioHandle = e.client.xioHandle
            BY <3>1 DEF CallDisconnectCb, Sound, System, Client
        <3> QED BY <3>1, <3>2, <3>3
    <2> QED BY <1>2, <2>1, <2>2, <2>3 DEF Tells
<1> QED BY <1>1, <1>2

\* A successful mqtt_client_connect leaves a client whose transport is open, unless
\* it reports an error or, over a plain socket, has closed the transport itself.
Connected(s) ==
    /\ Held(s)
    /\ s.client.clientConnected => s.client.socketConnected
    /\ s.client.clientConnected => ~OnOpenTransport(s)
    /\ s.comm.state \in {"CONNECTED", "CONNECTING"} =>
           /\ s.client.xioHandle # NULL => s.client.socketConnected
           /\ Tls => Opened(s)

\* onOpenComplete on an open transport, for a client without a session.
LEMMA OpenedTells ==
    ASSUME NEW s, Sound(s), NEW o \in SendOutcomes, OnOpenTransport(s),
           ~s.client.clientConnected, ~s.client.socketConnected,
           Tls => s.xio[s.client.xioHandle].tls = "shaken"
    PROVE  LET t == OnOpenComplete(s, TRUE, o) IN Connected(t) /\ Quiet(s, t)
<1> DEFINE r == [s EXCEPT !.client.packetState = "CONNECT",
                          !.client.socketConnected = TRUE]
           t == ClientSend(r, "CONNECT", o)
<1>1. OnOpenComplete(s, TRUE, o) = t
    BY DEF OnOpenComplete
<1>2. /\ Sound(r) /\ r.client.socketConnected /\ ~r.client.clientConnected
      /\ r.client.xioHandle = s.client.xioHandle /\ r.xio = s.xio
      /\ r.client.disconnect_cb = s.client.disconnect_cb
      /\ r.client.packetState = "CONNECT"
      /\ r.client.closedCalls = s.client.closedCalls
      /\ r.comm = s.comm
    BY DEF Sound, Live, System, Client, PacketStates
<1> HIDE DEF r
<1>3. Opened(r) /\ Held(r)
    BY <1>2 DEF Opened, OnOpenTransport, IsOpen, Held
<1>4. Tells(r, t)
    BY <1>2, ClientSendTells
<1> HIDE DEF t
<1>5. Connected(t)
    BY <1>2, <1>3, <1>4 DEF Tells, Wanes, Reported, Connected, Opened
<1>6. Quiet(s, t)
    BY <1>2, <1>4 DEF Tells, Quiet, Unregistered
<1> QED BY <1>1, <1>5, <1>6

\* A transport is opened, on a new connection.
Opening(s, h, c, l) == [s EXCEPT !.xio[h].st = "open", !.xio[h].tls = c, !.link = l]

\* Opening a transport leaves the client and the other handles alone.
LEMMA OpeningAlone ==
    ASSUME NEW s, Sound(s), NEW h \in Handles, h = s.comm.xioHandle,
           NEW c \in TlsContexts, NEW l \in Link
    PROVE  LET t == Opening(s, h, c, l)
           IN  /\ Sound(t) /\ t.client = s.client /\ t.comm = s.comm
               /\ t.xio[h].st = "open" /\ t.xio[h].tls = c
<1> DEFINE t == Opening(s, h, c, l)
           x == [s.xio[h] EXCEPT !.st = "open", !.tls = c]
<1>1. s.xio \in [Handles -> Transport] /\ s.xio[h] \in Transport
    BY DEF Sound, System
<1>2. x.st = "open" /\ x.tls = c
    BY <1>1 DEF Transport
<1>3. t.client = s.client /\ t.comm = s.comm /\ t.xio = [s.xio EXCEPT ![h] = x]
    BY <1>1 DEF Opening, Sound, System
<1>4. Sound(t)
    BY OpenedKeeps DEF Opening, Keeps
<1> HIDE DEF t, x
<1> QED BY <1>1, <1>2, <1>3, <1>4 DEF t

\* So does a handshake that uses up the TLS context.
LEMMA ContextAlone ==
    ASSUME NEW s, Sound(s), NEW h \in Handles
    PROVE  LET t == [s EXCEPT !.xio[h].tls = "used"]
           IN  t.client = s.client /\ t.comm = s.comm
BY DEF Sound, System

\* mqtt_client_connect, on a transport that was never opened.
LEMMA ConnectTells ==
    ASSUME NEW s, s \in System, Live(s), s.comm.xioHandle # NULL, Untouched(s),
           NEW open \in OpenOutcomes, NEW o \in SendOutcomes,
           s.client.clientConnected => s.client.socketConnected,
           Tls => ~s.client.socketConnected
    PROVE  LET t == Connect(s, s.comm.xioHandle, open, o)
           IN  /\ Quiet(s, t)
               /\ t.client.clientConnected => t.client.socketConnected
               /\ ConnectSucceeds(s, s.comm.xioHandle, open) => Connected(t)
               /\ ~ConnectSucceeds(s, s.comm.xioHandle, open) =>
                      (Tls => ~t.client.socketConnected)
<1> DEFINE h == s.comm.xioHandle
           t == [s EXCEPT !.client.xioHandle = h, !.client.packetState = "UNKNOWN"]
           k == IF Tls THEN "shaken" ELSE "fresh"
           u == [t EXCEPT !.xio[h].st = "open", !.link = FreshLink,
                          !.xio[h].tls = IF Tls THEN "shaken" ELSE "fresh"]
           f == OnOpenComplete(t, FALSE, o)
           l == [FreshLink EXCEPT !.net = "reset"]
           v == [f EXCEPT !.xio[h].st = "open", !.xio[h].tls = "shaken",
                          !.link = [FreshLink EXCEPT !.net = "reset"]]
           w == [f EXCEPT !.xio[h].tls = "used"]
           cu == OnOpenComplete(u, TRUE, o)
           cv == OnOpenComplete(v, TRUE, o)
<1>1. h \in Handles
    BY DEF System, Communicator
<1>2. s.xio[h].st = "closed"
    BY DEF Untouched, NewTransport, NoTransport
<1>3. /\ Sound(t) /\ t.comm = s.comm /\ t.client.xioHandle = h
      /\ t.client.socketConnected = s.client.socketConnected
      /\ t.client.clientConnected = s.client.clientConnected
      /\ Quiet(s, t)
    BY DEF Sound, Live, System, Client, Communicator, PacketStates, Quiet, Unregistered
<1>4. Connect(s, h, open, o) = CASE open = "noMem"   -> t
                                 [] open = "ok"      -> cu
                                 [] open = "late"    -> cv
                                 [] open = "tlsFail" -> w
                                 [] OTHER            -> f
    <2>1. Connect(s, h, open, o) =
            IF h = NULL THEN s
            ELSE IF open = "noMem" THEN t
            ELSE IF s.xio[h].st # "closed" THEN IF Tls THEN t ELSE f
            ELSE CASE open = "ok"      -> cu
                   [] open = "late"    -> cv
                   [] open = "tlsFail" -> w
                   [] OTHER            -> f
        BY DEF Connect
    <2>2. h # NULL
        OBVIOUS
    <2> HIDE DEF h, cu, cv, w, f, t
    <2> QED BY <1>2, <2>1, <2>2
<1>5. u = Opening(t, h, k, FreshLink) /\ v = Opening(f, h, "shaken", l)
    BY <1>1, <1>3 DEF Opening, Sound, System
<1>6. /\ FreshLink \in Link /\ l \in Link
      /\ k \in TlsContexts /\ "shaken" \in TlsContexts
    BY DEF FreshLink, NoLink, Link, TlsContexts
<1> HIDE DEF t, u, l, k, v
<1>7. Sound(u) /\ u.client = t.client /\ u.comm = t.comm
      /\ u.xio[h].st = "open" /\ u.xio[h].tls = k
    BY <1>1, <1>3, <1>5, <1>6, OpeningAlone
<1>8. /\ Sound(f) /\ f.comm.xioHandle = h /\ Wanes(t, f) /\ Quiet(t, f)
      /\ ~t.client.socketConnected => f.comm.state = "ERROR" /\ f.client.xioHandle = h
      /\ t.client.socketConnected => f.client.xioHandle = NULL
    <2>1. Keeps(t, f)
        BY <1>3, OnOpenCompleteKeeps
    <2>2. /\ Wanes(t, f) /\ Quiet(t, f)
          /\ ~t.client.socketConnected =>
                 f.comm.state = "ERROR" /\ f.client.xioHandle = t.client.xioHandle
          /\ t.client.socketConnected => f.client.xioHandle = NULL
        BY <1>3, OpenFailedTells
    <2> HIDE DEF f
    <2> QED BY <1>3, <2>1, <2>2 DEF Keeps
<1> HIDE DEF f
<1>9. Sound(v) /\ v.client = f.client /\ v.comm = f.comm
      /\ v.xio[h].st = "open" /\ v.xio[h].tls = "shaken"
    BY <1>1, <1>5, <1>6, <1>8, OpeningAlone
<1>10. w.client = f.client /\ w.comm = f.comm
    BY <1>1, <1>8, ContextAlone
<1> HIDE DEF w
<1>11. Quiet(s, u) /\ Quiet(s, f) /\ Quiet(s, v) /\ Quiet(s, w)
    BY <1>3, <1>7, <1>8, <1>9, <1>10 DEF Quiet, Unregistered
<1>12. f.client.clientConnected => f.client.socketConnected
    BY <1>3, <1>8 DEF Wanes
<1>13. Connected(cu) /\ Quiet(s, cu)
    <2>1. CASE s.client.socketConnected
        <3>1. cu = CloseConnection(u)
            BY <1>3, <1>7, <2>1 DEF OnOpenComplete
        <3>2. Wanes(u, cu) /\ Quiet(u, cu) /\ cu.client.xioHandle = NULL
            BY <1>3, <1>7, <2>1, <3>1, CloseConnectionWanes
        <3> HIDE DEF cu
        <3>3. ~Tls /\ ~OnOpenTransport(cu)
            BY <2>1, <3>2 DEF OnOpenTransport, IsOpen
        <3>4. cu.client.clientConnected => cu.client.socketConnected
            BY <1>3, <1>7, <2>1, <3>2 DEF Wanes
        <3> QED BY <1>11, <3>2, <3>3, <3>4, QuietTwice DEF Connected, Held
    <2>2. CASE ~s.client.socketConnected
        <3>1. OnOpenTransport(u) /\ (Tls => u.xio[u.client.xioHandle].tls = "shaken")
            BY <1>1, <1>3, <1>7, XioAssumption DEF OnOpenTransport, IsOpen, k
        <3>2. ~u.client.clientConnected /\ ~u.client.socketConnected
            BY <1>3, <1>7, <2>2
        <3>3. Connected(cu) /\ Quiet(u, cu)
            BY <1>7, <3>1, <3>2, OpenedTells
        <3> HIDE DEF cu
        <3> QED BY <1>11, <3>3, QuietTwice
    <2> QED BY <2>1, <2>2
<1>14. open \in {"late", "tlsFail"} => Tls
    BY DEF OpenOutcomes
<1>15. ASSUME open = "late" PROVE Connected(cv) /\ Quiet(s, cv)
    <2>1. /\ ~f.client.socketConnected /\ ~f.client.clientConnected
          /\ f.client.xioHandle = h
        BY <1>3, <1>8, <1>12, <1>14, <1>15 DEF Wanes
    <2>2. OnOpenTransport(v) /\ v.xio[v.client.xioHandle].tls = "shaken"
        BY <1>1, <1>9, <2>1, XioAssumption DEF OnOpenTransport, IsOpen
    <2>3. Connected(cv) /\ Quiet(v, cv)
        BY <1>9, <2>1, <2>2, OpenedTells
    <2> HIDE DEF cv
    <2> QED BY <1>11, <2>3, QuietTwice
<1>16. ASSUME open = "tlsFail" PROVE Connected(w)
    <2>1. ~w.client.socketConnected /\ ~w.client.clientConnected /\ w.comm.state = "ERROR"
        BY <1>3, <1>8, <1>10, <1>12, <1>14, <1>16 DEF Wanes
    <2> QED BY <2>1 DEF Connected, Held
<1>17. Tls => ~t.client.socketConnected /\ ~f.client.socketConnected
    BY <1>3, <1>8 DEF Wanes
<1>18. ConnectSucceeds(s, h, open) <=> open \in {"ok", "late", "tlsFail"}
    BY <1>2 DEF ConnectSucceeds, OpenOutcomes
<1> DEFINE r == Connect(s, h, open, o)
<1>19. r = (CASE open = "noMem"   -> t
              [] open = "ok"      -> cu
              [] open = "late"    -> cv
              [] open = "tlsFail" -> w
              [] OTHER            -> f)
    BY <1>4
<1> HIDE DEF r, cu, cv
<1>20. open \in {"ok", "error", "noMem", "tlsFail", "late"}
    BY DEF OpenOutcomes
<1>21. CASE open = "ok"
    BY <1>13, <1>18, <1>19, <1>21 DEF Connected, r, h
<1>22. CASE open = "late"
    BY <1>15, <1>18, <1>19, <1>22 DEF Connected, r, h
<1>23. CASE open = "tlsFail"
    BY <1>11, <1>16, <1>18, <1>19, <1>23 DEF Connected, r, h
<1>24. CASE open = "noMem"
    BY <1>3, <1>17, <1>18, <1>19, <1>24 DEF r, h
<1>25. CASE open = "error"
    BY <1>11, <1>12, <1>17, <1>18, <1>19, <1>25 DEF r, h
<1> QED BY <1>20, <1>21, <1>22, <1>23, <1>24, <1>25

-----------------------------------------------------------------------------
(***************************************************************************)
(* What holds of the session in state s while the task is at place p with  *)
(* the packets c still to be dispatched, except in a call that never       *)
(* returns.                                                                *)
(*   - The flags end together; only over TLS may the dispatch of CONNACK,  *)
(*     whose callback has lost the connection, set one of them again, and  *)
(*     then the next step of the decode loop does not return.              *)
(*   - A client in use that has a handle believes in its socket.           *)
(*   - A session is that of the connection behind the handle.              *)
(*   - Over TLS nothing is left of a session when its transport is         *)
(*     replaced, and MQTT_CONNECTED is reported only on an open transport. *)
(*   - CONNACK is dispatched first, on the connection it came from.        *)
(***************************************************************************)
Replaced(s, p) == p = "connecting" \/ (p = "loop" /\ s.comm.state = "CONNECTING")

OnlySession(s, p, c) ==
    /\ Held(s)
    /\ s.client.clientConnected /\ ~s.client.socketConnected =>
           Tls /\ s.client.xioHandle = NULL /\ p = "recv" /\ c # <<>>
    /\ p \in {"flush", "recv"} \/ (p = "loop" /\ s.comm.state = "CONNECTED") =>
           (s.client.xioHandle # NULL => s.client.socketConnected)
    /\ \/ Replaced(s, p)
       \/ s.client.clientConnected /\ OnOpenTransport(s) => s.link.accepted
    /\ Tls /\ Replaced(s, p) => ~s.client.socketConnected
    /\ Tls /\ p # "connecting" /\ s.comm.state = "CONNECTED" => Opened(s)

ConnAckFirst(s, p, c) ==
    /\ c # <<>> => p = "recv"
    /\ \A i \in DOMAIN c : c[i] \in {"CONNACK", "REFUSED"} =>
           i = 1 /\ Opened(s) /\ (c[i] = "CONNACK" => s.link.accepted)

SessionAt(s, p, c) == OnlySession(s, p, c) /\ ConnAckFirst(s, p, c)

Session == pc # "hung" => SessionAt(State, pc, chunk)

SessionInv == IInv /\ Session

\* Over a plain socket every step but those of mqtt_client_disconnect is quiet.
Quietly == ~Tls => Quiet(State, State')

-----------------------------------------------------------------------------
\* An action that leads to s at p keeps Session if s is as Session demands at p.
LEMMA BecomeSession ==
    ASSUME NEW s, NEW p, Become(s, p), p = "hung" \/ SessionAt(s, p, chunk')
    PROVE  Session'
<1>1. /\ State'.client = s.client /\ State'.comm = s.comm
      /\ State'.xio = s.xio /\ State'.link = s.link /\ pc' = p
    BY DEF Become, State
<1>2. CASE p = "hung"
    BY <1>1, <1>2 DEF Session
<1>3. CASE SessionAt(s, p, chunk')
    <2> DEFINE t == State'
    <2>1. t.client = s.client /\ t.comm = s.comm /\ t.xio = s.xio /\ t.link = s.link
        BY <1>1
    <2> HIDE DEF t
    <2>2. /\ Held(t) <=> Held(s)
          /\ OnOpenTransport(t) <=> OnOpenTransport(s)
          /\ Opened(t) <=> Opened(s)
          /\ \A q : Replaced(t, q) <=> Replaced(s, q)
        BY <2>1 DEF Held, OnOpenTransport, Opened, IsOpen, Replaced
    <2>3. OnlySession(t, p, chunk')
        BY <1>3, <2>1, <2>2 DEF SessionAt, OnlySession
    <2>4. ConnAckFirst(t, p, chunk')
        BY <1>3, <2>1, <2>2 DEF SessionAt, ConnAckFirst
    <2>5. SessionAt(t, p, chunk')
        BY <2>3, <2>4 DEF SessionAt
    <2> QED BY <1>1, <2>5 DEF Session, t
<1> QED BY <1>2, <1>3

\* And is quiet if s is reached quietly.
LEMMA BecomeQuietly ==
    ASSUME NEW s, NEW p, Become(s, p), Tls \/ Quiet(State, s)
    PROVE  Quietly
<1>1. State'.client = s.client /\ State'.comm = s.comm
    BY DEF Become, State
<1> QED BY <1>1 DEF Quietly, Quiet, Unregistered

\* A part of mqtt_client_dowork, from s at p with packets c to t at q with packets d.
LEMMA TurnSession ==
    ASSUME NEW s, Sound(s), NEW p \in {"flush", "recv"}, NEW c \in Seq(Received),
           SessionAt(s, p, c), NEW t, Tells(s, t), t.comm.state # "CONNECTING",
           NEW q \in {"flush", "recv", "loop"}, NEW d,
           \/ c = <<>> /\ d = <<>>
           \/ c # <<>> /\ d = Tail(c) /\ q = "recv",
           c # <<>> /\ d = <<>> /\ Tls => OnOpenTransport(t)
    PROVE  SessionAt(t, q, d)
<1>1. Held(t)
    BY DEF SessionAt, OnlySession, Tells, Wanes
<1>2. t.client.clientConnected /\ ~t.client.socketConnected =>
           Tls /\ t.client.xioHandle = NULL /\ q = "recv" /\ d # <<>>
    <2> SUFFICES ASSUME t.client.clientConnected, ~t.client.socketConnected
                 PROVE  Tls /\ t.client.xioHandle = NULL /\ q = "recv" /\ d # <<>>
        OBVIOUS
    <2>1. s.client.clientConnected /\ ~s.client.socketConnected
        BY DEF Tells, Wanes
    <2>2. Tls /\ s.client.xioHandle = NULL /\ c # <<>>
        BY <2>1 DEF SessionAt, OnlySession
    <2>3. t.client.xioHandle = NULL
        BY <2>2 DEF Tells, Wanes
    <2> QED BY <2>2, <2>3 DEF OnOpenTransport, IsOpen
<1>3. t.client.xioHandle # NULL => t.client.socketConnected
    BY DEF SessionAt, OnlySession, Tells, Wanes
<1>4. t.client.clientConnected /\ OnOpenTransport(t) => t.link.accepted
    <2> SUFFICES ASSUME t.client.clientConnected, OnOpenTransport(t)
                 PROVE  t.link.accepted
        OBVIOUS
    <2>1. t.client.xioHandle # NULL
        BY DEF OnOpenTransport, IsOpen
    <2>2. s.client.clientConnected /\ OnOpenTransport(s) /\ s.link.accepted = t.link.accepted
        BY <2>1 DEF Tells, Wanes
    <2> QED BY <2>2 DEF SessionAt, OnlySession, Replaced
<1>5. ~Replaced(t, q)
    BY DEF Replaced
<1>6. Tls /\ t.comm.state = "CONNECTED" => Opened(t)
    BY DEF SessionAt, OnlySession, Tells, Reported
<1>7. ConnAckFirst(t, q, d)
    <2>1. CASE d = <<>>
        BY <2>1 DEF ConnAckFirst
    <2>2. CASE d # <<>>
        <3>1. c # <<>> /\ d = Tail(c) /\ q = "recv"
            BY <2>2
        <3>2. \A i \in DOMAIN d : i + 1 \in DOMAIN c /\ d[i] = c[i + 1] /\ i + 1 # 1
            BY <3>1
        <3> QED BY <3>1, <3>2 DEF SessionAt, ConnAckFirst
    <2> QED BY <2>1, <2>2
<1> QED BY <1>1, <1>2, <1>3, <1>4, <1>5, <1>6, <1>7 DEF SessionAt, OnlySession

\* Inside a dowork the current state is sound, with the session as Session says.
LEMMA InDoWork ==
    ASSUME SessionInv, pc \in {"flush", "recv"}
    PROVE  /\ Sound(State) /\ State.comm.state # "CONNECTING"
           /\ SessionAt(State, pc, chunk) /\ chunk \in Seq(Received)
           /\ pc = "flush" => chunk = <<>>
BY StateSound DEF SessionInv, Session, Reconnecting, IInv, TypeOK, SessionAt, ConnAckFirst

\* Freeing the transport ends the session: over TLS because its close notification
\* fails.
LEMMA DiscardEndsSession ==
    ASSUME NEW s, Sound(s), Held(s), s.client.clientConnected => s.client.socketConnected
    PROVE  LET d == Discard(s)
           IN  /\ d.client.clientConnected => d.client.socketConnected
               /\ Tls => ~d.client.socketConnected
               /\ Quiet(s, d)
<1> DEFINE h == s.comm.xioHandle
           c == Shut(s, h)
           e == [c EXCEPT !.xio[h].st = "error"]
           n == IF Tls /\ h # NULL /\ c.xio[h].tls = "shaken" THEN SetError(e) ELSE c
           d == [n EXCEPT !.xio[h] = NoTransport, !.link = NoLink]
<1>1. CASE h = NULL
    <2>1. Discard(s) = s
        BY <1>1 DEF Discard, XioCloseQuietly, XioDestroy
    <2>2. s.client.xioHandle = NULL
        BY <1>1 DEF Sound
    <2>3. Quiet(s, s)
        BY TellsSame DEF Tells
    <2> QED BY <2>1, <2>2, <2>3 DEF Held
<1>2. CASE h # NULL
    <2>1. h \in Handles
        BY <1>2 DEF Sound, System, Communicator
    <2>2. Sound(c) /\ c.client = s.client /\ c.comm = s.comm
        BY <2>1, ShutKeeps, ShutAlone DEF Keeps
    <2>3. c.xio[h].tls = s.xio[h].tls
        <3>1. s.xio \in [Handles -> Transport] /\ s.xio[h] \in Transport
            BY <2>1 DEF Sound, System
        <3>2. c.xio = [s.xio EXCEPT ![h].st = "closed"]
            BY DEF Shut, Sound, System
        <3> HIDE DEF c, h
        <3> QED BY <2>1, <3>1, <3>2 DEF Transport
    <2> HIDE DEF c
    <2>4. Sound(e) /\ e.client = s.client /\ e.comm = s.comm
        BY <2>1, <2>2, ErrorMarked DEF Keeps, Sound, System
    <2>5. e.xio[h].st = "error" /\ e.xio[h].tls = c.xio[h].tls
        <3>1. c.xio \in [Handles -> Transport] /\ c.xio[h] \in Transport
            BY <2>1, <2>2 DEF Sound, System
        <3>2. e.xio = [c.xio EXCEPT ![h].st = "error"]
            BY <2>2 DEF Sound, System
        <3> HIDE DEF e
        <3> QED BY <2>1, <3>1, <3>2 DEF Transport
    <2> HIDE DEF e
    <2> DEFINE x == SetError(e)
    <2>6. /\ Wanes(e, x) /\ Quiet(e, x) /\ Sound(x)
          /\ e.client.socketConnected => x.client.xioHandle = NULL
        <3>1. Wanes(e, e) /\ Quiet(e, e)
            BY TellsSame DEF Tells
        <3> QED BY <2>4, <3>1, SetErrorTells, SetErrorKeeps DEF Tells, Keeps
    <2>7. n = IF Tls /\ c.xio[h].tls = "shaken" THEN x ELSE c
        BY <1>2
    <2>8. Discard(s) = d
        BY <1>2 DEF Discard, XioCloseQuietly, XioDestroy, n, e, c, d
    <2> HIDE DEF x, n
    <2>9. Tls => ~n.client.socketConnected
        <3> SUFFICES ASSUME Tls, n.client.socketConnected PROVE FALSE
            OBVIOUS
        <3>1. s.client.socketConnected
            BY <2>2, <2>4, <2>6, <2>7 DEF Wanes
        <3>2. s.client.xioHandle = h /\ s.xio[h].tls = "shaken"
            BY <3>1 DEF Held, Sound
        <3>3. n = x /\ Held(e)
            BY <1>2, <2>3, <2>4, <2>5, <2>7, <3>2 DEF Held
        <3>4. Held(x) /\ x.client.xioHandle = NULL
            BY <2>4, <2>6, <3>1, <3>3 DEF Wanes
        <3> QED BY <3>3, <3>4 DEF Held
    <2>10. n.client.clientConnected => n.client.socketConnected
        BY <2>2, <2>4, <2>6, <2>7 DEF Wanes
    <2>11. Quiet(s, n)
        BY <2>2, <2>4, <2>6, <2>7 DEF Quiet, Unregistered
    <2>12. d.client = n.client /\ d.comm = n.comm
        BY <2>2, <2>6, <2>7 DEF Sound, System
    <2> HIDE DEF d
    <2> QED BY <2>8, <2>9, <2>10, <2>11, <2>12 DEF Quiet, Unregistered
<1> QED BY <1>1, <1>2

\* Between two doworks nothing is left to be dispatched.
LEMMA AtLoop ==
    ASSUME SessionInv, pc \in {"loop", "connecting"}
    PROVE  /\ SessionAt(State, pc, chunk) /\ chunk = <<>> /\ Held(State)
           /\ State.client.clientConnected => State.client.socketConnected
           /\ Tls /\ Replaced(State, pc) => ~State.client.socketConnected
BY DEF SessionInv, Session, SessionAt, OnlySession, ConnAckFirst

\* A transport is replaced only when the session on the old one has ended, or, over a
\* plain socket, has been forgotten together with the belief in the socket.
LEMMA ReplacedSession ==
    ASSUME NEW s, NEW p \in {"loop", "connecting"}, Replaced(s, p),
           s.client.clientConnected => s.client.socketConnected,
           Tls => ~s.client.socketConnected
    PROVE  SessionAt(s, p, <<>>)
<1>1. OnlySession(s, p, <<>>)
    BY DEF OnlySession, Held, Replaced
<1>2. ConnAckFirst(s, p, <<>>)
    BY DEF ConnAckFirst
<1> QED BY <1>1, <1>2 DEF SessionAt

\* The task starts without a session.
LEMMA InitSession == ASSUME Init PROVE Session
<1>1. /\ State.client.clientConnected = FALSE /\ State.client.socketConnected = FALSE
      /\ State.comm.state = "CONNECTING" /\ pc = "loop" /\ chunk = <<>>
    BY DEF Init, State, NewClient
<1>2. SessionAt(State, "loop", <<>>)
    BY <1>1, ReplacedSession DEF Replaced
<1> QED BY <1>1, <1>2 DEF Session

\* What xio_create leaves alone, also with the communicator's next state.
LEMMA XioCreateAlone ==
    ASSUME NEW s, s \in System, NEW h \in Handles \cup {NULL}
    PROVE  LET t == [XioCreate(s, h) EXCEPT !.comm.state = "CONNECTING"]
           IN  t.client = s.client /\ t.comm.state = "CONNECTING"
BY DEF XioCreate, System, Communicator

\* case MQTT_ERROR.
LEMMA ReconnectSession == ASSUME SessionInv, Reconnect PROVE Session' /\ Quietly
<1> DEFINE s == Discard(State)
<1>1. Sound(State) /\ chunk' = <<>>
    BY StateSound, AtLoop DEF Reconnect, Reconnecting, SessionInv
<1>2. /\ s \in System
      /\ s.client.clientConnected => s.client.socketConnected
      /\ Tls => ~s.client.socketConnected
      /\ Quiet(State, s)
    BY <1>1, AtLoop, DiscardEmpties, DiscardEndsSession DEF Reconnect, Empty
<1>3. PICK h \in Handles \cup {NULL} :
        Become([XioCreate(s, h) EXCEPT !.comm.state = "CONNECTING"], "loop")
    BY DEF Reconnect, FreeHandles
<1> HIDE DEF s
<1> DEFINE t == [XioCreate(s, h) EXCEPT !.comm.state = "CONNECTING"]
<1>4. t.client = s.client /\ t.comm.state = "CONNECTING" /\ Become(t, "loop")
    BY <1>2, <1>3, XioCreateAlone
<1> HIDE DEF t
<1>5. SessionAt(t, "loop", <<>>)
    BY <1>2, <1>4, ReplacedSession DEF Replaced
<1>6. Quiet(State, t)
    BY <1>2, <1>4 DEF Quiet, Unregistered
<1> QED BY <1>1, <1>4, <1>5, <1>6, BecomeSession, BecomeQuietly

\* Entering the retry loop.
LEMMA StartConnectingSession == ASSUME SessionInv, StartConnecting PROVE Session' /\ Quietly
<1>1. chunk' = <<>> /\ Replaced(State, "loop")
    BY AtLoop DEF StartConnecting, Replaced, State
<1>2. SessionAt(State, "connecting", <<>>)
    BY <1>1, AtLoop, ReplacedSession DEF StartConnecting, Replaced
<1>3. Quiet(State, State)
    BY TellsSame DEF Tells
<1> QED BY <1>1, <1>2, <1>3, BecomeSession, BecomeQuietly DEF StartConnecting

\* A connect that has succeeded, before the next turn of the loop.
LEMMA ConnectedSession ==
    ASSUME NEW s, Sound(s), Connected(s)
    PROVE  LET t == [s EXCEPT !.comm.state = "CONNECTED"]
           IN  /\ s.comm.state # "CONNECTING" => SessionAt(s, "loop", <<>>)
               /\ s.comm.state = "CONNECTING" => SessionAt(t, "loop", <<>>)
<1> DEFINE t == [s EXCEPT !.comm.state = "CONNECTED"]
<1>1. t.client = s.client /\ t.xio = s.xio /\ t.link = s.link /\ t.comm.state = "CONNECTED"
    BY DEF Sound, System, Communicator
<1> HIDE DEF t
<1>2. s.comm.state # "CONNECTING" => OnlySession(s, "loop", <<>>)
    BY DEF Connected, OnlySession, Replaced
<1>3. Held(t) /\ (OnOpenTransport(t) <=> OnOpenTransport(s)) /\ (Opened(t) <=> Opened(s))
    BY <1>1 DEF Connected, Held, OnOpenTransport, Opened, IsOpen
<1>4. s.comm.state = "CONNECTING" => OnlySession(t, "loop", <<>>)
    BY <1>1, <1>3 DEF Connected, OnlySession, Replaced
<1>5. ConnAckFirst(s, "loop", <<>>) /\ ConnAckFirst(t, "loop", <<>>)
    BY DEF ConnAckFirst
<1> QED BY <1>2, <1>4, <1>5 DEF SessionAt, t

\* One attempt of the retry loop.
LEMMA TryConnectSession == ASSUME SessionInv, TryConnect PROVE Session' /\ Quietly
<1>1. PICK open \in OpenOutcomes, o \in SendOutcomes :
        LET s == Connect(State, comm.xioHandle, open, o)
        IN  IF ~ConnectSucceeds(State, comm.xioHandle, open)
            THEN Become(s, "connecting")
            ELSE IF s.comm.state = "CONNECTING"
            THEN Become([s EXCEPT !.comm.state = "CONNECTED"], "loop")
            ELSE Become(s, "loop")
    BY DEF TryConnect
<1> DEFINE h == comm.xioHandle
           s == Connect(State, h, open, o)
           t == [s EXCEPT !.comm.state = "CONNECTED"]
           ok == ConnectSucceeds(State, h, open)
<1>2. /\ State \in System /\ Live(State) /\ Untouched(State) /\ State.comm.xioHandle = h
      /\ chunk' = <<>>
      /\ State.client.clientConnected => State.client.socketConnected
      /\ Tls => ~State.client.socketConnected
    BY StateSound, AtLoop DEF SessionInv, TryConnect, Reconnecting, Replaced, State
<1>3. CASE h = NULL
    <2>1. Become(State, "connecting")
        BY <1>1, <1>3 DEF Connect, ConnectSucceeds
    <2>2. SessionAt(State, "connecting", <<>>)
        BY <1>2, ReplacedSession DEF Replaced
    <2>3. Quiet(State, State)
        BY TellsSame DEF Tells
    <2> QED BY <1>2, <2>1, <2>2, <2>3, BecomeSession, BecomeQuietly
<1>4. CASE h # NULL
    <2>1. /\ Sound(s) /\ Quiet(State, s)
          /\ s.client.clientConnected => s.client.socketConnected
          /\ ok => Connected(s)
          /\ ~ok => (Tls => ~s.client.socketConnected)
        BY <1>2, <1>4, ConnectSound, ConnectTells
    <2>2. \/ ~ok /\ Become(s, "connecting")
          \/ ok /\ s.comm.state = "CONNECTING" /\ Become(t, "loop")
          \/ ok /\ s.comm.state # "CONNECTING" /\ Become(s, "loop")
        BY <1>1
    <2> HIDE DEF s, ok
    <2>3. CASE ~ok /\ Become(s, "connecting")
        <3>1. SessionAt(s, "connecting", <<>>)
            BY <2>1, <2>3, ReplacedSession DEF Replaced
        <3> QED BY <1>2, <2>1, <2>3, <3>1, BecomeSession, BecomeQuietly
    <2>4. CASE ok /\ s.comm.state = "CONNECTING" /\ Become(t, "loop")
        <3>1. SessionAt(t, "loop", <<>>)
            BY <2>1, <2>4, ConnectedSession
        <3>2. Quiet(State, t)
            BY <2>1 DEF Quiet, Unregistered, Sound, System, Communicator
        <3> HIDE DEF t
        <3> QED BY <1>2, <2>4, <3>1, <3>2, BecomeSession, BecomeQuietly
    <2>5. CASE ok /\ s.comm.state # "CONNECTING" /\ Become(s, "loop")
        <3>1. SessionAt(s, "loop", <<>>)
            BY <2>1, <2>5, ConnectedSession
        <3> QED BY <1>2, <2>1, <2>5, <3>1, BecomeSession, BecomeQuietly
    <2> QED BY <2>2, <2>3, <2>4, <2>5
<1> QED BY <1>3, <1>4

\* A handshake that never returns.
LEMMA HandshakeStallsSession == ASSUME HandshakeStalls PROVE Session' /\ Quietly
BY DEF HandshakeStalls, Become, Session, Quietly

\* Entering mqtt_client_dowork.
LEMMA DoWorkSession == ASSUME SessionInv, DoWork PROVE Session' /\ Quietly
<1>1. chunk' = <<>> /\ State.comm.state = "CONNECTED" /\ SessionAt(State, "loop", <<>>)
    BY AtLoop DEF DoWork, State
<1>2. OnlySession(State, "flush", <<>>)
    BY <1>1 DEF SessionAt, OnlySession, Replaced
<1>3. SessionAt(State, "flush", <<>>)
    BY <1>2 DEF SessionAt, ConnAckFirst
<1>4. Quiet(State, State)
    BY TellsSame DEF Tells
<1> QED BY <1>1, <1>3, <1>4, BecomeSession, BecomeQuietly DEF DoWork

\* A pending send goes out.
LEMMA FlushSendsSession == ASSUME SessionInv, FlushSends PROVE Session' /\ Quietly
<1> DEFINE a == [State EXCEPT !.xio[client.xioHandle].pending = Tail(@)]
           q == Tail(Pending)
           l == Delivered(a.link, Head(Pending))
           b == [a EXCEPT !.link = Delivered(@, Head(Pending))]
<1>1. pc = "flush" /\ Pending # <<>> /\ Become(SendComplete(b), "flush") /\ chunk' = chunk
    BY DEF FlushSends
<1>2. /\ q \in Seq(Requests) /\ Head(Pending) \in Requests
      /\ client.xioHandle \in Handles
    BY <1>1, <<>> \in Seq(Requests), PendingReplaced DEF SessionInv
<1>3. a = [State EXCEPT !.xio[client.xioHandle].pending = q]
    BY <1>1 DEF Pending, State
<1> HIDE DEF q, a
<1>4. Keeps(State, a) /\ Tells(State, a)
    BY <1>1, <1>2, <1>3, InDoWork, PendingReplaced, PendingTells DEF SessionInv
<1>5. /\ l \in Link /\ l.accepted = a.link.accepted /\ Answers(a.link, l)
      /\ b = [a EXCEPT !.link = l]
    BY <1>2, <1>4, DeliveredType, DeliveredAccepted DEF Keeps, Sound, System
<1> HIDE DEF l, b
<1>6. Keeps(a, b) /\ Tells(a, b)
    BY <1>4, <1>5, LinkSet, LinkTells DEF Keeps
<1> DEFINE t == SendComplete(b)
<1>7. Keeps(b, t) /\ Tells(b, t)
    BY <1>6, SendCompleteKeeps, SendCompleteTells DEF Keeps
<1> HIDE DEF t
<1>8. Tells(State, t) /\ t.comm.state # "CONNECTING"
    BY <1>1, <1>4, <1>6, <1>7, TellsTwice, InDoWork DEF Keeps
<1>9. SessionAt(t, "flush", chunk)
    BY <1>1, <1>8, InDoWork, TurnSession
<1> QED BY <1>1, <1>8, <1>9, BecomeSession, BecomeQuietly DEF t, Tells

\* The flush ends.
LEMMA FlushEndsSession == ASSUME SessionInv, FlushEnds PROVE Session' /\ Quietly
<1>1. pc = "flush" /\ Become(State, "recv") /\ chunk' = chunk
    BY DEF FlushEnds
<1>2. SessionAt(State, "recv", chunk)
    BY <1>1, InDoWork, TellsSame, TurnSession
<1>3. Quiet(State, State)
    BY TellsSame DEF Tells
<1> QED BY <1>1, <1>2, <1>3, BecomeSession, BecomeQuietly

\* An io error reported to the client about the transport it works on.
LEMMA ReportIoErrorSession ==
    ASSUME SessionInv, pc \in {"flush", "recv"}, chunk = <<>>, NEW s, Sound(s),
           Wanes(State, s), Quiet(State, s),
           client.xioHandle \in Handles, client.xioHandle = s.comm.xioHandle,
           ReportIoError(s), chunk' = chunk
    PROVE  Session' /\ Quietly
<1> DEFINE h == client.xioHandle
           d == IF Tls THEN [s EXCEPT !.xio[h].st = "error"] ELSE s
<1>1. Sound(d) /\ Wanes(State, d) /\ Quiet(State, d)
    <2> DEFINE e == [s EXCEPT !.xio[h].st = "error"]
    <2>1. Sound(e) /\ Wanes(s, e) /\ Quiet(s, e)
        BY ErrorMarked, ErrorMarkedWanes DEF Keeps
    <2> HIDE DEF e
    <2>2. Wanes(State, e) /\ Quiet(State, e)
        BY <2>1, WanesTwice, QuietTwice
    <2> QED BY <2>1, <2>2 DEF e
<1>2. Become(SetError(d), "recv") \/ Become(SetError(d), "hung")
    BY DEF ReportIoError
<1> HIDE DEF d
<1>3. Tells(State, SetError(d)) /\ SetError(d).comm.state = "ERROR"
    BY <1>1, SetErrorTells
<1>4. SessionAt(SetError(d), "recv", <<>>)
    BY <1>3, InDoWork, TurnSession
<1> QED BY <1>2, <1>3, <1>4, BecomeSession, BecomeQuietly DEF Tells

\* A pending send fails.
LEMMA FlushFailsSession == ASSUME SessionInv, FlushFails PROVE Session' /\ Quietly
<1> DEFINE h == client.xioHandle
           q == IF Tls THEN <<>> ELSE Tail(Pending)
           a == [State EXCEPT !.xio[h].pending = q]
           b == [a EXCEPT !.xio[h].st = "error"]
<1>1. pc = "flush" /\ Pending # <<>> /\ chunk' = chunk
    BY DEF FlushFails
<1>2. /\ h \in Handles /\ h = State.comm.xioHandle
      /\ q \in Seq(Requests)
    BY <1>1, <<>> \in Seq(Requests), PendingReplaced DEF State, SessionInv
<1>3. ReportIoError(b)
    BY <1>1 DEF FlushFails, Pending, State
<1> HIDE DEF q
<1>4. Keeps(State, a) /\ Tells(State, a)
    BY <1>1, <1>2, InDoWork, PendingReplaced, PendingTells DEF SessionInv
<1> HIDE DEF a
<1>5. Sound(a) /\ h = a.comm.xioHandle
    BY <1>2, <1>4 DEF Keeps
<1>6. Keeps(a, b) /\ Wanes(a, b) /\ Quiet(a, b)
    BY <1>2, <1>5, ErrorMarked, ErrorMarkedWanes
<1> HIDE DEF b
<1>7. Sound(b) /\ h = b.comm.xioHandle /\ Wanes(State, b) /\ Quiet(State, b)
    BY <1>4, <1>5, <1>6, WanesTwice, QuietTwice DEF Keeps, Tells
<1> QED BY <1>1, <1>2, <1>3, <1>7, InDoWork, ReportIoErrorSession

\* recv fails, or there is no memory for what it returns.
LEMMA RecvFailsSession == ASSUME SessionInv, RecvFails \/ RecvNoMemory PROVE Session' /\ Quietly
<1>1. /\ pc = "recv" /\ chunk = <<>> /\ chunk' = chunk /\ IsOpen(State, client.xioHandle)
      /\ ReportIoError(State)
    BY DEF RecvFails, RecvNoMemory
<1>2. client.xioHandle \in Handles /\ client.xioHandle = State.comm.xioHandle
    BY <1>1 DEF SessionInv, IInv, TypeOK, Client, Reconnecting, IsOpen, State
<1>3. Wanes(State, State) /\ Quiet(State, State)
    BY TellsSame DEF Tells
<1> QED BY <1>1, <1>2, <1>3, InDoWork, ReportIoErrorSession

\* recv returns bytes: a CONNACK comes first, and from the broker of this connection.
LEMMA RecvSession == ASSUME SessionInv, Recv PROVE Session' /\ Quietly
<1>1. /\ pc = "recv" /\ chunk = <<>> /\ UNCHANGED <<comm, xio, now, pc>>
      /\ IsOpen(State, client.xioHandle) /\ link \in Link
    BY DEF Recv, SessionInv, IInv, TypeOK
<1>2. OnOpenTransport(State) /\ client.xioHandle # NULL
    BY <1>1 DEF OnOpenTransport, IsOpen, State
<1>3. OnlySession(State, "recv", <<>>) /\ Opened(State)
    BY <1>1, <1>2, InDoWork DEF SessionAt, OnlySession, Opened, State
<1>4. /\ client'.xioHandle = client.xioHandle
      /\ client'.socketConnected = client.socketConnected
      /\ client'.clientConnected = client.clientConnected
      /\ link.accepted => link'.accepted
      /\ \A i \in DOMAIN chunk' : chunk'[i] \in {"CONNACK", "REFUSED"} =>
             i = 1 /\ (chunk'[i] = "CONNACK" => link'.accepted)
    <2>1. CASE RecvInStep
        <3>1. /\ client'.xioHandle = client.xioHandle
              /\ client'.socketConnected = client.socketConnected
              /\ client'.clientConnected = client.clientConnected
            BY <2>1 DEF RecvInStep, SessionInv, IInv, TypeOK, Client
        <3>2. ASSUME NEW p \in link.owed, NEW q \in link.owed,
                     "CONNACK" \in link.owed => p = "CONNACK",
                     chunk' = (IF p = q THEN <<p>> ELSE <<p, q>>),
                     link' = [link EXCEPT !.owed = @ \ {p, q}, !.cut = FALSE,
                                          !.accepted = @ \/ p = "CONNACK"]
              PROVE  /\ link.accepted => link'.accepted
                     /\ \A i \in DOMAIN chunk' : chunk'[i] \in {"CONNACK", "REFUSED"} =>
                            i = 1 /\ (chunk'[i] = "CONNACK" => link'.accepted)
            <4>1. link'.accepted <=> link.accepted \/ p = "CONNACK"
                BY <1>1, <3>2 DEF Link
            <4>2. p # "REFUSED" /\ q # "REFUSED" /\ (q = "CONNACK" => p = q)
                BY <1>1, <3>2 DEF Link, Replies
            <4> QED BY <3>2, <4>1, <4>2
        <3>3. CASE chunk' \in {<<>>, <<"REFUSED">>, <<"BAD">>} /\ link'.accepted = link.accepted
            <4>1. \A i \in DOMAIN chunk' : i = 1 /\ chunk'[i] # "CONNACK"
                <5>1. CASE chunk' = <<>>
                    BY <5>1
                <5>2. ASSUME NEW x \in {"REFUSED", "BAD"}, chunk' = <<x>>
                      PROVE  \A i \in DOMAIN chunk' : i = 1 /\ chunk'[i] # "CONNACK"
                    BY <5>2
                <5> QED BY <3>3, <5>1, <5>2
            <4> QED BY <3>1, <3>3, <4>1
        <3>4. \/ chunk' \in {<<>>, <<"REFUSED">>, <<"BAD">>} /\ link'.accepted = link.accepted
              \/ \E p \in link.owed, q \in link.owed :
                    /\ "CONNACK" \in link.owed => p = "CONNACK"
                    /\ chunk' = (IF p = q THEN <<p>> ELSE <<p, q>>)
                    /\ link' = [link EXCEPT !.owed = @ \ {p, q}, !.cut = FALSE,
                                            !.accepted = @ \/ p = "CONNACK"]
            BY <1>1, <2>1 DEF RecvInStep, Link
        <3> QED BY <3>1, <3>2, <3>3, <3>4
    <2>2. CASE RecvOutOfStep
        <3>1. /\ client'.xioHandle = client.xioHandle
              /\ client'.socketConnected = client.socketConnected
              /\ client'.clientConnected = client.clientConnected
            BY <2>2 DEF RecvOutOfStep, SessionInv, IInv, TypeOK, Client
        <3>2. link.accepted => link'.accepted
            BY <1>1, <2>2 DEF RecvOutOfStep, Link
        <3>3. chunk' = <<>> \/ \E g \in Garbled : chunk' = <<g>> /\ g # "CONNACK"
            BY <2>2 DEF RecvOutOfStep, Garbled
        <3> QED BY <3>1, <3>2, <3>3
    <2> QED BY <2>1, <2>2 DEF Recv
<1> DEFINE t == State'
<1>5. /\ t.client = client' /\ t.comm = State.comm /\ t.xio = State.xio /\ t.link = link'
    BY <1>1 DEF State
<1>6. State.client = client /\ State.link = link
    BY DEF State
<1> HIDE DEF t
<1>7. Opened(t) /\ Held(t) /\ OnOpenTransport(t)
    BY <1>3, <1>4, <1>5, <1>6 DEF OnlySession, Opened, Held, OnOpenTransport, IsOpen
<1>8. OnlySession(t, "recv", chunk')
    BY <1>2, <1>3, <1>4, <1>5, <1>6, <1>7 DEF OnlySession, Replaced, Opened
<1>9. ConnAckFirst(t, "recv", chunk')
    BY <1>4, <1>5, <1>7 DEF ConnAckFirst
<1>10. /\ client'.disconnect_cb = client.disconnect_cb
       /\ client'.packetState = client.packetState
       /\ client'.closedCalls = client.closedCalls
    BY DEF Recv, RecvInStep, RecvOutOfStep, SessionInv, IInv, TypeOK, Client
<1>11. Quietly
    BY <1>5, <1>6, <1>10 DEF Quietly, Quiet, Unregistered, t
<1> QED BY <1>1, <1>8, <1>9, <1>11 DEF Session, SessionAt, t

\* Dispatching a CONNACK or a refusal.
LEMMA ConnAckSession ==
    ASSUME NEW s, Sound(s), NEW c \in Seq(Received), c # <<>>, SessionAt(s, "recv", c),
           Head(c) \in {"CONNACK", "REFUSED"},
           NEW o1 \in SendOutcomes, NEW o2 \in SendOutcomes,
           NEW t, t = OnConnAck(s, Head(c), o1, o2), t.comm.state # "CONNECTING",
           Tail(c) = <<>> /\ Tls => OnOpenTransport(t)
    PROVE  SessionAt(t, "recv", Tail(c))
<1> DEFINE a == Announced(s)
<1>1. PICK v : /\ Sound(v) /\ Tells(a, v)
               /\ ~Tls => v.client.socketConnected = s.client.socketConnected
               /\ t = Accepted(v, Head(c))
    BY OnConnAckTells
<1>2. a.client = s.client /\ a.xio = s.xio /\ a.link = s.link /\ a.comm.state = "CONNECTED"
    BY DEF Announced, Sound, System, Communicator
<1> HIDE DEF a
<1>3. Opened(s) /\ (Head(c) = "CONNACK" => s.link.accepted)
    <2>1. 1 \in DOMAIN c /\ c[1] = Head(c)
        OBVIOUS
    <2> QED BY <2>1 DEF SessionAt, ConnAckFirst
<1>4. Opened(a) /\ Held(a) /\ OnOpenTransport(s)
    BY <1>2, <1>3 DEF Opened, OnOpenTransport, IsOpen, Held, SessionAt, OnlySession
<1>5. /\ t.client.xioHandle = v.client.xioHandle /\ t.xio = v.xio /\ t.link = v.link
      /\ t.client.socketConnected = v.client.socketConnected /\ t.comm = v.comm
      /\ t.client.clientConnected => Head(c) = "CONNACK" \/ v.client.clientConnected
    BY <1>1 DEF Accepted, Sound, System, Client
<1>6. /\ Held(t) <=> Held(v)
      /\ OnOpenTransport(t) <=> OnOpenTransport(v)
      /\ Opened(t) <=> Opened(v)
    BY <1>5 DEF Held, OnOpenTransport, Opened, IsOpen
<1>7. Held(t)
    BY <1>1, <1>4, <1>6 DEF Tells, Wanes
<1>8. ~t.client.socketConnected => Tls /\ t.client.xioHandle = NULL
    BY <1>1, <1>2, <1>3, <1>4, <1>5 DEF Tells, Wanes, Opened
<1>9. ~t.client.socketConnected => Tail(c) # <<>>
    BY <1>8 DEF OnOpenTransport, IsOpen
<1>10. t.client.clientConnected /\ OnOpenTransport(t) => t.link.accepted
    <2> SUFFICES ASSUME t.client.clientConnected, OnOpenTransport(t)
                 PROVE  t.link.accepted
        OBVIOUS
    <2>1. v.client.xioHandle # NULL
        BY <1>5 DEF OnOpenTransport, IsOpen
    <2>2. v.link.accepted = s.link.accepted
        BY <1>1, <1>2, <2>1 DEF Tells, Wanes
    <2>3. Head(c) = "CONNACK" \/ s.client.clientConnected
        BY <1>1, <1>2, <1>5 DEF Tells, Wanes
    <2>4. s.link.accepted
        BY <1>3, <1>4, <2>3 DEF SessionAt, OnlySession, Replaced
    <2> QED BY <1>5, <2>2, <2>4
<1>11. t.comm.state = "CONNECTED" => Opened(t)
    BY <1>1, <1>4, <1>5, <1>6 DEF Tells, Reported
<1>12. ConnAckFirst(t, "recv", Tail(c))
    <2>1. \A i \in DOMAIN Tail(c) : i + 1 \in DOMAIN c /\ Tail(c)[i] = c[i + 1] /\ i + 1 # 1
        OBVIOUS
    <2> QED BY <2>1 DEF SessionAt, ConnAckFirst
<1>13. OnlySession(t, "recv", Tail(c))
    BY <1>7, <1>8, <1>9, <1>10, <1>11 DEF OnlySession, Replaced
<1> QED BY <1>12, <1>13 DEF SessionAt

\* It reports no disconnection that was not asked for.
LEMMA ConnAckQuiet ==
    ASSUME NEW s, Sound(s), NEW p \in {"CONNACK", "REFUSED"},
           NEW o1 \in SendOutcomes, NEW o2 \in SendOutcomes,
           NEW t, t = OnConnAck(s, p, o1, o2)
    PROVE  Quiet(s, t)
<1> DEFINE a == Announced(s)
<1>1. PICK v : Sound(v) /\ Tells(a, v) /\ t = Accepted(v, p)
    BY OnConnAckTells
<1>2. a.client = s.client /\ a.comm.state = "CONNECTED"
    BY DEF Announced, Sound, System, Communicator
<1> HIDE DEF a
<1>3. /\ t.comm = v.comm
      /\ t.client.disconnect_cb = v.client.disconnect_cb
      /\ t.client.packetState = v.client.packetState
      /\ t.client.closedCalls = v.client.closedCalls
    BY <1>1 DEF Accepted, Sound, System, Client
<1> QED BY <1>1, <1>2, <1>3 DEF Tells, Quiet, Unregistered

\* A packet is dispatched.
LEMMA DispatchSession == ASSUME SessionInv, Dispatch PROVE Session' /\ Quietly
<1>1. pc = "recv" /\ chunk # <<>> /\ chunk' = Tail(chunk)
    BY DEF Dispatch, Dispatched
<1>2. PICK o1, o2 \in SendOutcomes, qos \in 0..2 :
        LET s == RecvComplete(State, Head(chunk), qos, o1, o2)
        IN  Become(s, IF Tls /\ Tail(chunk) = <<>> /\ ~IsOpen(s, s.client.xioHandle)
                      THEN "hung" ELSE "recv")
    BY DEF Dispatch, Dispatched
<1>3. /\ Sound(State) /\ State.comm.state # "CONNECTING" /\ chunk \in Seq(Received)
      /\ SessionAt(State, "recv", chunk) /\ Head(chunk) \in Received
    BY <1>1, InDoWork
<1> DEFINE s == RecvComplete(State, Head(chunk), qos, o1, o2)
<1>4. s.comm.state # "CONNECTING"
    BY <1>3, RecvCompleteKeeps DEF Keeps
<1>5. \/ Tls /\ Become(s, "hung")
      \/ Become(s, "recv") /\ (Tail(chunk) = <<>> /\ Tls => OnOpenTransport(s))
    BY <1>2 DEF OnOpenTransport
<1>6. CASE Tls /\ Become(s, "hung")
    BY <1>6, BecomeSession, BecomeQuietly
<1>7. CASE Become(s, "recv") /\ (Tail(chunk) = <<>> /\ Tls => OnOpenTransport(s))
    <2>1. CASE Head(chunk) \in {"CONNACK", "REFUSED"}
        <3>1. s = OnConnAck(State, Head(chunk), o1, o2)
            BY <2>1 DEF RecvComplete
        <3> HIDE DEF s
        <3>2. SessionAt(s, "recv", Tail(chunk))
            BY <1>1, <1>3, <1>4, <1>7, <2>1, <3>1, ConnAckSession
        <3>3. Quiet(State, s)
            BY <1>3, <2>1, <3>1, ConnAckQuiet
        <3> QED BY <1>1, <1>7, <3>2, <3>3, BecomeSession, BecomeQuietly
    <2>2. CASE Head(chunk) \notin {"CONNACK", "REFUSED"}
        <3>1. Tells(State, s)
            BY <1>3, <2>2, RecvCompleteTells
        <3> HIDE DEF s
        <3>2. SessionAt(s, "recv", Tail(chunk))
            BY <1>1, <1>3, <1>4, <1>7, <3>1, TurnSession
        <3> QED BY <1>1, <1>7, <3>1, <3>2, BecomeSession, BecomeQuietly DEF Tells
    <2> QED BY <2>1, <2>2
<1> QED BY <1>5, <1>6, <1>7

\* A message for which there is no memory.
LEMMA DispatchNoMemorySession ==
    ASSUME SessionInv, DispatchNoMemory PROVE Session' /\ Quietly
<1> DEFINE s == SetError(State)
<1>1. /\ pc = "recv" /\ chunk # <<>> /\ chunk' = Tail(chunk)
      /\ \/ Tls /\ Become(s, "hung")
         \/ Become(s, "recv") /\ (Tail(chunk) = <<>> /\ Tls => OnOpenTransport(s))
    BY DEF DispatchNoMemory, Dispatched, OnOpenTransport
<1>2. /\ Sound(State) /\ State.comm.state # "CONNECTING" /\ chunk \in Seq(Received)
      /\ SessionAt(State, "recv", chunk)
    BY <1>1, InDoWork
<1>3. Tells(State, s) /\ s.comm.state # "CONNECTING"
    BY <1>2, TellsSame, SetErrorTells DEF Tells
<1> HIDE DEF s
<1>4. CASE Tls /\ Become(s, "hung")
    BY <1>4, BecomeSession, BecomeQuietly
<1>5. CASE Become(s, "recv") /\ (Tail(chunk) = <<>> /\ Tls => OnOpenTransport(s))
    <2>1. SessionAt(s, "recv", Tail(chunk))
        BY <1>1, <1>2, <1>3, <1>5, TurnSession
    <2> QED BY <1>1, <1>3, <1>5, <2>1, BecomeSession, BecomeQuietly DEF Tells
<1> QED BY <1>1, <1>4, <1>5

\* The keep-alive check ends mqtt_client_dowork.
LEMMA FinishDoWorkSession == ASSUME SessionInv, FinishDoWork PROVE Session' /\ Quietly
<1>1. PICK o \in SendOutcomes : Become(KeepAliveCheck(State, o), "loop")
    BY DEF FinishDoWork
<1>2. pc = "recv" /\ chunk = <<>> /\ chunk' = chunk
    BY DEF FinishDoWork
<1> DEFINE t == KeepAliveCheck(State, o)
<1>3. Tells(State, t) /\ t.comm.state # "CONNECTING"
    BY <1>2, InDoWork, KeepAliveCheckTells, KeepAliveCheckKeeps DEF Keeps
<1> HIDE DEF t
<1>4. SessionAt(t, "loop", <<>>)
    BY <1>2, <1>3, InDoWork, TurnSession
<1> QED BY <1>1, <1>2, <1>3, <1>4, BecomeSession, BecomeQuietly DEF t, Tells

\* The environment does not touch the client, and the broker keeps its answer.
LEMMA UntouchedSession ==
    ASSUME Session, UNCHANGED <<client, comm, xio, pc, chunk>>,
           link'.accepted = link.accepted
    PROVE  Session' /\ Quietly
<1> DEFINE s == State
           t == State'
<1>1. /\ t.client = s.client /\ t.comm = s.comm /\ t.xio = s.xio
      /\ t.link.accepted = s.link.accepted
    BY DEF State
<1>2. Session <=> (pc # "hung" => SessionAt(s, pc, chunk))
    BY DEF Session
<1>3. Session' <=> (pc # "hung" => SessionAt(t, pc, chunk))
    BY DEF Session
<1>4. Quietly <=> (~Tls => Quiet(s, t))
    BY DEF Quietly
<1> HIDE DEF s, t
<1>5. /\ Held(t) <=> Held(s)
      /\ OnOpenTransport(t) <=> OnOpenTransport(s)
      /\ Opened(t) <=> Opened(s)
      /\ Replaced(t, pc) <=> Replaced(s, pc)
    BY <1>1 DEF Held, OnOpenTransport, Opened, IsOpen, Replaced
<1>6. SessionAt(s, pc, chunk) => SessionAt(t, pc, chunk)
    BY <1>1, <1>5 DEF SessionAt, OnlySession, ConnAckFirst
<1>7. Quiet(s, t)
    BY <1>1 DEF Quiet, Unregistered
<1> QED BY <1>2, <1>3, <1>4, <1>6, <1>7

\* The network and the clock.
LEMMA EnvironmentSession ==
    ASSUME SessionInv, LinkFault \/ Tick \/ UNCHANGED vars
    PROVE  Session' /\ Quietly
<1>1. UNCHANGED <<client, comm, xio, pc, chunk>> /\ link'.accepted = link.accepted
    BY DEF LinkFault, Tick, vars, SessionInv, IInv, TypeOK, Link
<1> QED BY <1>1, UntouchedSession DEF SessionInv

\* A new client begins without a session.
LEMMA RenewedSession ==
    ASSUME NEW s, Empty(s), NEW h \in Handles, chunk' = <<>>,
           Become([XioCreate(s, h) EXCEPT !.client = Renewed(s.client),
                                          !.comm.state = "CONNECTING",
                                          !.comm.packetId = 1], "loop")
    PROVE  /\ Session'
           /\ Quiet(State, s) => Quietly
<1>3. s \in System
    BY DEF Empty
<1> DEFINE c == XioCreate(s, h)
           w == Renewed(s.client)
           t == [c EXCEPT !.client = w, !.comm.state = "CONNECTING", !.comm.packetId = 1]
<1>4. ~w.clientConnected /\ ~w.socketConnected
    BY DEF Renewed, NewClient
<1>5. /\ t.client = w /\ t.comm.state = "CONNECTING"
      /\ ~w.disconnect_cb /\ w.packetState # "DISCONNECT"
      /\ w.closedCalls = s.client.closedCalls
    BY <1>3 DEF XioCreate, System, Communicator, Client, Renewed, NewClient
<1>6. Become(t, "loop")
    OBVIOUS
<1> HIDE DEF t, w
<1>7. SessionAt(t, "loop", <<>>)
    BY <1>4, <1>5, ReplacedSession DEF Replaced
<1>8. Quiet(State, s) => Quiet(State, t)
    BY <1>5 DEF Quiet, Unregistered
<1> QED BY <1>6, <1>7, <1>8, BecomeSession, BecomeQuietly

\* So does the task that the monitor restarts.
LEMMA RestartSession ==
    ASSUME Restart, Empty(Discard(State))
    PROVE  /\ Session'
           /\ Quiet(State, Discard(State)) => Quietly
BY RenewedSession DEF Restart, FreeHandles

\* A plain transport is freed without a word.
LEMMA PlainDiscardAlone ==
    ASSUME ~Tls, NEW s, s \in System
    PROVE  Discard(s).client = s.client /\ Discard(s).comm = s.comm
<1> DEFINE h == s.comm.xioHandle
           c == Shut(s, h)
           d == [c EXCEPT !.xio[h] = NoTransport, !.link = NoLink]
<1>1. Discard(s) = IF h = NULL THEN s ELSE d
    BY DEF Discard, XioCloseQuietly, XioDestroy
<1>2. c.client = s.client /\ c.comm = s.comm /\ d.client = c.client /\ d.comm = c.comm
    BY DEF Shut, System
<1> HIDE DEF d
<1> QED BY <1>1, <1>2

-----------------------------------------------------------------------------
\* SessionInv is inductive, also under the monitor task.
LEMMA SessionInductive == ASSUME SessionInv, [AppNext]_vars PROVE SessionInv'
<1>1. IInv'
    BY Inductive, WatchdogIInv DEF SessionInv, AppNext
<1>2. CASE Process
    BY <1>2, ReconnectSession, StartConnectingSession, TryConnectSession,
       HandshakeStallsSession, DoWorkSession, FlushSendsSession, FlushEndsSession,
       FlushFailsSession, RecvFailsSession, RecvSession, DispatchSession,
       DispatchNoMemorySession, FinishDoWorkSession, <1>1 DEF Process, SessionInv
<1>3. CASE Watchdog
    BY <1>1, <1>3, MonitorEmpties, RestartSession DEF Watchdog, SessionInv
<1> QED BY <1>1, <1>2, <1>3, EnvironmentSession DEF AppNext, Next, SessionInv

\* Over a plain socket no step reports a disconnection that was not asked for.
LEMMA StepQuiet ==
    ASSUME SessionInv, [AppNext]_vars, ~Tls
    PROVE  Quiet(State, State')
<1>1. CASE Process
    BY <1>1, ReconnectSession, StartConnectingSession, TryConnectSession,
       HandshakeStallsSession, DoWorkSession, FlushSendsSession, FlushEndsSession,
       FlushFailsSession, RecvFailsSession, RecvSession, DispatchSession,
       DispatchNoMemorySession, FinishDoWorkSession DEF Process, Quietly
<1>2. CASE Watchdog
    <2>1. Empty(Discard(State)) /\ State \in System
        BY <1>2, MonitorEmpties DEF Watchdog, SessionInv, Empty, IInv, TypeOK, State, System
    <2>2. Quiet(State, Discard(State)) => Quietly
        BY <1>2, <2>1, RestartSession DEF Watchdog
    <2>3. Quiet(State, Discard(State))
        BY <2>1, PlainDiscardAlone DEF Quiet, Unregistered
    <2> QED BY <2>2, <2>3 DEF Quietly
<1> QED BY <1>1, <1>2, EnvironmentSession DEF AppNext, Next, Quietly

\* SessionInv holds in every state the device can reach.
THEOREM SessionInvHolds == AppSpec => []SessionInv
<1>1. Init => SessionInv
    BY InitIInv, InitSession DEF SessionInv
<1>2. SessionInv /\ [AppNext]_vars => SessionInv'
    BY SessionInductive
<1> QED BY <1>1, <1>2, AppSteps, PTL

\* clientConnected is that of the connection the client uses.
LEMMA SessionInvCurrent == SessionInv => SessionIsCurrent
<1> SUFFICES ASSUME SessionInv, InUse, client.clientConnected, IsOpen(State, client.xioHandle)
             PROVE  link.accepted
    BY DEF SessionIsCurrent
<1>1. pc \in {"loop", "flush", "recv"} /\ (pc = "loop" => comm.state = "CONNECTED")
    BY DEF InUse
<1>2. SessionAt(State, pc, chunk) /\ ~Replaced(State, pc)
    BY <1>1 DEF SessionInv, Session, Replaced, State
<1> QED BY <1>2 DEF SessionAt, OnlySession, OnOpenTransport, State

\* MQTT_CONNECTED is that of an open transport.
LEMMA SessionInvTransport == ASSUME Tls PROVE SessionInv => ConnectedHasTransport
<1> SUFFICES ASSUME SessionInv, pc = "loop", comm.state = "CONNECTED"
             PROVE  client.socketConnected /\ IsOpen(State, client.xioHandle)
    BY DEF ConnectedHasTransport
<1>1. SessionAt(State, pc, chunk)
    BY DEF SessionInv, Session
<1> QED BY <1>1 DEF SessionAt, OnlySession, Opened, OnOpenTransport, State

\* While the client uses an open transport, clientConnected means that the broker has
\* accepted this very connection, on which keep-alive then runs: however often the
\* connection was lost, reopened or half-opened before (mqtt_client_connect,
\* close_connection, the restart by the monitor), over either transport.
THEOREM CurrentSession == AppSpec => []SessionIsCurrent
BY SessionInvCurrent, SessionInvHolds, PTL

\* Over TLS no sequence of failed handshakes, lost connections and nested callbacks
\* leaves MQTT_CONNECTED reported without an open transport, where no later step of
\* mqtt_client_dowork could notice.
THEOREM NoIdleConnected == ASSUME Tls PROVE AppSpec => []ConnectedHasTransport
BY SessionInvTransport, SessionInvHolds, PTL

-----------------------------------------------------------------------------
\* An attempt that costs no fault opens the transport and sends CONNECT.
LEMMA SpendNothing ==
    ASSUME faults \in Nat, NEW a, NEW b, Spend(<<a, b>>), faults' = faults
    PROVE  a = "ok" /\ b = "ok"
<1>1. /\ 1 \in Faulty(<<a, b>>) <=> a # "ok"
      /\ 2 \in Faulty(<<a, b>>) <=> b # "ok"
    BY DEF Faulty
<1>2. PICK n \in 0 .. faults : /\ n = (IF 1 \in Faulty(<<a, b>>) THEN 1 ELSE 0)
                                      + (IF 2 \in Faulty(<<a, b>>) THEN 1 ELSE 0)
                               /\ faults' = faults - n
    BY DEF Spend
<1>3. n = 0
    BY <1>2
<1> QED BY <1>1, <1>2, <1>3

\* CONNECT on a transport just opened is the first packet of the connection.
LEMMA CleanConnectAsked ==
    ASSUME NEW s, Sound(s), OnOpenTransport(s), ~s.client.socketConnected,
           s.xio[s.client.xioHandle].pending = <<>>, s.link = FreshLink
    PROVE  OnOpenComplete(s, TRUE, "ok").link.asked
<1> DEFINE h == s.client.xioHandle
           a == [s EXCEPT !.client.packetState = "CONNECT",
                          !.client.socketConnected = TRUE]
           b == [a EXCEPT !.client.packetState = "CONNECT"]
           c == [b EXCEPT !.client.packetSendTimeMs = b.now]
           d == [c EXCEPT !.link = Delivered(@, "CONNECT")]
<1>1. OnOpenComplete(s, TRUE, "ok") = XioSend(c, b.client.xioHandle, "CONNECT", "ok")
    BY DEF OnOpenComplete, ClientSend, SendPacketItem
<1>2. /\ b.client.xioHandle = h /\ c.xio = s.xio /\ c.link = FreshLink
      /\ c.client.packetState = "CONNECT"
    BY DEF Sound, System, Client
<1>3. d.link = Delivered(FreshLink, "CONNECT") /\ d.client = c.client
    BY <1>2 DEF Sound, System
<1> HIDE DEF c, d
<1>4. XioSendResult(c, h, "ok") = "ok"
    BY <1>2 DEF XioSendResult, OnOpenTransport, IsOpen, FreshLink, NoLink
<1>5. XioSend(c, h, "CONNECT", "ok") = SendComplete(d)
    BY <1>4 DEF XioSend, d
<1>6. SendComplete(d) = d
    BY <1>2, <1>3 DEF SendComplete
<1>7. Delivered(FreshLink, "CONNECT").asked
    BY DEF Delivered, FreshLink, NoLink
<1> QED BY <1>1, <1>2, <1>3, <1>5, <1>6, <1>7

\* The transport mqtt_client_connect has opened, with nothing pending.
LEMMA ConnectAsked ==
    ASSUME Tls, NEW s, s \in System, Live(s), s.comm.xioHandle # NULL, Untouched(s),
           ~s.client.socketConnected
    PROVE  Connect(s, s.comm.xioHandle, "ok", "ok").link.asked
<1> DEFINE h == s.comm.xioHandle
           t == [s EXCEPT !.client.xioHandle = h, !.client.packetState = "UNKNOWN"]
           k == IF Tls THEN "shaken" ELSE "fresh"
           u == [t EXCEPT !.xio[h].st = "open", !.link = FreshLink,
                          !.xio[h].tls = IF Tls THEN "shaken" ELSE "fresh"]
           x == [s.xio[h] EXCEPT !.st = "open", !.tls = k]
<1>1. h \in Handles /\ s.xio[h].st = "closed" /\ s.xio[h].pending = <<>>
    BY DEF System, Communicator, Untouched, NewTransport, NoTransport
<1>2. Connect(s, h, "ok", "ok") = OnOpenComplete(u, TRUE, "ok")
    BY <1>1 DEF Connect
<1>3. /\ Sound(t) /\ t.comm = s.comm /\ t.client.xioHandle = h /\ t.xio = s.xio
      /\ ~t.client.socketConnected
    BY DEF Sound, Live, System, Client, Communicator, PacketStates
<1>4. u = Opening(t, h, k, FreshLink)
    BY <1>1, <1>3 DEF Opening, Sound, System
<1>5. s.xio \in [Handles -> Transport] /\ s.xio[h] \in Transport
    BY <1>1 DEF System
<1>6. u.xio = [s.xio EXCEPT ![h] = x] /\ u.link = FreshLink
    BY <1>3, <1>5 DEF Sound, System
<1>7. x.pending = <<>>
    BY <1>1, <1>5 DEF Transport
<1>8. FreshLink \in Link /\ k \in TlsContexts
    BY DEF FreshLink, NoLink, Link, TlsContexts
<1> HIDE DEF t, k, u, x
<1>9. Sound(u) /\ u.client = t.client /\ u.xio[h].st = "open"
    BY <1>1, <1>3, <1>4, <1>8, OpeningAlone
<1>10. OnOpenTransport(u) /\ u.xio[u.client.xioHandle].pending = <<>>
    BY <1>1, <1>3, <1>5, <1>6, <1>7, <1>9, XioAssumption DEF OnOpenTransport, IsOpen
<1>11. OnOpenComplete(u, TRUE, "ok").link.asked
    BY <1>3, <1>6, <1>9, <1>10, CleanConnectAsked
<1> QED BY <1>2, <1>11 DEF u

\* SRS_MQTT_CLIENT_07_009 over TLS: a mqtt_client_connect that returns 0, with no fault
\* on the way, has sent CONNECT to the broker.
THEOREM ConnectIsSent == ASSUME Tls PROVE AppSpec => ConnectSends
<1>1. ASSUME SessionInv, TryConnect, pc' = "loop", faults' = faults
      PROVE  link'.asked
    <2>1. PICK open \in OpenOutcomes, o \in SendOutcomes :
            /\ Spend(<<FaultOf(open), o>>)
            /\ LET s == Connect(State, comm.xioHandle, open, o)
               IN  IF ~ConnectSucceeds(State, comm.xioHandle, open)
                   THEN Become(s, "connecting")
                   ELSE IF s.comm.state = "CONNECTING"
                   THEN Become([s EXCEPT !.comm.state = "CONNECTED"], "loop")
                   ELSE Become(s, "loop")
        BY <1>1 DEF TryConnect
    <2> DEFINE h == comm.xioHandle
               s == Connect(State, h, open, o)
               t == [s EXCEPT !.comm.state = "CONNECTED"]
    <2>2. faults \in Nat
        BY <1>1, CommAssumption DEF SessionInv, IInv, TypeOK
    <2>3. open = "ok" /\ o = "ok"
        BY <1>1, <2>1, <2>2, SpendNothing DEF FaultOf, OpenOutcomes
    <2>4. /\ State \in System /\ Live(State) /\ Untouched(State) /\ State.comm.xioHandle = h
          /\ ~State.client.socketConnected
        BY <1>1, StateSound, AtLoop DEF SessionInv, TryConnect, Reconnecting, Replaced, State
    <2>5. h # NULL
        BY <1>1, <2>1 DEF ConnectSucceeds, Become
    <2>6. s.link.asked /\ Sound(s)
        BY <2>3, <2>4, <2>5, ConnectAsked, ConnectSound
    <2>7. \/ Become(s, "connecting") \/ Become(t, "loop") \/ Become(s, "loop")
        BY <2>1
    <2> HIDE DEF s
    <2>8. t.link = s.link
        BY <2>6 DEF Sound, System
    <2> HIDE DEF t
    <2> QED BY <1>1, <2>6, <2>7, <2>8 DEF Become
<1>2. SessionInv /\ [AppNext]_vars
        => [TryConnect /\ pc' = "loop" /\ faults' = faults => link'.asked]_vars
    BY <1>1
<1> QED BY <1>2, SessionInvHolds, AppSteps, PTL DEF ConnectSends

-----------------------------------------------------------------------------
(***************************************************************************)
(* [MQTT-3.1.0-1]: CONNECT is the first packet of a connection.            *)
(*                                                                         *)
(* What holds of a broker that has not seen CONNECT, in state s at place p *)
(* with the packets c still to be dispatched: it owes and has accepted     *)
(* nothing, what is pending begins with CONNECT, and all the client has    *)
(* received is what its codec rejects.  So the session of SessionInv is    *)
(* not one of this connection, and the client sends nothing on it.         *)
(* A transport that is going to be opened has no connection yet.           *)
(***************************************************************************)
ConnectPending(s) ==
    LET h == s.comm.xioHandle
    IN  h \in Handles /\ s.xio[h].pending # <<>> => Head(s.xio[h].pending) = "CONNECT"

Reserved(s, c) ==
    Ungreeted(s) =>
        /\ s.link.owed = {} /\ ~s.link.accepted
        /\ ConnectPending(s)
        /\ \A i \in DOMAIN c : c[i] = "BAD"

GreetingAt(s, p, c) ==
    /\ Replaced(s, p) => s.link.net = "down"
    /\ s.comm.xioHandle = NULL => Replaced(s, p)
    /\ Reserved(s, c)

Greeting == GreetingAt(State, pc, chunk)

GreetInv == SessionInv /\ Greeting

\* The step of ConnectIsFirst.
Greets == link.net = "up" /\ link'.net = "reset" => LinkFault

-----------------------------------------------------------------------------
\* A broker that was asked, or cannot be reached, leaves nothing to be said.
LEMMA ReservedGreeted == ASSUME NEW s, NEW c, ~Ungreeted(s) PROVE Reserved(s, c)
BY DEF Reserved

\* Reserved looks at the transport, the connection and the handle alone.
LEMMA ReservedUnseen ==
    ASSUME NEW s, NEW t, NEW c, Reserved(s, c), t.xio = s.xio, t.link = s.link,
           t.comm.xioHandle = s.comm.xioHandle
    PROVE  Reserved(t, c)
BY DEF Reserved, ConnectPending, Ungreeted

\* Hanging up leaves CONNECT first.
LEMMA ReservedHangsUp ==
    ASSUME NEW s, NEW t, NEW c, NEW d, Reserved(s, c), HangsUp(s, t),
           t.comm.xioHandle = s.comm.xioHandle, \A i \in DOMAIN d : d[i] = "BAD"
    PROVE  Reserved(t, d)
<1> SUFFICES ASSUME Ungreeted(t) PROVE Reserved(t, d)
    BY ReservedGreeted
<1>1. Ungreeted(s) /\ t.link = s.link
    BY HangsUpCourteous
<1>2. ConnectPending(t)
    BY <1>1 DEF Reserved, ConnectPending, HangsUp
<1> QED BY <1>1, <1>2 DEF Reserved

\* An action that leads to s at p keeps Greeting if s is as Greeting demands at p.
LEMMA BecomeGreets ==
    ASSUME NEW s, NEW p, Become(s, p), GreetingAt(s, p, chunk'),
           link.net = "up" => s.link.net # "reset"
    PROVE  Greeting' /\ Greets
<1> DEFINE t == State'
<1>1. /\ t.comm = s.comm /\ t.xio = s.xio /\ t.link = s.link /\ pc' = p
      /\ link' = s.link
    BY DEF Become, State
<1>2. Greeting' <=> GreetingAt(t, p, chunk')
    BY <1>1 DEF Greeting
<1> HIDE DEF t
<1>3. Reserved(t, chunk')
    BY <1>1, ReservedUnseen DEF GreetingAt
<1>4. GreetingAt(t, p, chunk')
    BY <1>1, <1>3 DEF GreetingAt, Replaced
<1> QED BY <1>1, <1>2, <1>4 DEF Greets

\* A part of mqtt_client_dowork: the communicator keeps its transport.
LEMMA TurnGreets ==
    ASSUME GreetInv, pc \in {"flush", "recv"}, NEW s, Keeps(State, s),
           NEW p \in {"flush", "recv", "loop", "hung"}, Become(s, p),
           Reserved(s, chunk'), link.net = "up" => s.link.net # "reset"
    PROVE  Greeting' /\ Greets
<1>1. State.comm.state # "CONNECTING" /\ State.comm.xioHandle # NULL
    BY InDoWork DEF GreetInv, Greeting, GreetingAt, Replaced
<1>2. GreetingAt(s, p, chunk')
    BY <1>1 DEF Keeps, GreetingAt, Replaced
<1> QED BY <1>2, BecomeGreets

\* One in which the broker had been asked before.
LEMMA CourteousTurn ==
    ASSUME GreetInv, pc \in {"flush", "recv"}, NEW s, Keeps(State, s),
           NEW p \in {"flush", "recv", "loop", "hung"}, Become(s, p),
           Courteous(State, s), ~Ungreeted(State)
    PROVE  Greeting' /\ Greets
<1>1. Reserved(s, chunk')
    BY ReservedGreeted DEF Courteous
<1>2. link.net = "up" => s.link.net # "reset"
    BY DEF Courteous, State
<1> QED BY <1>1, <1>2, TurnGreets

\* One that at most closes the connection.
LEMMA HangsUpTurn ==
    ASSUME GreetInv, pc \in {"flush", "recv"}, NEW s, Keeps(State, s),
           NEW p \in {"flush", "recv", "loop", "hung"}, Become(s, p),
           HangsUp(State, s), ~Ungreeted(State) \/ \A i \in DOMAIN chunk' : chunk'[i] = "BAD"
    PROVE  Greeting' /\ Greets
<1>1. CASE ~Ungreeted(State)
    BY <1>1, HangsUpCourteous, CourteousTurn
<1>2. CASE \A i \in DOMAIN chunk' : chunk'[i] = "BAD"
    <2>1. Reserved(s, chunk')
        BY <1>2, ReservedHangsUp DEF GreetInv, Greeting, GreetingAt, Keeps
    <2>2. link.net = "up" => s.link.net # "reset"
        BY HangsUpCourteous DEF State
    <2> QED BY <2>1, <2>2, TurnGreets
<1> QED BY <1>1, <1>2

-----------------------------------------------------------------------------
\* A pending send goes out: to a broker that has not seen CONNECT, that is CONNECT.
LEMMA FlushSendsGreets == ASSUME GreetInv, FlushSends PROVE Greeting' /\ Greets
<1> DEFINE a == [State EXCEPT !.xio[client.xioHandle].pending = Tail(@)]
           q == Tail(Pending)
           l == Delivered(a.link, Head(Pending))
           b == [a EXCEPT !.link = Delivered(@, Head(Pending))]
           t == SendComplete(b)
<1>1. pc = "flush" /\ Pending # <<>> /\ Become(t, "flush") /\ chunk' = chunk
    BY DEF FlushSends
<1>2. /\ q \in Seq(Requests) /\ Head(Pending) \in Requests
      /\ client.xioHandle \in Handles /\ client.xioHandle = comm.xioHandle
    BY <1>1, <<>> \in Seq(Requests), PendingReplaced DEF SessionInv, GreetInv
<1>3. a = [State EXCEPT !.xio[client.xioHandle].pending = q]
    BY <1>1 DEF Pending, State
<1>4. a.link = link /\ link \in Link
    BY DEF State, GreetInv, SessionInv, IInv, TypeOK
<1> HIDE DEF q, a
<1>5. Keeps(State, a)
    BY <1>1, <1>2, <1>3, PendingReplaced DEF SessionInv, GreetInv
<1>6. Ungreeted(State) => Head(Pending) = "CONNECT"
    BY <1>1, <1>2, XioAssumption
       DEF GreetInv, Greeting, GreetingAt, Reserved, ConnectPending, Pending, State
<1>7. /\ l \in Link /\ b = [a EXCEPT !.link = l]
      /\ l.net # "up" \/ l.asked
      /\ link.net = "up" => l.net # "reset"
    <2>1. l \in Link /\ b = [a EXCEPT !.link = l]
        BY <1>2, <1>4, <1>5, DeliveredType DEF Keeps, Sound, System
    <2>2. l.net # "up" \/ l.asked
        BY <1>4, <1>6 DEF Delivered, Link, Ungreeted, State
    <2>3. link.net = "up" => l.net # "reset"
        BY <1>4, <1>6 DEF Delivered, Link, Ungreeted, State
    <2> QED BY <2>1, <2>2, <2>3
<1> HIDE DEF l, b
<1>8. Keeps(a, b) /\ b.link = l
    BY <1>5, <1>7, LinkSet DEF Keeps, Sound, System
<1>9. Keeps(b, t) /\ HangsUp(b, t)
    BY <1>8, SendCompleteKeeps, SendCompleteHangsUp DEF Keeps
<1> HIDE DEF t
<1>10. Keeps(State, t)
    BY <1>5, <1>8, <1>9, KeepsTwice
<1>11. ~Ungreeted(b)
    BY <1>7, <1>8 DEF Ungreeted
<1>12. Reserved(t, chunk')
    BY <1>9, <1>11, HangsUpCourteous, ReservedGreeted
<1>13. link.net = "up" => t.link.net # "reset"
    BY <1>7, <1>8, <1>9, HangsUpCourteous
<1> QED BY <1>1, <1>10, <1>12, <1>13, TurnGreets

\* Inside a dowork on a broker that has not seen CONNECT, the rest is what the codec
\* has rejected.
LEMMA UngreetedChunk ==
    ASSUME GreetInv
    PROVE  ~Ungreeted(State) \/ \A i \in DOMAIN chunk : chunk[i] = "BAD"
BY DEF GreetInv, Greeting, GreetingAt, Reserved

\* The flush ends.
LEMMA FlushEndsGreets == ASSUME GreetInv, FlushEnds PROVE Greeting' /\ Greets
<1>1. pc = "flush" /\ Become(State, "recv") /\ chunk' = chunk
    BY DEF FlushEnds
<1>2. Keeps(State, State) /\ HangsUp(State, State)
    BY <1>1, InDoWork, HangsUpUnseen DEF Keeps, GreetInv
<1> QED BY <1>1, <1>2, UngreetedChunk, HangsUpTurn

\* An io error is reported on a connection the broker was asked on, or that is lost.
LEMMA ReportIoErrorGreets ==
    ASSUME GreetInv, pc \in {"flush", "recv"}, ~Ungreeted(State), NEW s, Keeps(State, s),
           s.link = link, client.xioHandle \in Handles, client.xioHandle = s.comm.xioHandle,
           ReportIoError(s)
    PROVE  Greeting' /\ Greets
<1> DEFINE h == client.xioHandle
           e == [s EXCEPT !.xio[h].st = "error"]
           d == IF Tls THEN e ELSE s
           t == SetError(d)
<1>1. Become(t, "recv") \/ Become(t, "hung")
    BY DEF ReportIoError
<1>2. Keeps(s, e) /\ e.link = link
    BY ErrorMarked DEF Keeps, Sound, System
<1> HIDE DEF e
<1>3. Keeps(State, d) /\ d.link = link
    BY <1>2, KeepsTwice
<1> HIDE DEF d
<1>4. Keeps(d, t) /\ HangsUp(d, t)
    BY <1>3, SetErrorKeeps, SetErrorHangsUp DEF Keeps
<1> HIDE DEF t
<1>5. Keeps(State, t)
    BY <1>3, <1>4, KeepsTwice
<1>6. Courteous(State, t)
    BY <1>3, <1>4, HangsUpCourteous DEF Courteous, Ungreeted, State
<1> QED BY <1>1, <1>5, <1>6, CourteousTurn

\* A pending send fails.
LEMMA FlushFailsGreets == ASSUME GreetInv, FlushFails PROVE Greeting' /\ Greets
<1> DEFINE h == client.xioHandle
           q == IF Tls THEN <<>> ELSE Tail(Pending)
           a == [State EXCEPT !.xio[h].pending = q]
           b == [a EXCEPT !.xio[h].st = "error"]
<1>1. pc = "flush" /\ Pending # <<>> /\ ~Ungreeted(State)
    BY DEF FlushFails, Ungreeted, State
<1>2. h \in Handles /\ h = State.comm.xioHandle /\ q \in Seq(Requests)
    BY <1>1, <<>> \in Seq(Requests), PendingReplaced DEF State, SessionInv, GreetInv
<1>3. ReportIoError(b)
    BY <1>1 DEF FlushFails, Pending, State
<1> HIDE DEF q
<1>4. Keeps(State, a) /\ a.link = link
    BY <1>1, <1>2, PendingReplaced DEF SessionInv, GreetInv, State
<1> HIDE DEF a
<1>5. Keeps(a, b) /\ b.link = link
    <2>1. Sound(a) /\ h = a.comm.xioHandle
        BY <1>2, <1>4 DEF Keeps
    <2>2. Keeps(a, b)
        BY <1>2, <2>1, ErrorMarked
    <2>3. b.link = a.link
        BY <2>1 DEF Sound, System
    <2> QED BY <1>4, <2>2, <2>3
<1> HIDE DEF b
<1>6. Keeps(State, b) /\ h = b.comm.xioHandle
    BY <1>2, <1>4, <1>5, KeepsTwice DEF Keeps
<1> QED BY <1>1, <1>2, <1>3, <1>5, <1>6, ReportIoErrorGreets

\* recv fails, or there is no memory for what it returns.
LEMMA RecvFailsGreets ==
    ASSUME GreetInv, RecvFails \/ RecvNoMemory PROVE Greeting' /\ Greets
<1>1. /\ pc = "recv" /\ IsOpen(State, client.xioHandle) /\ ReportIoError(State)
      /\ link.net = "reset" \/ link.owed # {}
    BY DEF RecvFails, RecvNoMemory
<1>2. client.xioHandle \in Handles /\ client.xioHandle = State.comm.xioHandle
    BY <1>1 DEF GreetInv, SessionInv, IInv, TypeOK, Client, Reconnecting, IsOpen, State
<1>3. ~Ungreeted(State)
    BY <1>1 DEF GreetInv, Greeting, GreetingAt, Reserved, Ungreeted, State
<1>4. Keeps(State, State) /\ State.link = link
    BY <1>1, InDoWork DEF Keeps, GreetInv, State
<1> QED BY <1>1, <1>2, <1>3, <1>4, ReportIoErrorGreets

\* recv returns bytes: a broker that was asked stays so, and one that was not sends
\* nothing the codec accepts.
LEMMA RecvGreets == ASSUME GreetInv, Recv PROVE Greeting' /\ Greets
<1>1. /\ pc = "recv" /\ UNCHANGED <<comm, xio, now, pc>> /\ link.net = "up" /\ link \in Link
      /\ RecvInStep \/ RecvOutOfStep
    BY DEF Recv, GreetInv, SessionInv, IInv, TypeOK
<1>2. link'.net # "reset" /\ link'.asked = link.asked
    BY <1>1 DEF RecvInStep, RecvOutOfStep, Link
<1>3. ASSUME ~link.asked
      PROVE  /\ link'.owed = {} /\ ~link'.accepted
             /\ chunk' = <<"BAD">>
    <2>1. link.owed = {} /\ ~link.accepted
        BY <1>1, <1>3 DEF GreetInv, Greeting, GreetingAt, Reserved, Ungreeted, State
    <2>2. chunk' = <<"BAD">> /\ link' = [link EXCEPT !.cut = FALSE]
        BY <1>1, <2>1 DEF RecvInStep, RecvOutOfStep
    <2> QED BY <1>1, <2>1, <2>2 DEF Link
<1> DEFINE t == State'
<1>4. t.comm = comm /\ t.xio = xio /\ t.link = link' /\ pc' = pc
    BY <1>1 DEF State
<1>5. Greeting' <=> GreetingAt(t, pc', chunk')
    BY DEF Greeting
<1> HIDE DEF t
<1>6. Reserved(t, chunk')
    <2> SUFFICES ASSUME Ungreeted(t)
                 PROVE  Reserved(t, chunk')
        BY ReservedGreeted
    <2>1. ~link.asked
        BY <1>2, <1>4 DEF Ungreeted
    <2>2. ConnectPending(t)
        BY <1>1, <1>4, <2>1
           DEF GreetInv, Greeting, GreetingAt, Reserved, ConnectPending, Ungreeted, State
    <2>3. \A i \in DOMAIN chunk' : chunk'[i] = "BAD"
        BY <1>3, <2>1
    <2> QED BY <1>3, <1>4, <2>1, <2>2, <2>3 DEF Reserved
<1>7. t.comm.xioHandle # NULL
    BY <1>1, <1>4 DEF GreetInv, Greeting, GreetingAt, Replaced, State
<1>8. GreetingAt(t, pc', chunk')
    BY <1>1, <1>4, <1>6, <1>7 DEF GreetingAt, Replaced
<1> QED BY <1>2, <1>5, <1>8 DEF Greets

\* Dispatching a CONNACK or a refusal: the application's callback may send.
LEMMA ConnAckCourteous ==
    ASSUME NEW s, Sound(s), NEW p \in {"CONNACK", "REFUSED"},
           NEW o1 \in SendOutcomes, NEW o2 \in SendOutcomes
    PROVE  Courteous(s, OnConnAck(s, p, o1, o2))
<1> DEFINE a == Announced(s)
           t == OnConnAck(s, p, o1, o2)
<1>1. PICK v : Sound(v) /\ Tells(a, v) /\ t = Accepted(v, p)
    BY OnConnAckTells
<1>2. a.link = s.link
    BY DEF Announced, Sound, System
<1> HIDE DEF a, t
<1>3. t.link = v.link
    BY <1>1 DEF Accepted, Sound, System
<1> QED BY <1>1, <1>2, <1>3 DEF Tells, Wanes, Courteous, Ungreeted, t

\* A packet is dispatched.
LEMMA DispatchGreets == ASSUME GreetInv, Dispatch PROVE Greeting' /\ Greets
<1>1. pc = "recv" /\ chunk # <<>> /\ chunk' = Tail(chunk)
    BY DEF Dispatch, Dispatched
<1>2. PICK o1, o2 \in SendOutcomes, qos \in 0..2 :
        LET s == RecvComplete(State, Head(chunk), qos, o1, o2)
        IN  Become(s, IF Tls /\ Tail(chunk) = <<>> /\ ~IsOpen(s, s.client.xioHandle)
                      THEN "hung" ELSE "recv")
    BY DEF Dispatch, Dispatched
<1>3. Sound(State) /\ chunk \in Seq(Received) /\ Head(chunk) \in Received
    BY <1>1, InDoWork DEF GreetInv
<1> DEFINE s == RecvComplete(State, Head(chunk), qos, o1, o2)
<1>4. Keeps(State, s)
    BY <1>3, RecvCompleteKeeps
<1>5. Become(s, "hung") \/ Become(s, "recv")
    BY <1>2
<1>6. CASE ~Ungreeted(State)
    <2>1. CASE Head(chunk) \in {"CONNACK", "REFUSED"}
        <3>1. s = OnConnAck(State, Head(chunk), o1, o2)
            BY <2>1 DEF RecvComplete
        <3> HIDE DEF s
        <3> QED BY <1>1, <1>3, <1>4, <1>5, <1>6, <2>1, <3>1, ConnAckCourteous, CourteousTurn
    <2>2. CASE Head(chunk) \notin {"CONNACK", "REFUSED"}
        <3>1. Courteous(State, s)
            BY <1>3, <2>2, RecvCompleteTells DEF Tells, Wanes
        <3> HIDE DEF s
        <3> QED BY <1>1, <1>4, <1>5, <1>6, <3>1, CourteousTurn
    <2> QED BY <2>1, <2>2
<1>7. CASE Ungreeted(State)
    <2>1. \A i \in DOMAIN chunk : chunk[i] = "BAD"
        BY <1>7, UngreetedChunk
    <2>2. Head(chunk) = "BAD"
        BY <1>1, <1>3, <2>1
    <2>3. \A i \in DOMAIN chunk' : chunk'[i] = "BAD"
        BY <1>1, <1>3, <2>1
    <2>4. s = SetError(State)
        BY <2>2 DEF RecvComplete
    <2> HIDE DEF s
    <2>5. HangsUp(State, s)
        BY <1>3, <2>4, SetErrorHangsUp
    <2> QED BY <1>1, <1>4, <1>5, <2>3, <2>5, HangsUpTurn
<1> QED BY <1>6, <1>7

\* Only a broker that was asked has a message to send.
LEMMA DispatchNoMemoryGreets ==
    ASSUME GreetInv, DispatchNoMemory PROVE Greeting' /\ Greets
<1> DEFINE s == SetError(State)
<1>1. /\ pc = "recv" /\ chunk # <<>> /\ chunk' = Tail(chunk)
      /\ Head(chunk) \in {"MESSAGE", "SUBACK"}
      /\ Become(s, "hung") \/ Become(s, "recv")
    BY DEF DispatchNoMemory, Dispatched
<1>2. Sound(State) /\ chunk \in Seq(Received)
    BY <1>1, InDoWork DEF GreetInv
<1>3. ~Ungreeted(State)
    <2>1. 1 \in DOMAIN chunk /\ chunk[1] # "BAD"
        BY <1>1, <1>2
    <2> QED BY <2>1, UngreetedChunk
<1>4. Keeps(State, s) /\ Courteous(State, s)
    BY <1>2, SetErrorKeeps, TellsSame, SetErrorTells DEF Tells, Wanes
<1> HIDE DEF s
<1> QED BY <1>1, <1>3, <1>4, CourteousTurn

\* Without a session of this connection the keep-alive check sends nothing on it.
LEMMA KeepAliveHangsUp ==
    ASSUME NEW s, Sound(s), NEW o \in SendOutcomes,
           s.client.clientConnected => ~OnOpenTransport(s)
    PROVE  HangsUp(s, KeepAliveCheck(s, o))
<1> DEFINE e == SetError(s)
           t == [e EXCEPT !.client.timeSincePing = 0,
                          !.client.packetSendTimeMs = 0,
                          !.client.packetState = "UNKNOWN"]
           h == s.client.xioHandle
           a == [s EXCEPT !.client.packetSendTimeMs = s.now]
           p == SendPacketItem(s, "PINGREQ", o)
           u == [p EXCEPT !.client.timeSincePing = s.now]
<1>1. HangsUp(s, s)
    BY HangsUpUnseen
<1>2. HangsUp(s, t)
    <2>1. Sound(e) /\ HangsUp(s, e)
        BY SetErrorKeeps, SetErrorHangsUp DEF Keeps
    <2> HIDE DEF e
    <2>2. t.link = e.link /\ t.xio = e.xio
        BY <2>1 DEF Sound, System
    <2> HIDE DEF t
    <2> QED BY <2>1, <2>2, HangsUpUnseen, HangsUpTwice
<1>3. ASSUME s.client.clientConnected PROVE HangsUp(s, u)
    <2>1. a.xio = s.xio /\ a.link = s.link
        BY DEF Sound, System
    <2>2. p = XioSend(a, h, "PINGREQ", o)
        BY DEF SendPacketItem
    <2> HIDE DEF a
    <2>3. XioSendResult(a, h, o) = "refused"
        BY <1>3, <2>1 DEF XioSendResult, OnOpenTransport, IsOpen
    <2>4. p = a
        BY <2>2, <2>3 DEF XioSend
    <2> HIDE DEF p
    <2>5. u.xio = s.xio /\ u.link = s.link
        BY <2>1, <2>4 DEF Sound, System, a
    <2> HIDE DEF u
    <2> QED BY <2>5, HangsUpUnseen
<1> HIDE DEF t, u
<1>4. KeepAliveCheck(s, o) \in {s, t} \/ (s.client.clientConnected /\ KeepAliveCheck(s, o) = u)
    BY DEF KeepAliveCheck, KeepAliveActive, t, u
<1> QED BY <1>1, <1>2, <1>3, <1>4

\* The keep-alive check ends mqtt_client_dowork.
LEMMA FinishDoWorkGreets == ASSUME GreetInv, FinishDoWork PROVE Greeting' /\ Greets
<1>1. PICK o \in SendOutcomes : Become(KeepAliveCheck(State, o), "loop")
    BY DEF FinishDoWork
<1>2. pc = "recv" /\ chunk = <<>> /\ chunk' = chunk
    BY DEF FinishDoWork
<1>3. Sound(State) /\ SessionAt(State, "recv", <<>>)
    BY <1>2, InDoWork DEF GreetInv
<1> DEFINE t == KeepAliveCheck(State, o)
<1>4. Keeps(State, t)
    BY <1>3, KeepAliveCheckKeeps
<1>5. CASE ~Ungreeted(State)
    <2>1. Courteous(State, t)
        BY <1>3, KeepAliveCheckTells DEF Tells, Wanes
    <2> HIDE DEF t
    <2> QED BY <1>1, <1>2, <1>4, <1>5, <2>1, CourteousTurn DEF t
<1>6. CASE Ungreeted(State)
    <2>1. ~State.link.accepted
        BY <1>6 DEF GreetInv, Greeting, GreetingAt, Reserved
    <2>2. State.client.clientConnected => ~OnOpenTransport(State)
        BY <1>3, <2>1 DEF SessionAt, OnlySession, Replaced
    <2>3. HangsUp(State, t)
        BY <1>3, <2>2, KeepAliveHangsUp
    <2> HIDE DEF t
    <2> QED BY <1>1, <1>2, <1>4, <2>3, HangsUpTurn DEF t
<1> QED BY <1>5, <1>6

-----------------------------------------------------------------------------
\* A transport is freed together with its connection.
LEMMA DiscardDown ==
    ASSUME NEW s, Empty(Discard(s)), s.comm.xioHandle = NULL => s.link.net = "down"
    PROVE  Discard(s).link.net = "down"
<1> DEFINE h == s.comm.xioHandle
           c == Shut(s, h)
           e == [c EXCEPT !.xio[h].st = "error"]
           n == IF Tls /\ h # NULL /\ c.xio[h].tls = "shaken" THEN SetError(e) ELSE c
           d == [n EXCEPT !.xio[h] = NoTransport, !.link = NoLink]
<1>1. CASE h = NULL
    BY <1>1 DEF Discard, XioCloseQuietly, XioDestroy
<1>2. CASE h # NULL
    <2>1. Discard(s) = d
        BY <1>2 DEF Discard, XioCloseQuietly, XioDestroy
    <2> HIDE DEF n
    <2>2. d \in System
        BY <2>1 DEF Empty
    <2>3. d.link = NoLink
        BY <2>2 DEF System
    <2> QED BY <2>1, <2>3 DEF NoLink
<1> QED BY <1>1, <1>2

\* Without a connection nothing is to be said of the broker.
LEMMA DownGreets ==
    ASSUME NEW s, NEW p, s.link.net = "down", s.comm.xioHandle = NULL => Replaced(s, p),
           Become(s, p)
    PROVE  Greeting' /\ Greets
<1>1. GreetingAt(s, p, chunk')
    BY DEF GreetingAt, Reserved, Ungreeted
<1> QED BY <1>1, BecomeGreets

\* case MQTT_ERROR.
LEMMA ReconnectGreets == ASSUME GreetInv, Reconnect PROVE Greeting' /\ Greets
<1> DEFINE s == Discard(State)
<1>1. Sound(State) /\ State.comm.xioHandle # NULL
    BY StateSound
       DEF Reconnect, Reconnecting, GreetInv, SessionInv, Greeting, GreetingAt, Replaced, State
<1>2. Empty(s) /\ s.link.net = "down"
    BY <1>1, DiscardEmpties, DiscardDown
<1>3. PICK h \in Handles \cup {NULL} :
        Become([XioCreate(s, h) EXCEPT !.comm.state = "CONNECTING"], "loop")
    BY DEF Reconnect, FreeHandles
<1> HIDE DEF s
<1> DEFINE t == [XioCreate(s, h) EXCEPT !.comm.state = "CONNECTING"]
<1>4. t.comm.state = "CONNECTING" /\ t.link = s.link
    BY <1>2 DEF XioCreate, Empty, System, Communicator
<1> HIDE DEF t
<1> QED BY <1>2, <1>3, <1>4, DownGreets DEF Replaced, t

\* Entering the retry loop.
LEMMA StartConnectingGreets == ASSUME GreetInv, StartConnecting PROVE Greeting' /\ Greets
<1>1. Become(State, "connecting") /\ State.link.net = "down"
    BY DEF StartConnecting, GreetInv, Greeting, GreetingAt, Replaced, State
<1> QED BY <1>1, DownGreets DEF Replaced

\* onOpenComplete on a transport that could not be opened.
LEMMA OpenFailedHangsUp ==
    ASSUME NEW s, Sound(s), NEW o
    PROVE  HangsUp(s, OnOpenComplete(s, FALSE, o))
BY CloseConnectionHangsUp, SetErrorHangsUp DEF OnOpenComplete, SetError

\* CONNECT is sent on a new connection with nothing pending: it reaches the broker, is
\* the first to wait, or is lost, and nothing else is sent.
LEMMA ConnectReserved ==
    ASSUME NEW s, Sound(s), s.link = FreshLink, ConnectPending(s), NEW o \in SendOutcomes
    PROVE  LET t == ClientSend(s, "CONNECT", o)
           IN  Reserved(t, <<>>) /\ t.link.net # "reset"
<1> DEFINE a == [s EXCEPT !.client.packetState = "CONNECT"]
           b == [a EXCEPT !.client.packetSendTimeMs = a.now]
           h == b.client.xioHandle
           r == XioSendResult(b, h, o)
           t == XioSend(b, h, "CONNECT", o)
<1>1. FreshLink.net = "up" /\ FreshLink.owed = {} /\ ~FreshLink.accepted
    BY DEF FreshLink, NoLink
<1>2. ASSUME NEW u, u.link = FreshLink, u.xio = s.xio, u.comm = s.comm
      PROVE  Reserved(u, <<>>) /\ u.link.net # "reset"
    BY <1>1, <1>2 DEF Reserved, ConnectPending
<1>3. /\ Sound(b) /\ b.link = FreshLink /\ b.xio = s.xio /\ b.comm = s.comm
      /\ a.client.xioHandle = b.client.xioHandle
    BY DEF Sound, Live, System, Client, PacketStates
<1>4. ClientSend(s, "CONNECT", o) = IF o = "noPacket" THEN s ELSE t
    BY <1>3 DEF ClientSend, SendPacketItem
<1> HIDE DEF b
<1>5. ASSUME NEW u, HangsUp(b, u), u.comm.xioHandle = b.comm.xioHandle
      PROVE  Reserved(u, <<>>) /\ u.link.net # "reset"
    <2>1. Reserved(b, <<>>)
        BY <1>2, <1>3
    <2>2. Reserved(u, <<>>)
        BY <1>5, <2>1, ReservedHangsUp
    <2> QED BY <1>1, <1>3, <1>5, <2>2, HangsUpCourteous
<1>6. ASSUME r # "refused"
      PROVE  h \in Handles /\ h = b.comm.xioHandle
    BY <1>3, <1>6 DEF XioSendResult, IsOpen, Sound, System, Communicator
<1>7. CASE r = "ok"
    <2> DEFINE l == Delivered(FreshLink, "CONNECT")
               u == [b EXCEPT !.link = l]
               v == SendComplete(u)
    <2>1. l \in Link /\ l.asked /\ l.net = "up"
        BY DEF Delivered, FreshLink, NoLink, Link, Answer, Requests, Replies
    <2> HIDE DEF l
    <2>2. Sound(u) /\ u.link = l
        BY <1>3, <2>1, LinkSet DEF Keeps, Sound, System
    <2>3. t = v
        BY <1>3, <1>7 DEF XioSend, l
    <2> HIDE DEF u
    <2>4. HangsUp(u, v)
        BY <2>2, SendCompleteHangsUp
    <2> HIDE DEF v
    <2>5. ~Ungreeted(v) /\ v.link.net # "reset"
        BY <2>1, <2>2, <2>4, HangsUpCourteous DEF Ungreeted
    <2> HIDE DEF t
    <2>6. Reserved(t, <<>>) /\ t.link.net # "reset"
        BY <2>3, <2>5, ReservedGreeted
    <2> QED BY <1>2, <1>4, <2>6
<1>8. CASE r = "queued"
    <2> DEFINE q == Append(b.xio[h].pending, "CONNECT")
               u == [b EXCEPT !.xio[h].pending = q]
    <2>1. h \in Handles /\ h = b.comm.xioHandle
        BY <1>6, <1>8
    <2>2. b.xio \in [Handles -> Transport] /\ b.xio[h].pending \in Seq(Requests)
        BY <1>3, <2>1 DEF Sound, System, Transport
    <2>3. q # <<>> /\ Head(q) = "CONNECT"
        <3> DEFINE k == b.xio[h].pending
        <3>1. k # <<>> => Head(k) = "CONNECT"
            BY <1>3, <2>1 DEF ConnectPending
        <3>2. k \in Seq(Requests)
            BY <2>2
        <3>3. q = Append(k, "CONNECT")
            OBVIOUS
        <3> HIDE DEF k, q
        <3>4. k = <<>> \/ Head(q) = Head(k)
            BY <3>2, <3>3
        <3>5. k = <<>> => Head(q) = "CONNECT"
            BY <3>3
        <3>6. q # <<>>
            BY <3>2, <3>3
        <3> QED BY <3>1, <3>4, <3>5, <3>6
    <2> HIDE DEF q
    <2>4. u.xio[h].pending = q /\ u.comm = b.comm /\ u.link = FreshLink
        BY <1>3, <2>1, <2>2 DEF Sound, System, Transport
    <2>5. t = u
        BY <1>8 DEF XioSend, q
    <2> HIDE DEF u, t
    <2>6. Reserved(t, <<>>) /\ t.link.net # "reset"
        BY <1>1, <2>1, <2>3, <2>4, <2>5 DEF Reserved, ConnectPending
    <2> QED BY <1>2, <1>4, <2>6
<1>9. CASE r = "dropped"
    <2> DEFINE u == [b EXCEPT !.link.net = "silent"]
    <2>1. t = IF Tls THEN u ELSE b
        BY <1>9 DEF XioSend
    <2>2. u.link.net = "silent"
        BY <1>3 DEF Sound, System, Link
    <2> HIDE DEF t, u
    <2>3. Reserved(t, <<>>) /\ t.link.net # "reset"
        BY <1>2, <1>3, <2>1, <2>2, ReservedGreeted DEF Ungreeted
    <2> QED BY <1>2, <1>4, <2>3
<1>10. CASE r = "fail"
    <2> DEFINE u == [b EXCEPT !.xio[h].st = "error"]
               v == SetError(u)
    <2>1. t = IF Tls THEN v ELSE b
        BY <1>10 DEF XioSend
    <2>2. Keeps(b, u) /\ HangsUp(b, u)
        BY <1>3, <1>6, <1>10, ErrorMarked, ErrorMarkedHangsUp
    <2> HIDE DEF u
    <2>3. Keeps(u, v) /\ HangsUp(u, v)
        BY <2>2, SetErrorKeeps, SetErrorHangsUp DEF Keeps
    <2> HIDE DEF v, t
    <2>4. HangsUp(b, v) /\ v.comm.xioHandle = b.comm.xioHandle
        BY <2>2, <2>3, HangsUpTwice DEF Keeps
    <2>5. Reserved(t, <<>>) /\ t.link.net # "reset"
        BY <1>2, <1>3, <1>5, <2>1, <2>4
    <2> QED BY <1>2, <1>4, <2>5
<1>11. CASE r = "refused"
    <2>1. t = b
        BY <1>11 DEF XioSend
    <2> HIDE DEF t
    <2> QED BY <1>2, <1>3, <1>4, <2>1
<1>12. o # "noPacket" => r \in {"refused", "ok", "queued", "dropped", "fail"}
    BY DEF XioSendResult, SendOutcomes, XioSendOutcomes
<1>13. CASE o = "noPacket"
    BY <1>2, <1>4, <1>13
<1> QED BY <1>7, <1>8, <1>9, <1>10, <1>11, <1>12, <1>13

\* onOpenComplete on a transport just opened.
LEMMA OpenedReserved ==
    ASSUME NEW s, Sound(s), ConnectPending(s), s.link = FreshLink, NEW o \in SendOutcomes
    PROVE  Reserved(OnOpenComplete(s, TRUE, o), <<>>)
<1> DEFINE r == [s EXCEPT !.client.packetState = "CONNECT",
                          !.client.socketConnected = TRUE]
           t == ClientSend(r, "CONNECT", o)
           c == CloseConnection(s)
<1>1. OnOpenComplete(s, TRUE, o) = IF s.client.socketConnected THEN c ELSE t
    BY DEF OnOpenComplete
<1>2. Sound(r) /\ r.link = s.link /\ r.xio = s.xio /\ r.comm = s.comm
    BY DEF Sound, Live, System, Client, PacketStates
<1> HIDE DEF r
<1>3. ConnectPending(r)
    BY <1>2 DEF ConnectPending
<1>4. Reserved(t, <<>>)
    BY <1>2, <1>3, ConnectReserved
<1>5. Reserved(s, <<>>)
    BY DEF Reserved, FreshLink, NoLink
<1>6. HangsUp(s, c) /\ c.comm.xioHandle = s.comm.xioHandle
    BY CloseConnectionHangsUp, CloseConnectionKeeps DEF Keeps
<1> HIDE DEF t, c
<1>7. Reserved(c, <<>>)
    BY <1>5, <1>6, ReservedHangsUp
<1> QED BY <1>1, <1>4, <1>7

\* On a connection already lost nothing reaches the broker.
LEMMA OpenedLate ==
    ASSUME NEW s, Sound(s), ~Ungreeted(s), NEW o \in SendOutcomes
    PROVE  ~Ungreeted(OnOpenComplete(s, TRUE, o))
<1> DEFINE r == [s EXCEPT !.client.packetState = "CONNECT",
                          !.client.socketConnected = TRUE]
           t == ClientSend(r, "CONNECT", o)
           c == CloseConnection(s)
<1>1. OnOpenComplete(s, TRUE, o) = IF s.client.socketConnected THEN c ELSE t
    BY DEF OnOpenComplete
<1>2. Sound(r) /\ r.link = s.link
    BY DEF Sound, Live, System, Client, PacketStates
<1> HIDE DEF r
<1>3. Courteous(r, t)
    BY <1>2, ClientSendTells DEF Tells, Wanes
<1>4. Courteous(s, c)
    BY CloseConnectionHangsUp, HangsUpCourteous
<1> HIDE DEF t, c
<1> QED BY <1>1, <1>2, <1>3, <1>4 DEF Courteous, Ungreeted

\* mqtt_client_connect on a transport that was never opened.
LEMMA ConnectGreets ==
    ASSUME NEW s, s \in System, Live(s), s.comm.xioHandle # NULL, Untouched(s),
           s.link.net = "down", NEW open \in OpenOutcomes, NEW o \in SendOutcomes
    PROVE  LET t == Connect(s, s.comm.xioHandle, open, o)
           IN  /\ t.comm.xioHandle = s.comm.xioHandle
               /\ Reserved(t, <<>>)
               /\ ~ConnectSucceeds(s, s.comm.xioHandle, open) => t.link.net = "down"
<1> DEFINE h == s.comm.xioHandle
           t == [s EXCEPT !.client.xioHandle = h, !.client.packetState = "UNKNOWN"]
           k == IF Tls THEN "shaken" ELSE "fresh"
           u == [t EXCEPT !.xio[h].st = "open", !.link = FreshLink,
                          !.xio[h].tls = IF Tls THEN "shaken" ELSE "fresh"]
           f == OnOpenComplete(t, FALSE, o)
           l == [FreshLink EXCEPT !.net = "reset"]
           v == [f EXCEPT !.xio[h].st = "open", !.xio[h].tls = "shaken",
                          !.link = [FreshLink EXCEPT !.net = "reset"]]
           w == [f EXCEPT !.xio[h].tls = "used"]
           cu == OnOpenComplete(u, TRUE, o)
           cv == OnOpenComplete(v, TRUE, o)
           x == [s.xio[h] EXCEPT !.st = "open", !.tls = k]
<1>1. h \in Handles
    BY DEF System, Communicator
<1>2. s.xio[h].st = "closed" /\ s.xio[h].pending = <<>>
    BY DEF Untouched, NewTransport, NoTransport
<1>3. /\ Sound(t) /\ t.comm = s.comm /\ t.client.xioHandle = h
      /\ t.xio = s.xio /\ t.link = s.link
    BY DEF Sound, Live, System, Client, Communicator, PacketStates
<1>4. Connect(s, h, open, o) = CASE open = "noMem"   -> t
                                 [] open = "ok"      -> cu
                                 [] open = "late"    -> cv
                                 [] open = "tlsFail" -> w
                                 [] OTHER            -> f
    <2>1. Connect(s, h, open, o) =
            IF h = NULL THEN s
            ELSE IF open = "noMem" THEN t
            ELSE IF s.xio[h].st # "closed" THEN IF Tls THEN t ELSE f
            ELSE CASE open = "ok"      -> cu
                   [] open = "late"    -> cv
                   [] open = "tlsFail" -> w
                   [] OTHER            -> f
        BY DEF Connect
    <2>2. h # NULL
        OBVIOUS
    <2> HIDE DEF h, cu, cv, w, f, t
    <2> QED BY <1>2, <2>1, <2>2
<1>5. u = Opening(t, h, k, FreshLink) /\ v = Opening(f, h, "shaken", l)
    BY <1>1, <1>3 DEF Opening, Sound, System
<1>6. /\ FreshLink \in Link /\ l \in Link /\ l.net = "reset"
      /\ k \in TlsContexts /\ "shaken" \in TlsContexts
    BY DEF FreshLink, NoLink, Link, TlsContexts
<1>7. s.xio \in [Handles -> Transport] /\ s.xio[h] \in Transport
    BY <1>1 DEF System
<1>8. u.xio = [s.xio EXCEPT ![h] = x] /\ u.link = FreshLink /\ x.pending = <<>>
    BY <1>1, <1>2, <1>3, <1>7 DEF Sound, System, Transport
<1> HIDE DEF t, u, l, k, x
<1>9. Keeps(t, f) /\ HangsUp(t, f)
    BY <1>3, OnOpenCompleteKeeps, OpenFailedHangsUp
<1> HIDE DEF f
<1>10. f.comm.xioHandle = h /\ f.link.net = "down" /\ Sound(f)
    BY <1>3, <1>9, HangsUpCourteous DEF Keeps
<1>11. v.link = l
    BY <1>10 DEF Sound, System, l
<1> HIDE DEF v
<1>12. Sound(u) /\ u.comm.xioHandle = h
    BY <1>1, <1>3, <1>5, <1>6, OpeningAlone
<1>13. Sound(v) /\ v.comm.xioHandle = h
    BY <1>1, <1>5, <1>6, <1>10, OpeningAlone
<1>14. w.comm = f.comm /\ w.link = f.link
    BY <1>10 DEF Sound, System
<1>15. Reserved(cu, <<>>) /\ cu.comm.xioHandle = h
    <2>1. ConnectPending(u)
        BY <1>1, <1>7, <1>8, <1>12 DEF ConnectPending
    <2> QED BY <1>8, <1>12, <2>1, OpenedReserved, OnOpenCompleteKeeps DEF Keeps
<1>16. Reserved(cv, <<>>) /\ cv.comm.xioHandle = h
    <2>1. ~Ungreeted(v)
        BY <1>6, <1>11 DEF Ungreeted
    <2> QED BY <1>13, <2>1, OpenedLate, ReservedGreeted, OnOpenCompleteKeeps DEF Keeps
<1> HIDE DEF w, cu, cv
<1> DEFINE Down(q) == q.comm.xioHandle = h /\ q.link.net = "down"
<1>17. Down(t) /\ Down(f) /\ Down(w)
    BY <1>3, <1>10, <1>14
<1>18. \A q : Down(q) => Reserved(q, <<>>)
    BY ReservedGreeted DEF Ungreeted
<1>19. ConnectSucceeds(s, h, open) <=> open \in {"ok", "late", "tlsFail"}
    BY <1>2 DEF ConnectSucceeds, OpenOutcomes
<1> DEFINE r == Connect(s, h, open, o)
<1>20. \/ r \in {t, f, w}
       \/ open = "ok" /\ r = cu
       \/ open = "late" /\ r = cv
    BY <1>4
<1> HIDE DEF r, Down
<1>21. CASE r \in {t, f, w}
    BY <1>17, <1>18, <1>21 DEF Down, r
<1>22. CASE open = "ok" /\ r = cu
    BY <1>15, <1>19, <1>22 DEF r
<1>23. CASE open = "late" /\ r = cv
    BY <1>16, <1>19, <1>23 DEF r
<1> QED BY <1>20, <1>21, <1>22, <1>23

\* In the retry loop there is no connection.
LEMMA RetryDown ==
    ASSUME GreetInv, pc = "connecting"
    PROVE  /\ State \in System /\ Live(State) /\ Untouched(State) /\ State.comm = comm
           /\ State.link.net = "down" /\ chunk = <<>>
BY StateSound, AtLoop
   DEF GreetInv, SessionInv, Greeting, GreetingAt, Replaced, Reconnecting, State

\* One attempt of the retry loop.
LEMMA TryConnectGreets == ASSUME GreetInv, TryConnect PROVE Greeting' /\ Greets
<1>1. PICK open \in OpenOutcomes, o \in SendOutcomes :
        LET s == Connect(State, comm.xioHandle, open, o)
        IN  IF ~ConnectSucceeds(State, comm.xioHandle, open)
            THEN Become(s, "connecting")
            ELSE IF s.comm.state = "CONNECTING"
            THEN Become([s EXCEPT !.comm.state = "CONNECTED"], "loop")
            ELSE Become(s, "loop")
    BY DEF TryConnect
<1> DEFINE h == comm.xioHandle
           s == Connect(State, h, open, o)
           t == [s EXCEPT !.comm.state = "CONNECTED"]
           ok == ConnectSucceeds(State, h, open)
<1>2. /\ State \in System /\ Live(State) /\ Untouched(State) /\ State.comm.xioHandle = h
      /\ State.link.net = "down" /\ link.net = "down" /\ chunk' = <<>>
    BY RetryDown DEF TryConnect, State
<1>3. CASE h = NULL
    <2>1. Become(State, "connecting")
        BY <1>1, <1>3 DEF Connect, ConnectSucceeds
    <2> QED BY <1>2, <2>1, DownGreets DEF Replaced
<1>4. CASE h # NULL
    <2>1. /\ Sound(s) /\ s.comm.xioHandle = h /\ Reserved(s, <<>>)
          /\ ~ok => s.link.net = "down"
        BY <1>2, <1>4, ConnectSound, ConnectGreets
    <2>2. \/ ~ok /\ Become(s, "connecting")
          \/ s.comm.state = "CONNECTING" /\ Become(t, "loop")
          \/ s.comm.state # "CONNECTING" /\ Become(s, "loop")
        BY <1>1
    <2> HIDE DEF s, ok
    <2>3. /\ t.xio = s.xio /\ t.link = s.link /\ t.comm.xioHandle = h
          /\ t.comm.state = "CONNECTED"
        BY <2>1 DEF Sound, System, Communicator
    <2> HIDE DEF t
    <2>4. CASE ~ok /\ Become(s, "connecting")
        BY <2>1, <2>4, DownGreets DEF Replaced
    <2>5. CASE s.comm.state = "CONNECTING" /\ Become(t, "loop")
        <3>1. Reserved(t, <<>>)
            BY <2>1, <2>3, ReservedUnseen
        <3>2. GreetingAt(t, "loop", <<>>)
            BY <1>4, <2>3, <3>1 DEF GreetingAt, Replaced
        <3> QED BY <1>2, <2>5, <3>2, BecomeGreets
    <2>6. CASE s.comm.state # "CONNECTING" /\ Become(s, "loop")
        <3>1. GreetingAt(s, "loop", <<>>)
            BY <1>4, <2>1, <2>6 DEF GreetingAt, Replaced
        <3> QED BY <1>2, <2>6, <3>1, BecomeGreets
    <2> QED BY <2>2, <2>4, <2>5, <2>6
<1> QED BY <1>3, <1>4

\* A handshake that never returns.
LEMMA HandshakeStallsGreets == ASSUME GreetInv, HandshakeStalls PROVE Greeting' /\ Greets
<1> DEFINE h == comm.xioHandle
           r == [State EXCEPT !.client.xioHandle = comm.xioHandle,
                              !.client.packetState = "UNKNOWN"]
           t == [r EXCEPT !.xio[h].tls = "used"]
           f == OnOpenComplete(t, FALSE, "ok")
<1>1. State \in System /\ Live(State) /\ State.comm = comm /\ State.link.net = "down"
    BY RetryDown DEF HandshakeStalls
<1>2. h \in Handles /\ h # NULL
    BY <1>1 DEF HandshakeStalls, System, Communicator
<1>3. Sound(r) /\ r.comm = comm /\ r.link = State.link
    BY <1>1 DEF Sound, Live, System, Client, Communicator, PacketStates
<1>4. t = [State EXCEPT !.client.xioHandle = comm.xioHandle,
                        !.client.packetState = "UNKNOWN",
                        !.xio[comm.xioHandle].tls = "used"]
    BY <1>1 DEF System
<1>5. Become(t, "hung") \/ Become(f, "hung")
    BY <1>4 DEF HandshakeStalls
<1> HIDE DEF r
<1>6. Keeps(r, t) /\ t.link = State.link
    BY <1>2, <1>3, ContextUsed DEF Sound, System
<1> HIDE DEF t
<1>7. Keeps(t, f) /\ HangsUp(t, f)
    BY <1>6, OnOpenCompleteKeeps, OpenFailedHangsUp
       DEF Keeps, SendOutcomes, XioSendOutcomes
<1> HIDE DEF f
<1>8. /\ t.link.net = "down" /\ t.comm.xioHandle # NULL
      /\ f.link.net = "down" /\ f.comm.xioHandle # NULL
    BY <1>1, <1>2, <1>3, <1>6, <1>7, HangsUpCourteous DEF Keeps
<1> QED BY <1>5, <1>8, DownGreets

\* Entering mqtt_client_dowork.
LEMMA DoWorkGreets == ASSUME GreetInv, DoWork PROVE Greeting' /\ Greets
<1>1. PICK p \in {"loop", "flush"} : Become(State, p)
    BY DEF DoWork
<1>2. chunk' = chunk /\ ~Replaced(State, "loop") /\ GreetingAt(State, "loop", chunk)
    BY DEF DoWork, GreetInv, Greeting, Replaced, State
<1>3. GreetingAt(State, p, chunk')
    BY <1>2 DEF GreetingAt, Replaced
<1>4. link.net = "up" => State.link.net # "reset"
    BY DEF State
<1> QED BY <1>1, <1>3, <1>4, BecomeGreets

\* The network and the clock: an ungreeted broker is not lost in silence.
LEMMA EnvironmentGreets ==
    ASSUME GreetInv, LinkFault \/ Tick \/ UNCHANGED vars
    PROVE  Greeting' /\ Greets
<1> DEFINE t == State'
<1>1. UNCHANGED <<comm, xio, pc, chunk>>
    BY DEF LinkFault, Tick, vars
<1>2. t.comm = State.comm /\ t.xio = State.xio /\ t.link = link' /\ State.link = link
    BY <1>1 DEF State
<1>3. Greeting' <=> GreetingAt(t, pc, chunk)
    BY <1>1 DEF Greeting
<1>4. \/ LinkFault /\ link.net = "up" /\ link'.net \in {"reset", "silent"}
      \/ link' = link
    <2>1. CASE LinkFault
        <3>1. link.net = "up" /\ \E f \in {"reset", "silent"} : link' = [link EXCEPT !.net = f]
            BY <2>1 DEF LinkFault
        <3>2. link \in Link
            BY DEF GreetInv, SessionInv, IInv, TypeOK
        <3>3. link'.net \in {"reset", "silent"}
            BY <3>1, <3>2 DEF Link
        <3> QED BY <2>1, <3>1, <3>3
    <2>2. CASE Tick \/ UNCHANGED vars
        BY <2>2 DEF Tick, vars
    <2> QED BY <2>1, <2>2
<1> HIDE DEF t
<1>5. GreetingAt(State, pc, chunk)
    BY DEF GreetInv, Greeting
<1>6. CASE LinkFault /\ link.net = "up" /\ link'.net \in {"reset", "silent"}
    BY <1>2, <1>3, <1>5, <1>6 DEF GreetingAt, Reserved, Ungreeted, Replaced, Greets
<1>7. CASE link' = link
    <2>1. Reserved(t, chunk)
        BY <1>2, <1>5, <1>7, ReservedUnseen DEF GreetingAt
    <2>2. GreetingAt(t, pc, chunk)
        BY <1>2, <1>5, <1>7, <2>1 DEF GreetingAt, Replaced
    <2> QED BY <1>3, <1>7, <2>2 DEF Greets
<1> QED BY <1>4, <1>6, <1>7

\* The monitor task restarts the application.
LEMMA WatchdogGreets == ASSUME GreetInv, Watchdog PROVE Greeting' /\ Greets
<1> DEFINE s == Discard(State)
<1>1. Empty(s) /\ s.link.net = "down"
    <2>1. Empty(s)
        BY MonitorEmpties DEF GreetInv, SessionInv
    <2>2. State.comm.xioHandle = NULL => State.link.net = "down"
        BY DEF GreetInv, Greeting, GreetingAt
    <2> QED BY <2>1, <2>2, DiscardDown
<1>2. PICK h \in Handles :
        Become([XioCreate(s, h) EXCEPT !.client = Renewed(s.client),
                                       !.comm.state = "CONNECTING",
                                       !.comm.packetId = 1], "loop")
    BY DEF Watchdog, Restart, FreeHandles
<1> HIDE DEF s
<1> DEFINE w == Renewed(s.client)
           t == [XioCreate(s, h) EXCEPT !.client = w,
                                        !.comm.state = "CONNECTING",
                                        !.comm.packetId = 1]
<1>3. t.comm.state = "CONNECTING" /\ t.link = s.link
    BY <1>1 DEF XioCreate, Empty, System, Communicator
<1>4. Become(t, "loop")
    BY <1>2
<1> HIDE DEF t
<1> QED BY <1>1, <1>3, <1>4, DownGreets DEF Replaced

-----------------------------------------------------------------------------
\* Every step leaves CONNECT first.
LEMMA StepGreets == ASSUME GreetInv, [AppNext]_vars PROVE Greeting' /\ Greets
<1>1. CASE Process
    BY <1>1, ReconnectGreets, StartConnectingGreets, TryConnectGreets, HandshakeStallsGreets,
       DoWorkGreets, FlushSendsGreets, FlushEndsGreets, FlushFailsGreets, RecvFailsGreets,
       RecvGreets, DispatchGreets, DispatchNoMemoryGreets, FinishDoWorkGreets DEF Process
<1> QED BY <1>1, WatchdogGreets, EnvironmentGreets DEF AppNext, Next

\* The task starts without a connection.
LEMMA InitGreets == ASSUME Init PROVE Greeting
<1>1. /\ State.link.net = "down" /\ State.comm.state = "CONNECTING" /\ pc = "loop"
    BY DEF Init, State, NoLink
<1> QED BY <1>1 DEF Greeting, GreetingAt, Reserved, Ungreeted, Replaced

\* [MQTT-3.1.0-1]: whatever is lost, queued or fails while CONNECT is sent, which
\* onOpenComplete only logs, and whatever the application and the keep-alive check then
\* do, no other packet is the first of a connection: it is lost only with the network.
THEOREM ConnectFirst == AppSpec => ConnectIsFirst
<1>1. Init => GreetInv
    BY InitIInv, InitSession, InitGreets DEF GreetInv, SessionInv
<1>2. GreetInv /\ [AppNext]_vars => GreetInv'
    BY StepGreets, SessionInductive DEF GreetInv
<1>3. GreetInv /\ [AppNext]_vars
        => [link.net = "up" /\ link'.net = "reset" => LinkFault]_vars
    BY StepGreets DEF Greets
<1> QED BY <1>1, <1>2, <1>3, AppSteps, PTL DEF ConnectIsFirst
=============================================================================
