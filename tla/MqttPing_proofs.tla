---------------------------- MODULE MqttPing_proofs ----------------------------
(***************************************************************************)
(* Proof that the no-ping-response error is raised only for a PINGREQ of   *)
(* this connection that is unanswered, over a plain socket whose sends all *)
(* go through: whatever opens and allocations fail, peers fall silent,     *)
(* brokers refuse, packets are cut by recv or garbled by the codec, and    *)
(* however the clock runs and the monitor restarts the task.               *)
(***************************************************************************)
EXTENDS MqttKeepAlive_proofs

\* The faults that lose no packet the client sends, end no connection behind its
\* back and break none of its packets.  Each of the others makes the client forget
\* a ping, or a session under a ping.
CalmFaults == {"open", "noMem", "tlsFail", "stall", "silent", "refuse", "split"}

\* Then every packet the client sends can be built, and the socket takes it.
LEMMA CalmSends ==
    ASSUME FaultKinds \subseteq CalmFaults, NEW x, NEW o \in SendOutcomes
    PROVE  /\ Spend(<<o>>) => o = "ok"
           /\ Spend(<<x, o>>) => o = "ok"
           /\ Spend(<<o, x>>) => o = "ok"
<1>1. o \notin CalmFaults
    BY DEF CalmFaults, SendOutcomes, XioSendOutcomes
<1>2. ASSUME Spend(<<o>>) PROVE o = "ok"
    <2>1. 1 \in DOMAIN <<o>> /\ <<o>>[1] = o
        OBVIOUS
    <2> QED BY <1>1, <1>2, <2>1 DEF Spend, Faulty
<1>3. ASSUME Spend(<<x, o>>) PROVE o = "ok"
    <2>1. 2 \in DOMAIN <<x, o>> /\ <<x, o>>[2] = o
        OBVIOUS
    <2> QED BY <1>1, <1>3, <2>1 DEF Spend, Faulty
<1>4. ASSUME Spend(<<o, x>>) PROVE o = "ok"
    <2>1. 1 \in DOMAIN <<o, x>> /\ <<o, x>>[1] = o
        OBVIOUS
    <2> QED BY <1>1, <1>4, <2>1 DEF Spend, Faulty
<1> QED BY <1>2, <1>3, <1>4

-----------------------------------------------------------------------------
(***************************************************************************)
(* Calm: nothing is pending, and a connection is one on which the broker   *)
(* has seen CONNECT, behind the open transport of the communicator.        *)
(* Goes: what a packet the transport takes at once does, besides what it   *)
(* makes the broker owe; CONNECT excepted.                                 *)
(***************************************************************************)
Idle(s) == \A h \in Handles : s.xio[h].pending = <<>>

Wired(s) ==
    /\ s.link.net # "reset"
    /\ s.link.net # "down" => s.link.asked /\ IsOpen(s, s.comm.xioHandle)

Calm(s) == Idle(s) /\ Wired(s)

Goes(s, t) ==
    /\ t.now = s.now /\ t.xio = s.xio
    /\ t.comm.xioHandle = s.comm.xioHandle
    /\ t.client.xioHandle = s.client.xioHandle
    /\ t.client.clientConnected = s.client.clientConnected
    /\ t.client.timeSincePing = s.client.timeSincePing
    /\ t.client.packetSendTimeMs \in {s.client.packetSendTimeMs, s.now}
    /\ t.client.codec = s.client.codec
    /\ t.link.net = s.link.net /\ t.link.cut = s.link.cut
    /\ s.link.asked => t.link.asked
    /\ s.link.pinged => t.link.pinged
    /\ "CONNACK" \in t.link.owed => "CONNACK" \in s.link.owed

\* Sends compose.
LEMMA GoesTwice ==
    ASSUME NEW s, NEW t, NEW u, Goes(s, t), Goes(t, u)
    PROVE  Goes(s, u)
BY DEF Goes

\* Nothing happens.
LEMMA GoesSame == ASSUME NEW s PROVE Goes(s, s)
BY DEF Goes

\* They leave the connection calm and the transport open.
LEMMA GoesCalm ==
    ASSUME NEW s, NEW t, Goes(s, t)
    PROVE  /\ Calm(s) => Calm(t)
           /\ OnOpenTransport(t) <=> OnOpenTransport(s)
           /\ Serving(t) <=> Serving(s)
BY DEF Goes, Calm, Idle, Wired, OnOpenTransport, IsOpen, Serving

\* Setting the communicator's state is no send.
LEMMA GoesState ==
    ASSUME NEW s, s \in System, NEW c
    PROVE  LET t == [s EXCEPT !.comm.state = c]
           IN  Goes(s, t) /\ t.client = s.client /\ t.comm.state = c
BY DEF Goes, System, Communicator

\* A packet reaching the broker on a connection that began with CONNECT.
LEMMA DeliveredGoes ==
    ASSUME NEW l \in Link, l.net = "up" => l.asked, NEW p \in Requests \ {"CONNECT"}
    PROVE  LET d == Delivered(l, p)
           IN  /\ d.net = l.net /\ d.cut = l.cut /\ d.asked = l.asked /\ d.pinged = l.pinged
               /\ "CONNACK" \in d.owed => "CONNACK" \in l.owed
<1>1. "CONNACK" \notin Answer[p]
    BY DEF Answer, Requests
<1> DEFINE d == Delivered(l, p)
           e == [l EXCEPT !.asked = TRUE, !.owed = @ \cup Answer[p]]
<1>2. d = l \/ (l.asked /\ d = e)
    BY DEF Delivered
<1>3. /\ e.net = l.net /\ e.cut = l.cut /\ e.asked = TRUE /\ e.pinged = l.pinged
      /\ e.owed = l.owed \cup Answer[p]
    BY DEF Link
<1> HIDE DEF d, e
<1>4. l.asked \in BOOLEAN
    BY DEF Link
<1> QED BY <1>1, <1>2, <1>3, <1>4 DEF d

\* sendPacketItem, while nothing is pending: the packet goes out on an open transport.
LEMMA SendGoes ==
    ASSUME ~Tls, NEW s, Sound(s), Calm(s), s.client.packetState # "DISCONNECT",
           NEW p \in Requests \ {"CONNECT"}
    PROVE  LET t == SendPacketItem(s, p, "ok")
           IN  /\ Goes(s, t) /\ t.comm = s.comm
               /\ t.client.packetSendTimeMs = s.now
               /\ t.client.packetState = s.client.packetState
               /\ p = "PINGREQ" /\ OnOpenTransport(s) => t.link.pinged
<1> DEFINE h == s.client.xioHandle
           a == [s EXCEPT !.client.packetSendTimeMs = s.now]
           b == [a EXCEPT !.link.pinged = TRUE]
           handed == IF p = "PINGREQ" THEN b ELSE a
           d == [handed EXCEPT !.link = Delivered(@, p)]
           t == SendPacketItem(s, p, "ok")
<1>1. /\ a.xio = s.xio /\ a.link = s.link /\ a.comm = s.comm /\ a.now = s.now
      /\ a.client.xioHandle = s.client.xioHandle
      /\ a.client.clientConnected = s.client.clientConnected
      /\ a.client.timeSincePing = s.client.timeSincePing
      /\ a.client.packetSendTimeMs = s.now
      /\ a.client.codec = s.client.codec
      /\ a.client.packetState = s.client.packetState
      /\ a \in System
    BY DEF Sound, System, Client
<1>2. t = XioSend(a, h, p, "ok")
    BY DEF SendPacketItem
<1>3. Goes(s, a) /\ a.comm = s.comm
    BY <1>1 DEF Goes
<1>4. CASE ~OnOpenTransport(s)
    <2>1. XioSendResult(a, h, "ok") = "refused"
        BY <1>1, <1>4 DEF XioSendResult, OnOpenTransport, IsOpen
    <2>2. t = a
        BY <1>2, <2>1 DEF XioSend
    <2> HIDE DEF a, t
    <2> QED BY <1>1, <1>3, <1>4, <2>2 DEF t
<1>5. CASE OnOpenTransport(s)
    <2>1. h \in Handles /\ s.xio[h].pending = <<>> /\ s.link.net # "reset"
        BY <1>5 DEF OnOpenTransport, IsOpen, Sound, System, Communicator, Calm, Idle, Wired
    <2>2. XioSendResult(a, h, "ok") = "ok"
        BY <1>1, <1>5, <2>1 DEF XioSendResult, OnOpenTransport, IsOpen
    <2>3. t = SendComplete(d)
        BY <1>2, <2>2 DEF XioSend
    <2>4. /\ b.client = a.client /\ b.comm = a.comm /\ b.xio = a.xio /\ b.now = a.now
          /\ b.link \in Link
          /\ b.link.net = a.link.net /\ b.link.cut = a.link.cut
          /\ b.link.asked = a.link.asked /\ b.link.owed = a.link.owed
          /\ b.link.pinged = TRUE
          /\ b \in System
        <3> DEFINE l == [a.link EXCEPT !.pinged = TRUE]
        <3>1. /\ l \in Link /\ l.net = a.link.net /\ l.cut = a.link.cut
              /\ l.asked = a.link.asked /\ l.owed = a.link.owed /\ l.pinged = TRUE
            BY <1>1 DEF System, Link
        <3>2. b = [a EXCEPT !.link = l]
            OBVIOUS
        <3> HIDE DEF a, b, l
        <3> QED BY <1>1, <3>1, <3>2 DEF System
    <2> HIDE DEF a, b
    <2>5. /\ handed.client = a.client /\ handed.comm = a.comm
          /\ handed.xio = a.xio /\ handed.now = a.now
          /\ handed.link \in Link
          /\ handed.link.net = a.link.net /\ handed.link.cut = a.link.cut
          /\ handed.link.asked = a.link.asked /\ handed.link.owed = a.link.owed
          /\ a.link.pinged \/ p = "PINGREQ" => handed.link.pinged
          /\ handed \in System
        BY <1>1, <2>4 DEF System
    <2> HIDE DEF handed
    <2>6. handed.link.net = "up" => handed.link.asked
        BY <1>1, <2>5 DEF Calm, Wired
    <2> DEFINE l == Delivered(handed.link, p)
    <2>7. /\ l.net = handed.link.net /\ l.cut = handed.link.cut
          /\ l.asked = handed.link.asked /\ l.pinged = handed.link.pinged
          /\ "CONNACK" \in l.owed => "CONNACK" \in handed.link.owed
        BY <2>5, <2>6, DeliveredGoes
    <2>8. /\ d.client = handed.client /\ d.comm = handed.comm
          /\ d.xio = handed.xio /\ d.now = handed.now /\ d.link = l
        BY <2>5 DEF System
    <2> HIDE DEF d, l
    <2>9. t = d
        BY <1>1, <2>3, <2>5, <2>8 DEF SendComplete
    <2>10. Goes(s, d)
        BY <1>1, <2>5, <2>7, <2>8 DEF Goes
    <2> HIDE DEF t
    <2>11. /\ Goes(s, t) /\ t.comm = s.comm
           /\ t.client.packetSendTimeMs = s.now
           /\ t.client.packetState = s.client.packetState
           /\ p = "PINGREQ" => t.link.pinged
        BY <1>1, <2>5, <2>7, <2>8, <2>9, <2>10
    <2> QED BY <2>11 DEF t
<1> QED BY <1>4, <1>5

\* mqtt_client_publish and mqtt_client_subscribe succeed on an open transport.
LEMMA ClientSendGoes ==
    ASSUME ~Tls, NEW s, Sound(s), Calm(s), NEW p \in {"PUBLISH", "SUBSCRIBE"}
    PROVE  LET t == ClientSend(s, p, "ok")
           IN  /\ Goes(s, t) /\ t.comm = s.comm
               /\ t.client.packetSendTimeMs = s.now
               /\ OnOpenTransport(s) => ClientSendSucceeds(s, "ok")
<1> DEFINE a == [s EXCEPT !.client.packetState = p]
           t == SendPacketItem(a, p, "ok")
<1>1. /\ Sound(a) /\ a.client.packetState = p
      /\ a.comm = s.comm /\ a.xio = s.xio /\ a.link = s.link /\ a.now = s.now
      /\ a.client.xioHandle = s.client.xioHandle
      /\ a.client.clientConnected = s.client.clientConnected
      /\ a.client.timeSincePing = s.client.timeSincePing
      /\ a.client.packetSendTimeMs = s.client.packetSendTimeMs
      /\ a.client.codec = s.client.codec
    BY DEF Sound, Live, System, Client, PacketStates
<1>2. ClientSend(s, p, "ok") = t
    BY DEF ClientSend
<1> HIDE DEF a
<1>3. Goes(s, a) /\ Calm(a)
    BY <1>1 DEF Goes, Calm, Idle, Wired, IsOpen
<1>4. p \in Requests \ {"CONNECT"}
    BY DEF Requests
<1>5. Goes(a, t) /\ t.comm = a.comm /\ t.client.packetSendTimeMs = a.now
    BY <1>1, <1>3, <1>4, SendGoes
<1> HIDE DEF t
<1>6. Goes(s, t)
    BY <1>3, <1>5, GoesTwice
<1>7. ASSUME OnOpenTransport(s) PROVE ClientSendSucceeds(s, "ok")
    <2>1. s.client.xioHandle \in Handles
        BY <1>7 DEF OnOpenTransport, IsOpen, Sound, System, Communicator
    <2>2. XioSendResult(s, s.client.xioHandle, "ok") = "ok"
        BY <1>7, <2>1 DEF XioSendResult, OnOpenTransport, Calm, Idle, Wired
    <2> QED BY <2>2 DEF ClientSendSucceeds, SendPacketSucceeds, XioSendSucceeds
<1> QED BY <1>1, <1>2, <1>5, <1>6, <1>7

\* So MQTT_Comm_Publish reports no error there, and sends if the communicator is
\* connected.
LEMMA CommPublishGoes ==
    ASSUME ~Tls, NEW s, Sound(s), Calm(s)
    PROVE  LET t == CommPublish(s, "ok")
           IN  /\ Goes(s, t)
               /\ OnOpenTransport(s) => t.comm.state = s.comm.state
               /\ s.comm.state = "CONNECTED" => t.client.packetSendTimeMs = s.now
<1> DEFINE t == ClientSend(s, "PUBLISH", "ok")
           e == [t EXCEPT !.comm.state = "ERROR"]
<1>1. /\ Goes(s, t) /\ t.comm = s.comm
      /\ t.client.packetSendTimeMs = s.now
      /\ OnOpenTransport(s) => ClientSendSucceeds(s, "ok")
    BY ClientSendGoes
<1>2. t \in System
    BY ClientSendKeeps DEF Keeps, Sound, SendOutcomes, XioSendOutcomes
<1> HIDE DEF t
<1>3. Goes(s, e) /\ e.client = t.client
    BY <1>1, <1>2, GoesState, GoesTwice
<1>4. CommPublish(s, "ok") = IF s.comm.state # "CONNECTED" THEN s
                             ELSE IF ClientSendSucceeds(s, "ok") THEN t ELSE e
    BY DEF CommPublish, t
<1> HIDE DEF e
<1> QED BY <1>1, <1>3, <1>4, GoesSame

\* MQTT_Comm_Subcribe may report one: packetId 0.
LEMMA CommSubcribeGoes ==
    ASSUME ~Tls, NEW s, Sound(s), Calm(s)
    PROVE  Goes(s, CommSubcribe(s, "ok"))
<1> DEFINE n == [s EXCEPT !.comm.packetId = NextPacketId(@)]
           t == ClientSend(n, "SUBSCRIBE", "ok")
           en == [n EXCEPT !.comm.state = "ERROR"]
           et == [t EXCEPT !.comm.state = "ERROR"]
<1>1. s.comm.packetId \in PacketIds
    BY DEF Sound, System, Communicator
<1>2. NextPacketId(s.comm.packetId) \in PacketIds
    BY <1>1, CommAssumption DEF NextPacketId, PacketIds
<1>3. /\ Sound(n) /\ n.client = s.client /\ n.link = s.link
      /\ n.now = s.now /\ n.xio = s.xio /\ n.comm.xioHandle = s.comm.xioHandle
    BY <1>2 DEF Sound, Live, System, Communicator
<1>4. CommSubcribe(s, "ok") \in {en, t, et}
    <2>1. ClientSendSucceeds(s, "ok") \in BOOLEAN
        BY DEF ClientSendSucceeds
    <2> QED BY <2>1 DEF CommSubcribe
<1> HIDE DEF n
<1>5. Goes(s, n) /\ Calm(n)
    BY <1>3 DEF Goes, Calm, Idle, Wired, IsOpen
<1>6. Goes(n, t) /\ t \in System
    BY <1>3, <1>5, ClientSendGoes, ClientSendKeeps DEF Keeps, Sound, SendOutcomes, XioSendOutcomes
<1> HIDE DEF t
<1>7. Goes(n, en) /\ Goes(t, et)
    BY <1>3, <1>6, GoesState DEF Sound
<1> HIDE DEF en, et
<1>8. Goes(s, en) /\ Goes(s, t) /\ Goes(s, et)
    BY <1>5, <1>6, <1>7, GoesTwice
<1> QED BY <1>4, <1>8

\* recvCompleteCallback, for the packets that neither begin nor end a session nor
\* answer a ping.
LEMMA RecvCompleteGoes ==
    ASSUME ~Tls, NEW s, Sound(s), Calm(s), Unregistered(s),
           NEW p \in Received \ {"CONNACK", "REFUSED", "PINGRESP", "BAD"}, NEW qos \in 0..2
    PROVE  LET t == RecvComplete(s, p, qos, "ok", "ok")
           IN  Goes(s, t) /\ (OnOpenTransport(s) => t.comm.state = s.comm.state)
<1> DEFINE u == CommPublish(s, "ok")
           Fine(t) == Goes(s, t) /\ (OnOpenTransport(s) => t.comm.state = s.comm.state)
<1>0. "ok" \in SendOutcomes
    BY DEF SendOutcomes, XioSendOutcomes
<1>1. Fine(s) /\ Fine(u)
    BY GoesSame, CommPublishGoes
<1>2. Sound(u) /\ Unregistered(u)
    BY <1>0, CommPublishKeeps, CommPublishTells DEF Keeps, Tells, Quiet
<1> HIDE DEF u
<1>3. Calm(u)
    BY <1>1, GoesCalm
<1>4. \A q \in {"PUBREC", "PUBREL", "PUBCOMP"} :
        Fine(SendPacketItem(s, q, "ok")) /\ Fine(SendPacketItem(u, q, "ok"))
    <2> TAKE q \in {"PUBREC", "PUBREL", "PUBCOMP"}
    <2>1. q \in Requests \ {"CONNECT"}
        BY DEF Requests
    <2> DEFINE v == SendPacketItem(u, q, "ok")
               w == SendPacketItem(s, q, "ok")
    <2>2. Goes(s, w) /\ w.comm = s.comm
        BY <2>1, SendGoes DEF Unregistered
    <2>3. Goes(u, v) /\ v.comm = u.comm
        BY <1>2, <1>3, <2>1, SendGoes DEF Unregistered
    <2> HIDE DEF v, w
    <2>4. Goes(s, v)
        BY <1>1, <2>3, GoesTwice
    <2>5. Fine(w) /\ Fine(v)
        BY <1>1, <2>2, <2>3, <2>4
    <2> QED BY <2>5 DEF v, w
<1> HIDE DEF Fine
<1>5. Fine(OnMessage(s, qos, "ok", "ok"))
    <2>1. qos = 0 \/ qos = 1 \/ qos = 2
        OBVIOUS
    <2>2. OnMessage(s, qos, "ok", "ok") \in
            {u, SendPacketItem(u, "PUBCOMP", "ok"), SendPacketItem(u, "PUBREC", "ok")}
        BY <2>1 DEF OnMessage, Acknowledge, u
    <2> QED BY <1>1, <1>4, <2>2
<1>6. Fine(Acknowledge(s, "PUBREL", "ok")) /\ Fine(Acknowledge(s, "PUBCOMP", "ok"))
    BY <1>4 DEF Acknowledge
<1>7. Fine(RecvComplete(s, p, qos, "ok", "ok"))
    BY <1>1, <1>5, <1>6 DEF RecvComplete, Received, Replies, u
<1> QED BY <1>7 DEF Fine

\* A CONNACK or a refusal: the publish of the application is sent before anything is
\* reported.
LEMMA OnConnAckGoes ==
    ASSUME ~Tls, NEW s, Sound(s), Calm(s), NEW p
    PROVE  LET t == OnConnAck(s, p, "ok", "ok")
           IN  \E v : /\ Goes(s, v) /\ v.client.packetSendTimeMs = s.now
                      /\ t.now = v.now /\ t.xio = v.xio /\ t.comm = v.comm /\ t.link = v.link
                      /\ t.client.xioHandle = v.client.xioHandle
                      /\ t.client.timeSincePing = v.client.timeSincePing
                      /\ t.client.packetSendTimeMs = v.client.packetSendTimeMs
                      /\ t.client.codec = v.client.codec
                      /\ p # "CONNACK" => t.client.clientConnected = v.client.clientConnected
<1> DEFINE c == [s EXCEPT !.comm.state = "CONNECTED"]
           u == CommPublish(c, "ok")
           v == CommSubcribe(u, "ok")
           w == [v EXCEPT !.client.clientConnected = TRUE]
<1>0. "ok" \in SendOutcomes
    BY DEF SendOutcomes, XioSendOutcomes
<1>1. Goes(s, c) /\ Sound(c) /\ c.comm.state = "CONNECTED" /\ c.now = s.now
    BY StateSet, GoesState DEF CommStates, Keeps, Sound, System, Goes
<1>2. OnConnAck(s, p, "ok", "ok") = IF p = "CONNACK" THEN w ELSE v
    BY DEF OnConnAck
<1> HIDE DEF c
<1>3. Calm(c)
    BY <1>1, GoesCalm
<1>4. Sound(u) /\ Goes(c, u) /\ u.client.packetSendTimeMs = s.now
    BY <1>0, <1>1, <1>3, CommPublishKeeps, CommPublishGoes DEF Keeps
<1> HIDE DEF u
<1>5. Calm(u) /\ Goes(s, u)
    BY <1>1, <1>3, <1>4, GoesCalm, GoesTwice
<1>6. Sound(v) /\ Goes(u, v)
    BY <1>0, <1>4, <1>5, CommSubcribeKeeps, CommSubcribeGoes DEF Keeps
<1> HIDE DEF v
<1>7. Goes(s, v) /\ v.client.packetSendTimeMs = s.now
    BY <1>4, <1>5, <1>6, GoesTwice DEF Goes
<1>8. /\ w.now = v.now /\ w.xio = v.xio /\ w.comm = v.comm /\ w.link = v.link
      /\ w.client.xioHandle = v.client.xioHandle
      /\ w.client.timeSincePing = v.client.timeSincePing
      /\ w.client.packetSendTimeMs = v.client.packetSendTimeMs
      /\ w.client.codec = v.client.codec
    BY <1>6 DEF Sound, System, Client
<1> HIDE DEF w
<1> QED BY <1>2, <1>7, <1>8

-----------------------------------------------------------------------------
(***************************************************************************)
(* What closing a connection leaves: nothing pending, and the times of the *)
(* client, which close_connection does not touch.                          *)
(***************************************************************************)
Closes(s, t) ==
    /\ Idle(t) /\ t.now = s.now
    /\ t.client.timeSincePing = s.client.timeSincePing
    /\ t.client.packetSendTimeMs = s.client.packetSendTimeMs
    /\ \/ t.link = NoLink
       \/ t.link = s.link /\ \A g \in Handles : IsOpen(s, g) => IsOpen(t, g)

\* close_connection over a plain socket.
LEMMA CloseConnectionCloses ==
    ASSUME ~Tls, NEW s, Sound(s), Idle(s)
    PROVE  LET t == CloseConnection(s)
           IN  /\ Closes(s, t)
               /\ s.client.socketConnected /\ OnOpenTransport(s) => t.link = NoLink
<1> DEFINE h == s.client.xioHandle
           x == Shut(s, h)
           y == OnConnectionClosed(x)
           closed == IF CloseCallsBack(s, h) THEN y ELSE s
           worked == IF s.client.disconnect_cb THEN closed ELSE FailPending(closed, h)
           t == [worked EXCEPT !.client.xioHandle = NULL]
           c == CallDisconnectCb(s)
<1>1. CloseConnection(s) = IF s.client.socketConnected THEN t ELSE c
    BY DEF CloseConnection
<1>2. CASE ~s.client.socketConnected
    <2>1. /\ c.xio = s.xio /\ c.link = s.link /\ c.now = s.now
          /\ c.client.timeSincePing = s.client.timeSincePing
          /\ c.client.packetSendTimeMs = s.client.packetSendTimeMs
        BY DEF CallDisconnectCb, Sound, System, Client
    <2> HIDE DEF c
    <2>2. Closes(s, c)
        BY <2>1 DEF Closes, Idle, IsOpen
    <2> QED BY <1>1, <1>2, <2>2
<1>3. CASE s.client.socketConnected
    <2>1. CloseCallsBack(s, h) <=> h # NULL
        BY DEF CloseCallsBack
    <2>2. ASSUME h # NULL
          PROVE  /\ Sound(y) /\ Closes(s, y) /\ y.client \in Client
                 /\ OnOpenTransport(s) => y.link = NoLink
        <3>1. h \in Handles /\ h = s.comm.xioHandle
            BY <2>2 DEF Sound, System, Communicator
        <3>2. Sound(x)
            BY <3>1, ShutKeeps DEF Keeps
        <3>3. /\ x.client = s.client /\ x.now = s.now
              /\ x.xio = [s.xio EXCEPT ![h].st = "closed"]
              /\ x.link = IF s.xio[h].st = "closed" THEN s.link ELSE NoLink
            BY DEF Shut, Sound, System
        <3> HIDE DEF x
        <3>4. Sound(y)
            BY <3>2, OnConnectionClosedKeeps DEF Keeps
        <3>5. /\ y.xio = x.xio /\ y.link = x.link /\ y.now = x.now
              /\ y.client.timeSincePing = x.client.timeSincePing
              /\ y.client.packetSendTimeMs = x.client.packetSendTimeMs
            <4> DEFINE u == [x EXCEPT !.client.socketConnected = FALSE,
                                      !.client.clientConnected = FALSE]
            <4>1. /\ u.xio = x.xio /\ u.link = x.link /\ u.now = x.now
                  /\ u.client.timeSincePing = x.client.timeSincePing
                  /\ u.client.packetSendTimeMs = x.client.packetSendTimeMs
                  /\ u \in System
                BY <3>2 DEF Sound, System, Client
            <4>2. y = CallDisconnectCb(u)
                BY DEF OnConnectionClosed
            <4> HIDE DEF u, y
            <4> QED BY <4>1, <4>2 DEF CallDisconnectCb, System, Client
        <3> HIDE DEF y
        <3>6. \A g \in Handles : s.xio[g] \in Transport
            BY DEF Sound, System
        <3>7. s.xio \in [Handles -> Transport]
            BY DEF Sound, System
        <3>8. \A g \in Handles : /\ x.xio[g].pending = <<>>
                                 /\ g # h => x.xio[g] = s.xio[g]
            BY <3>1, <3>3, <3>6, <3>7 DEF Idle, Transport
        <3>9. Idle(y)
            BY <3>5, <3>8 DEF Idle
        <3>10. ASSUME s.xio[h].st = "closed", NEW g \in Handles, IsOpen(s, g)
               PROVE  IsOpen(y, g)
            BY <3>5, <3>8, <3>10 DEF IsOpen
        <3>11. Closes(s, y)
            <4> HIDE DEF h
            <4> QED BY <3>3, <3>5, <3>9, <3>10 DEF Closes
        <3>12. OnOpenTransport(s) => y.link = NoLink
            BY <3>3, <3>5 DEF OnOpenTransport, IsOpen
        <3>13. y.client \in Client
            BY <3>4 DEF Sound, System
        <3> QED BY <3>4, <3>11, <3>12, <3>13
    <2> HIDE DEF y
    <2>3. Closes(s, s)
        BY DEF Closes
    <2>4. /\ Sound(closed) /\ Closes(s, closed)
          /\ OnOpenTransport(s) => closed.link = NoLink
        BY <2>1, <2>2, <2>3 DEF OnOpenTransport, IsOpen
    <2> HIDE DEF closed
    <2>5. worked = closed
        <3>1. h # NULL => closed.xio[h].pending = <<>>
            BY <2>4 DEF Closes, Idle, Sound, System, Client
        <3> QED BY <3>1 DEF FailPending
    <2>6. /\ t.xio = closed.xio /\ t.link = closed.link /\ t.now = closed.now
          /\ t.client.timeSincePing = closed.client.timeSincePing
          /\ t.client.packetSendTimeMs = closed.client.packetSendTimeMs
        BY <2>4, <2>5 DEF Sound, System, Client
    <2> HIDE DEF t
    <2>7. Closes(s, t)
        BY <2>4, <2>6 DEF Closes, Idle, IsOpen
    <2> QED BY <1>1, <1>3, <2>4, <2>6, <2>7
<1> QED BY <1>2, <1>3

\* What is left of a calm connection is calm.
LEMMA ClosesCalm ==
    ASSUME NEW s, Calm(s), s \in System, NEW t, Closes(s, t), t.comm.xioHandle = s.comm.xioHandle
    PROVE  Calm(t)
<1>1. IsOpen(s, s.comm.xioHandle) => s.comm.xioHandle \in Handles
    BY DEF IsOpen, System, Communicator
<1>2. NoLink.net = "down"
    BY DEF NoLink
<1>3. CASE t.link = NoLink
    BY <1>2, <1>3 DEF Closes, Calm, Wired
<1>4. CASE t.link = s.link /\ \A g \in Handles : IsOpen(s, g) => IsOpen(t, g)
    BY <1>1, <1>4 DEF Closes, Calm, Wired
<1> QED BY <1>3, <1>4 DEF Closes

\* Reporting an error closes the connection.
LEMMA SetErrorCloses ==
    ASSUME ~Tls, NEW s, Sound(s), Calm(s)
    PROVE  LET t == SetError(s)
           IN  /\ Calm(t) /\ t.now = s.now
               /\ t.client.timeSincePing = s.client.timeSincePing
<1> DEFINE e == [s EXCEPT !.comm.state = "ERROR"]
           t == CloseConnection(e)
<1>1. Sound(e) /\ Goes(s, e)
    BY StateSet, GoesState DEF Keeps, CommStates, Sound
<1>2. SetError(s) = t
    BY DEF SetError
<1> HIDE DEF e
<1>3. Calm(e)
    BY <1>1, GoesCalm
<1>4. Closes(e, t) /\ t.comm.xioHandle = e.comm.xioHandle
    BY <1>1, <1>3, CloseConnectionCloses, CloseConnectionKeeps DEF Keeps, Calm
<1> HIDE DEF t
<1>5. Calm(t)
    BY <1>1, <1>3, <1>4, ClosesCalm DEF Sound
<1> QED BY <1>1, <1>2, <1>4, <1>5 DEF Closes, Goes

\* The keep-alive check: it forgets the ping with the session, or sends one, or does
\* nothing.
LEMMA KeepAliveCheckGoes ==
    ASSUME ~Tls, NEW s, Sound(s), Calm(s), Unregistered(s),
           s.client.clientConnected => s.client.socketConnected /\ s.client.xioHandle # NULL
    PROVE  LET t == KeepAliveCheck(s, "ok")
           IN  /\ Calm(t) /\ t.now = s.now
               /\ \/ t = s
                  \/ t.client.timeSincePing = 0 /\ ~t.client.clientConnected
                  \/ /\ KeepAliveActive(s) /\ PingDue(s)
                     /\ t.comm = s.comm /\ t.link.net = s.link.net /\ t.link.cut = s.link.cut
                     /\ t.client.clientConnected = s.client.clientConnected
                     /\ t.client.xioHandle = s.client.xioHandle
                     /\ t.client.codec = s.client.codec
                     /\ t.client.timeSincePing = s.now
                     /\ "CONNACK" \in t.link.owed => "CONNACK" \in s.link.owed
                     /\ OnOpenTransport(s) => t.link.pinged
<1> DEFINE e == SetError(s)
           f == [e EXCEPT !.client.timeSincePing = 0,
                          !.client.packetSendTimeMs = 0,
                          !.client.packetState = "UNKNOWN"]
           p == SendPacketItem(s, "PINGREQ", "ok")
           u == [p EXCEPT !.client.timeSincePing = s.now]
           t == KeepAliveCheck(s, "ok")
<1>1. t = IF ~KeepAliveActive(s) THEN s
          ELSE IF PingOverdue(s) THEN f
          ELSE IF PingDue(s) THEN u ELSE s
    BY DEF KeepAliveCheck
<1>2. ASSUME KeepAliveActive(s)
      PROVE  /\ Calm(f) /\ f.now = s.now
             /\ ~f.client.clientConnected /\ f.client.timeSincePing = 0
    <2>1. Sound(e) /\ Ended(s, e) /\ Calm(e) /\ e.now = s.now
        BY SetErrorKeeps, PlainSetError, SetErrorCloses DEF Keeps
    <2> HIDE DEF e
    <2>2. /\ f.link = e.link /\ f.xio = e.xio /\ f.comm = e.comm /\ f.now = e.now
          /\ f.client.clientConnected = e.client.clientConnected
          /\ f.client.timeSincePing = 0
        BY <2>1 DEF Sound, System, Client
    <2> HIDE DEF f
    <2>3. ~e.client.clientConnected
        BY <1>2, <2>1 DEF Ended, KeepAliveActive
    <2> QED BY <2>1, <2>2, <2>3 DEF Calm, Idle, Wired, IsOpen
<1>3. "PINGREQ" \in Requests \ {"CONNECT"} /\ "ok" \in XioSendOutcomes
    BY DEF Requests, XioSendOutcomes
<1>4. /\ Goes(s, p) /\ p.comm = s.comm
      /\ OnOpenTransport(s) => p.link.pinged
    BY <1>3, SendGoes DEF Unregistered
<1>5. Sound(p)
    BY <1>3, SendPacketItemKeeps DEF Keeps
<1> HIDE DEF p
<1>6. /\ u.link = p.link /\ u.xio = p.xio /\ u.comm = p.comm /\ u.now = p.now
      /\ u.client.clientConnected = p.client.clientConnected
      /\ u.client.xioHandle = p.client.xioHandle
      /\ u.client.codec = p.client.codec
      /\ u.client.timeSincePing = s.now
    BY <1>5 DEF Sound, System, Client
<1> HIDE DEF u
<1>7. Calm(p)
    BY <1>4, GoesCalm
<1>8. Calm(u)
    BY <1>6, <1>7 DEF Calm, Idle, Wired, IsOpen
<1> HIDE DEF f, t
<1>9. CASE t = f /\ KeepAliveActive(s)
    BY <1>2, <1>9 DEF t
<1>10. CASE t = s
    BY <1>10 DEF t
<1>11. CASE t = u /\ KeepAliveActive(s) /\ PingDue(s)
    <2>1. /\ u.link.net = s.link.net /\ u.link.cut = s.link.cut /\ u.comm = s.comm
          /\ u.now = s.now
          /\ u.client.clientConnected = s.client.clientConnected
          /\ u.client.xioHandle = s.client.xioHandle
          /\ u.client.codec = s.client.codec
          /\ "CONNACK" \in u.link.owed => "CONNACK" \in s.link.owed
          /\ OnOpenTransport(s) => u.link.pinged
        BY <1>4, <1>6 DEF Goes
    <2> QED BY <1>6, <1>8, <1>11, <2>1 DEF t
<1> QED BY <1>1, <1>9, <1>10, <1>11

\* CONNECT goes out on a transport that has just been opened.
LEMMA ConnectGoesOut ==
    ASSUME ~Tls, NEW s, Sound(s), Idle(s), s.link = FreshLink,
           s.client.xioHandle = s.comm.xioHandle, OnOpenTransport(s)
    PROVE  LET t == ClientSend(s, "CONNECT", "ok")
           IN  /\ Calm(t) /\ t.now = s.now
               /\ t.client.timeSincePing = s.client.timeSincePing
<1> DEFINE h == s.client.xioHandle
           b == [s EXCEPT !.client.packetState = "CONNECT"]
           a == [b EXCEPT !.client.packetSendTimeMs = b.now]
           d == [a EXCEPT !.link = Delivered(@, "CONNECT")]
           l == Delivered(FreshLink, "CONNECT")
           t == ClientSend(s, "CONNECT", "ok")
<1>1. /\ b.xio = s.xio /\ b.link = s.link /\ b.comm = s.comm /\ b.now = s.now
      /\ b.client.xioHandle = h /\ b.client.timeSincePing = s.client.timeSincePing
      /\ b.client.packetState = "CONNECT"
      /\ b \in System
    BY DEF Sound, System, Client, PacketStates
<1>2. t = SendPacketItem(b, "CONNECT", "ok")
    BY DEF ClientSend
<1> HIDE DEF b
<1>3. /\ a.xio = s.xio /\ a.link = s.link /\ a.comm = s.comm /\ a.now = s.now
      /\ a.client.xioHandle = h /\ a.client.timeSincePing = s.client.timeSincePing
      /\ a.client.packetState = "CONNECT"
      /\ a \in System
    BY <1>1 DEF System, Client
<1>4. t = XioSend(a, h, "CONNECT", "ok")
    BY <1>1, <1>2 DEF SendPacketItem
<1> HIDE DEF a
<1>5. h \in Handles /\ s.xio[h].pending = <<>> /\ s.link.net # "reset"
    BY DEF OnOpenTransport, IsOpen, Sound, System, Communicator, Idle, FreshLink, NoLink
<1>6. XioSendResult(a, h, "ok") = "ok"
    BY <1>3, <1>5 DEF XioSendResult, OnOpenTransport, IsOpen
<1>7. t = SendComplete(d)
    BY <1>4, <1>6 DEF XioSend
<1>8. l.net = "up" /\ l.asked = TRUE
    BY DEF Delivered, FreshLink, NoLink
<1>9. d.client = a.client /\ d.xio = a.xio /\ d.comm = a.comm /\ d.now = a.now /\ d.link = l
    BY <1>3 DEF System
<1> HIDE DEF d, l, t
<1>10. t = d
    BY <1>3, <1>7, <1>9 DEF SendComplete
<1>11. Calm(t)
    BY <1>3, <1>8, <1>9, <1>10 DEF Calm, Idle, Wired, OnOpenTransport, IsOpen
<1> QED BY <1>3, <1>9, <1>10, <1>11 DEF t

\* mqtt_client_connect on a transport that was never opened: the connection it leaves,
\* if any, has seen CONNECT.
LEMMA ConnectCalm ==
    ASSUME ~Tls, NEW s, s \in System, Live(s), s.comm.xioHandle # NULL, Untouched(s),
           Idle(s), s.link.net = "down", NEW open \in OpenOutcomes
    PROVE  LET t == Connect(s, s.comm.xioHandle, open, "ok")
           IN  /\ Calm(t) /\ t.now = s.now
               /\ t.client.timeSincePing = s.client.timeSincePing
<1> DEFINE h == s.comm.xioHandle
           t == [s EXCEPT !.client.xioHandle = h, !.client.packetState = "UNKNOWN"]
           u == [t EXCEPT !.xio[h].st = "open", !.link = FreshLink,
                          !.xio[h].tls = IF Tls THEN "shaken" ELSE "fresh"]
           e == [t EXCEPT !.comm.state = "ERROR"]
           f == OnOpenComplete(t, FALSE, "ok")
           v == [f EXCEPT !.xio[h].st = "open", !.xio[h].tls = "shaken",
                          !.link = [FreshLink EXCEPT !.net = "reset"]]
           w == [f EXCEPT !.xio[h].tls = "used"]
           cu == OnOpenComplete(u, TRUE, "ok")
           cv == OnOpenComplete(v, TRUE, "ok")
           r == [u EXCEPT !.client.packetState = "CONNECT",
                          !.client.socketConnected = TRUE]
           Fine(x) == /\ Calm(x) /\ x.now = s.now
                      /\ x.client.timeSincePing = s.client.timeSincePing
<1>1. h \in Handles
    BY DEF System, Communicator
<1>2. s.xio[h].st = "closed" /\ open \in {"ok", "error", "noMem"}
    BY DEF Untouched, NewTransport, NoTransport, OpenOutcomes
<1>3. /\ Sound(t) /\ t.comm = s.comm /\ t.client.xioHandle = h
      /\ t.link = s.link /\ t.xio = s.xio /\ t.now = s.now
      /\ t.client.timeSincePing = s.client.timeSincePing
      /\ t.client.socketConnected = s.client.socketConnected
    BY DEF Sound, Live, System, Client, Communicator, PacketStates
<1>4. Connect(s, h, open, "ok") = IF open = "noMem" THEN t ELSE IF open = "ok" THEN cu ELSE f
    <2>1. Connect(s, h, open, "ok") =
            IF h = NULL THEN s
            ELSE IF open = "noMem" THEN t
            ELSE IF s.xio[h].st # "closed" THEN IF Tls THEN t ELSE f
            ELSE CASE open = "ok"      -> cu
                   [] open = "late"    -> cv
                   [] open = "tlsFail" -> w
                   [] OTHER            -> f
        BY DEF Connect
    <2>2. h # NULL
        OBVIOUS
    <2> HIDE DEF h, cu, cv, w, f, t
    <2> QED BY <1>2, <2>1, <2>2
<1>5. u = Opening(t, h, "fresh", FreshLink)
    BY <1>1, <1>3 DEF Opening, Sound, System
<1>6. FreshLink \in Link /\ "fresh" \in TlsContexts
    BY DEF FreshLink, NoLink, Link, TlsContexts
<1>7. u.xio = [t.xio EXCEPT ![h] = [t.xio[h] EXCEPT !.st = "open", !.tls = "fresh"]]
      /\ u.link = FreshLink /\ u.now = t.now
    BY <1>1, <1>3 DEF Sound, System
<1> HIDE DEF t, u
<1>8. Sound(u) /\ u.client = t.client /\ u.comm = t.comm
    BY <1>1, <1>3, <1>5, <1>6, OpeningAlone
<1>9. Idle(u) /\ OnOpenTransport(u)
    <2>1. \A g \in Handles : t.xio[g] \in Transport /\ t.xio[g].pending = <<>>
        BY <1>3 DEF Idle, Sound, System
    <2>2. t.xio \in [Handles -> Transport]
        BY <1>3 DEF Sound, System
    <2>3. /\ u.xio[h].st = "open" /\ u.xio[h].pending = <<>>
          /\ \A g \in Handles \ {h} : u.xio[g] = t.xio[g]
        BY <1>1, <1>7, <2>1, <2>2 DEF Transport
    <2>4. Idle(u)
        BY <2>1, <2>3 DEF Idle
    <2> QED BY <1>3, <1>8, <2>3, <2>4 DEF OnOpenTransport, IsOpen
<1>10. Calm(t)
    BY <1>3 DEF Calm, Idle, Wired
<1>11. Fine(f)
    <2>1. Sound(e) /\ Goes(t, e)
        BY <1>3, StateSet, GoesState DEF Keeps, CommStates, Sound
    <2>2. f = CloseConnection(t) \/ f = CloseConnection(e)
        BY DEF OnOpenComplete
    <2> HIDE DEF e, f
    <2>3. Calm(e)
        BY <1>10, <2>1, GoesCalm
    <2>4. ASSUME NEW x, Sound(x), Calm(x), x.now = s.now,
                 x.client.timeSincePing = s.client.timeSincePing
          PROVE  Fine(CloseConnection(x))
        <3> DEFINE y == CloseConnection(x)
        <3>1. Closes(x, y) /\ y.comm.xioHandle = x.comm.xioHandle
            BY <2>4, CloseConnectionCloses, CloseConnectionKeeps DEF Keeps, Calm
        <3> HIDE DEF y
        <3>2. Calm(y)
            BY <2>4, <3>1, ClosesCalm DEF Sound
        <3>3. Fine(y)
            BY <2>4, <3>1, <3>2 DEF Closes
        <3> QED BY <3>3 DEF y
    <2>5. e.now = s.now /\ e.client.timeSincePing = s.client.timeSincePing
        BY <1>3, <2>1 DEF Goes
    <2> HIDE DEF Fine
    <2> QED BY <1>3, <1>10, <2>1, <2>2, <2>3, <2>4, <2>5
<1>12. Fine(cu)
    <2>1. CASE s.client.socketConnected
        <3>1. cu = CloseConnection(u)
            BY <1>3, <1>8, <2>1 DEF OnOpenComplete
        <3> HIDE DEF cu
        <3>2. Closes(u, cu) /\ cu.link = NoLink
            BY <1>3, <1>8, <1>9, <2>1, <3>1, CloseConnectionCloses
        <3>3. Calm(cu)
            BY <3>2 DEF Closes, Calm, Wired, NoLink
        <3> QED BY <1>3, <1>7, <1>8, <3>2, <3>3 DEF Closes
    <2>2. CASE ~s.client.socketConnected
        <3>1. cu = ClientSend(r, "CONNECT", "ok")
            BY <1>3, <1>8, <2>2 DEF OnOpenComplete
        <3>2. /\ Sound(r) /\ r.xio = u.xio /\ r.link = u.link /\ r.comm = u.comm
              /\ r.now = u.now /\ r.client.xioHandle = u.client.xioHandle
              /\ r.client.timeSincePing = u.client.timeSincePing
            BY <1>8 DEF Sound, Live, System, Client, PacketStates
        <3> HIDE DEF cu, r
        <3>3. Idle(r) /\ OnOpenTransport(r)
            BY <1>9, <3>2 DEF Idle, OnOpenTransport, IsOpen
        <3>4. r.client.xioHandle = r.comm.xioHandle /\ r.link = FreshLink
            BY <1>3, <1>7, <1>8, <3>2
        <3>5. /\ Calm(cu) /\ cu.now = r.now
              /\ cu.client.timeSincePing = r.client.timeSincePing
            BY <3>1, <3>2, <3>3, <3>4, ConnectGoesOut
        <3> QED BY <1>3, <1>7, <1>8, <3>2, <3>5
    <2> QED BY <2>1, <2>2
<1>13. Fine(t)
    BY <1>3, <1>10
<1> HIDE DEF Fine, cu, f
<1>14. Fine(Connect(s, h, open, "ok"))
    BY <1>4, <1>11, <1>12, <1>13
<1> QED BY <1>14 DEF Fine, h

\* Freeing a transport that had nothing pending, or none.
LEMMA DiscardIdle ==
    ASSUME ~Tls, NEW s, s \in System, Idle(s), s.comm.xioHandle = NULL => s.link.net = "down"
    PROVE  LET d == Discard(s)
           IN  Idle(d) /\ d.link.net = "down" /\ d.client = s.client /\ d.now = s.now
<1> DEFINE h == s.comm.xioHandle
           c == Shut(s, h)
           d == [c EXCEPT !.xio[h] = NoTransport, !.link = NoLink]
<1>1. Discard(s) = IF h = NULL THEN s ELSE d
    BY DEF Discard, XioCloseQuietly, XioDestroy
<1>2. ASSUME h # NULL
      PROVE  Idle(d) /\ d.link.net = "down" /\ d.now = s.now
    <2>1. h \in Handles
        BY <1>2 DEF System, Communicator
    <2>2. c.xio = [s.xio EXCEPT ![h].st = "closed"] /\ c.now = s.now
        BY DEF Shut, System
    <2>3. /\ s.xio \in [Handles -> Transport]
          /\ \A g \in Handles : g # h => c.xio[g] = s.xio[g]
          /\ DOMAIN c.xio = Handles
        BY <2>1, <2>2 DEF System
    <2>4. c = [client |-> c.client, comm |-> c.comm, xio |-> c.xio,
               link |-> c.link, now |-> c.now]
        <3> DEFINE x == [s.xio EXCEPT ![h].st = "closed"]
                   l == IF s.xio[h].st = "closed" THEN s.link ELSE NoLink
        <3>1. c = [s EXCEPT !.xio = x, !.link = l]
            BY DEF Shut
        <3> HIDE DEF c, x, l
        <3> QED BY <3>1 DEF System
    <2> HIDE DEF c
    <2>5. d.xio = [c.xio EXCEPT ![h] = NoTransport] /\ d.link = NoLink /\ d.now = c.now
        BY <2>4
    <2> HIDE DEF d
    <2>6. \A g \in Handles : d.xio[g].pending = <<>>
        <3>1. NoTransport.pending = <<>>
            BY DEF NoTransport
        <3> QED BY <2>1, <2>3, <2>5, <3>1 DEF Idle
    <2> QED BY <2>2, <2>5, <2>6 DEF Idle, NoLink
<1>3. Discard(s).client = s.client
    BY PlainDiscardAlone
<1> HIDE DEF d
<1> QED BY <1>1, <1>2, <1>3

\* Creating one.
LEMMA XioCreateIdle ==
    ASSUME NEW s, s \in System, Idle(s), NEW h \in Handles \cup {NULL}
    PROVE  LET c == XioCreate(s, h)
           IN  /\ Idle(c) /\ c.link = s.link /\ c.client = s.client /\ c.now = s.now
               /\ c.comm \in [xioHandle : {h}, state : {s.comm.state},
                              packetId : {s.comm.packetId}]
               /\ c = [client |-> c.client, comm |-> c.comm, xio |-> c.xio,
                       link |-> c.link, now |-> c.now]
<1> DEFINE t == [s EXCEPT !.comm.xioHandle = NULL]
           u == [s EXCEPT !.comm.xioHandle = h, !.xio[h] = NewTransport]
           Fine(c) == /\ Idle(c) /\ c.link = s.link /\ c.client = s.client /\ c.now = s.now
                      /\ c.comm \in [xioHandle : {h}, state : {s.comm.state},
                                     packetId : {s.comm.packetId}]
                      /\ c = [client |-> c.client, comm |-> c.comm, xio |-> c.xio,
                              link |-> c.link, now |-> c.now]
<1>1. XioCreate(s, h) = IF h = NULL THEN t ELSE u
    BY DEF XioCreate
<1>2. ASSUME h = NULL PROVE Fine(t)
    BY <1>2 DEF System, Communicator, Idle
<1>3. ASSUME h # NULL PROVE Fine(u)
    <2>1. h \in Handles
        BY <1>3
    <2>2. /\ u.link = s.link /\ u.client = s.client /\ u.now = s.now
          /\ u.comm \in [xioHandle : {h}, state : {s.comm.state}, packetId : {s.comm.packetId}]
          /\ u.xio = [s.xio EXCEPT ![h] = NewTransport]
          /\ u = [client |-> u.client, comm |-> u.comm, xio |-> u.xio,
                  link |-> u.link, now |-> u.now]
        <3> DEFINE m == [s.comm EXCEPT !.xioHandle = h]
                   x == [s.xio EXCEPT ![h] = NewTransport]
        <3>1. u = [s EXCEPT !.comm = m, !.xio = x]
            OBVIOUS
        <3>2. m \in [xioHandle : {h}, state : {s.comm.state}, packetId : {s.comm.packetId}]
            BY DEF System, Communicator
        <3> HIDE DEF u, m
        <3>3. u = [client |-> s.client, comm |-> m, xio |-> x,
                   link |-> s.link, now |-> s.now]
            BY <3>1 DEF System
        <3> QED BY <3>2, <3>3
    <2>3. s.xio \in [Handles -> Transport] /\ NewTransport.pending = <<>>
        BY DEF System, NewTransport, NoTransport
    <2> HIDE DEF u
    <2>4. \A g \in Handles : u.xio[g].pending = <<>>
        BY <2>1, <2>2, <2>3 DEF Idle
    <2> QED BY <2>2, <2>4 DEF Idle
<1> HIDE DEF t, u, Fine
<1>4. Fine(XioCreate(s, h))
    BY <1>1, <1>2, <1>3
<1> QED BY <1>4 DEF Fine

-----------------------------------------------------------------------------
(***************************************************************************)
(* The inductive invariant, in the state s at p with the packets c left to *)
(* dispatch.                                                               *)
(*   - A client in use that believes in its session has a connection.      *)
(*   - A session works on a handle.                                        *)
(*   - Once CONNACK is received, the codec reads what the broker sends,    *)
(*     which sends no second one: nothing ends the session but keep-alive. *)
(*   - A ping is waited for only within a session, on the connection it    *)
(*     was sent on, with nothing that would make the loop reconnect.       *)
(*   - If an error was reported all the same (packetId 0), the client has  *)
(*     just sent, and so pings no more before it reconnects.               *)
(***************************************************************************)
Used(s, p) == p \in {"flush", "recv"} \/ (p = "loop" /\ s.comm.state = "CONNECTED")

Greeted(c) == \E i \in DOMAIN c : c[i] = "CONNACK"

Pinging(s, p, c) ==
    /\ Used(s, p) /\ s.client.clientConnected => s.link.net # "down"
    /\ Serving(s) => s.client.xioHandle # NULL
    /\ Serving(s) \/ Greeted(c) =>
           /\ s.link.net # "down"
           /\ s.client.codec = "ready" \/ s.link.cut
           /\ "CONNACK" \notin s.link.owed
           /\ \A i \in DOMAIN c : c[i] \notin {"REFUSED", "BAD"}
    /\ s.client.timeSincePing # 0 =>
           /\ Serving(s) /\ s.link.pinged
           /\ s.comm.state = "CONNECTED" /\ ~Greeted(c)
    /\ Serving(s) /\ p \in {"flush", "recv"} /\ s.comm.state # "CONNECTED" =>
           s.client.packetSendTimeMs = s.now

PInv == SessionInv /\ Unasked /\ Linked /\ Calm(State) /\ Pinging(State, pc, chunk)

\* What a step has to keep of it besides SessionInv.
Tended ==
    /\ Linked' /\ pc' # "hung"
    /\ Calm(State') /\ Pinging(State', pc', chunk')

\* What PInv says of the current state.
LEMMA PInvState ==
    ASSUME PInv, ~Tls
    PROVE  /\ State \in System /\ Live(State) /\ Calm(State) /\ Unregistered(State)
           /\ Pinging(State, pc, chunk)
           /\ pc \in {"loop", "connecting", "flush", "recv"}
           /\ pc \in {"loop", "connecting"} => chunk = <<>>
           /\ pc \in {"flush", "recv"} => Sound(State) /\ State.comm.state # "CONNECTING"
           /\ client.clientConnected => client.socketConnected
<1>1. SessionInv /\ pc # "hung" /\ Unregistered(State)
    BY DEF PInv, Unasked
<1>2. /\ State \in System /\ Live(State)
      /\ pc \in {"flush", "recv"} => Sound(State) /\ State.comm.state # "CONNECTING"
    BY <1>1, StateSound DEF SessionInv, Reconnecting
<1>3. pc \in {"loop", "connecting", "flush", "recv"}
    BY <1>1 DEF SessionInv, IInv, TypeOK
<1>4. pc \in {"loop", "connecting"} => chunk = <<>>
    BY <1>1, AtLoop
<1>5. client.clientConnected => client.socketConnected
    BY <1>1 DEF SessionInv, Session, SessionAt, OnlySession, State
<1> QED BY <1>1, <1>2, <1>3, <1>4, <1>5 DEF PInv

\* A session works on the open transport.
LEMMA ServingOpen ==
    ASSUME NEW s, Sound(s), Calm(s), Serving(s), s.client.xioHandle # NULL
    PROVE  OnOpenTransport(s)
BY DEF Sound, Calm, Wired, Serving, OnOpenTransport

\* Without a session and a CONNACK to begin one, nothing may be waited for.
LEMMA NotPinging ==
    ASSUME NEW s, NEW p, NEW c, ~Serving(s), s.client.timeSincePing = 0, ~Greeted(c),
           ~Used(s, p) \/ ~s.client.clientConnected
    PROVE  Pinging(s, p, c)
BY DEF Pinging

\* No packet, no CONNACK.
LEMMA NothingGreets == ~Greeted(<<>>)
BY DEF Greeted

\* An action that leads to s at p.
LEMMA BecomeTended ==
    ASSUME NEW s, NEW p, Become(s, p), p # "hung", s.now = now,
           Calm(s), Pinging(s, p, chunk'),
           s.link.net # "down" => p # "connecting" /\ s.comm.state # "CONNECTING"
    PROVE  Tended
<1>1. /\ client' = s.client /\ comm' = s.comm /\ link' = s.link /\ xio' = s.xio
      /\ pc' = p /\ now' = now
    BY DEF Become
<1> DEFINE t == State'
<1>2. /\ t.client = s.client /\ t.comm = s.comm /\ t.link = s.link /\ t.xio = s.xio
      /\ t.now = s.now
    BY <1>1 DEF State
<1>3. s.link.net # "down" => s.comm.xioHandle # NULL
    BY DEF Calm, Wired, IsOpen
<1>4. Linked'
    BY <1>1, <1>3 DEF Linked, Reconnecting
<1> HIDE DEF t
<1>5. Calm(t)
    BY <1>2 DEF Calm, Idle, Wired, IsOpen
<1>6. (Serving(t) <=> Serving(s)) /\ (Used(t, p) <=> Used(s, p))
    BY <1>2 DEF Serving, Used
<1>7. Pinging(t, p, chunk')
    BY <1>2, <1>6 DEF Pinging
<1> QED BY <1>1, <1>4, <1>5, <1>7 DEF Tended, t

-----------------------------------------------------------------------------
\* The device starts without a session.
LEMMA InitPings == ASSUME Init PROVE PInv
<1>1. SessionInv
    BY InitIInv, InitSession DEF SessionInv
<1>2. /\ client = NewClient /\ comm.state = "CONNECTING" /\ link = NoLink
      /\ pc = "loop" /\ chunk = <<>>
      /\ \E h \in Handles : xio = [x \in Handles |-> IF x = h THEN NewTransport ELSE NoTransport]
    BY DEF Init
<1>3. Unasked /\ Linked
    BY <1>2 DEF Unasked, Unregistered, State, NewClient, Linked, NoLink
<1>4. Calm(State)
    BY <1>2 DEF Calm, Idle, Wired, State, NewTransport, NoTransport, NoLink
<1>5. Pinging(State, pc, chunk)
    <2>1. ~State.client.clientConnected /\ State.client.timeSincePing = 0
        BY <1>2 DEF State, NewClient
    <2> QED BY <1>2, <2>1, NotPinging, NothingGreets DEF Serving
<1> QED BY <1>1, <1>3, <1>4, <1>5 DEF PInv

\* Replacing the transport: there is no connection then, and nothing is waited for.
LEMMA ReplacedTended ==
    ASSUME NEW s, Idle(s), s.link.net = "down", s.comm.state = "CONNECTING",
           s.client.timeSincePing = 0, s.now = now, Become(s, "loop"), chunk' = <<>>
    PROVE  Tended
<1>1. Calm(s)
    BY DEF Calm, Wired
<1>2. Pinging(s, "loop", <<>>)
    BY NotPinging, NothingGreets DEF Serving, Used
<1> QED BY <1>1, <1>2, BecomeTended

\* case MQTT_ERROR.
LEMMA ReconnectTended == ASSUME PInv, ~Tls, Reconnect PROVE Tended
<1> DEFINE s == Discard(State)
<1>1. /\ State \in System /\ Sound(State) /\ comm.state = "ERROR" /\ pc = "loop"
      /\ chunk' = chunk
    BY StateSound DEF Reconnect, Reconnecting, PInv, SessionInv, Sound
<1>2. chunk = <<>> /\ client.timeSincePing = 0
    BY <1>1, PInvState DEF Pinging, State
<1>3. /\ s \in System /\ Idle(s) /\ s.link.net = "down"
      /\ s.client = client /\ s.now = now
    <2>1. comm.xioHandle = NULL => link.net = "down"
        BY DEF PInv, Linked
    <2>2. s \in System
        BY <1>1, DiscardEmpties DEF Empty
    <2>3. /\ Idle(State) /\ State.client = client /\ State.now = now
          /\ State.comm = comm /\ State.link = link
        BY DEF PInv, Calm, State
    <2> QED BY <1>1, <2>1, <2>2, <2>3, DiscardIdle
<1> HIDE DEF s
<1>4. PICK h \in Handles \cup {NULL} :
        Become([XioCreate(s, h) EXCEPT !.comm.state = "CONNECTING"], "loop")
    BY DEF Reconnect, FreeHandles, s
<1> DEFINE c == XioCreate(s, h)
           t == [c EXCEPT !.comm.state = "CONNECTING"]
<1>5. /\ Idle(c) /\ c.link = s.link /\ c.client = s.client /\ c.now = s.now
      /\ c.comm \in [xioHandle : {h}, state : {s.comm.state}, packetId : {s.comm.packetId}]
      /\ c = [client |-> c.client, comm |-> c.comm, xio |-> c.xio,
              link |-> c.link, now |-> c.now]
    BY <1>3, XioCreateIdle
<1> HIDE DEF c
<1>6. /\ t.link = c.link /\ t.client = c.client /\ t.now = c.now /\ t.xio = c.xio
      /\ t.comm.state = "CONNECTING"
    BY <1>5
<1>7. Become(t, "loop")
    BY <1>4 DEF c
<1> HIDE DEF t
<1>8. Idle(t)
    BY <1>5, <1>6 DEF Idle
<1> QED BY <1>1, <1>2, <1>3, <1>5, <1>6, <1>7, <1>8, ReplacedTended

\* The monitor's restart throws the client away as well.
LEMMA WatchdogTended == ASSUME PInv, ~Tls, Watchdog PROVE Tended
<1> DEFINE s == Discard(State)
<1>1. pc = "connecting" /\ Restart /\ State \in System
    BY PInvState DEF Watchdog, Halted
<1>2. /\ s \in System /\ Idle(s) /\ s.link.net = "down" /\ s.now = now
    <2>1. link.net = "down"
        BY <1>1 DEF PInv, Linked, Reconnecting
    <2>2. s \in System
        BY MonitorEmpties DEF Empty, PInv, SessionInv
    <2>3. Idle(State) /\ State.now = now /\ State.link = link
        BY DEF PInv, Calm, State
    <2> QED BY <1>1, <2>1, <2>2, <2>3, DiscardIdle
<1> HIDE DEF s
<1>3. chunk' = <<>> /\ \E h \in Handles :
        Become([XioCreate(s, h) EXCEPT !.client = Renewed(s.client),
                                       !.comm.state = "CONNECTING",
                                       !.comm.packetId = 1], "loop")
    BY <1>1 DEF Restart, FreeHandles, s
<1>4. PICK h \in Handles :
        Become([XioCreate(s, h) EXCEPT !.client = Renewed(s.client),
                                       !.comm.state = "CONNECTING",
                                       !.comm.packetId = 1], "loop")
    BY <1>3
<1> DEFINE c == XioCreate(s, h)
           w == Renewed(s.client)
           m == [c.comm EXCEPT !.state = "CONNECTING", !.packetId = 1]
           t == [c EXCEPT !.client = w, !.comm.state = "CONNECTING", !.comm.packetId = 1]
<1>5. /\ Idle(c) /\ c.link = s.link /\ c.now = s.now
      /\ c.comm \in [xioHandle : {h}, state : {s.comm.state}, packetId : {s.comm.packetId}]
      /\ c = [client |-> c.client, comm |-> c.comm, xio |-> c.xio,
              link |-> c.link, now |-> c.now]
    BY <1>2, XioCreateIdle
<1>6. Become(t, "loop")
    BY <1>4
<1> HIDE DEF c
<1>7. m.state = "CONNECTING"
    BY <1>5
<1>8. t = [c EXCEPT !.client = w, !.comm = m]
    BY <1>5
<1>9. w.timeSincePing = 0
    BY DEF Renewed, NewClient
<1> HIDE DEF t, m, w
<1>10. /\ t.link = c.link /\ t.now = c.now /\ t.xio = c.xio
       /\ t.comm.state = "CONNECTING" /\ t.client.timeSincePing = 0
    BY <1>5, <1>7, <1>8, <1>9
<1>11. Idle(t)
    BY <1>5, <1>10 DEF Idle
<1> QED BY <1>2, <1>3, <1>5, <1>6, <1>10, <1>11, ReplacedTended

\* The retry loop is entered without a connection.
LEMMA StartConnectingTended == ASSUME PInv, ~Tls, StartConnecting PROVE Tended
<1>1. /\ link.net = "down" /\ Become(State, "connecting") /\ chunk' = chunk /\ pc = "loop"
      /\ State.now = now
    BY DEF StartConnecting, PInv, Linked, Reconnecting, State
<1>2. State.link.net = "down" /\ ~Serving(State)
    BY <1>1 DEF Serving, State
<1>3. Calm(State) /\ chunk = <<>> /\ State.client.timeSincePing = 0
    BY <1>1, <1>2, PInvState DEF Pinging
<1>4. Pinging(State, "connecting", <<>>)
    BY <1>2, <1>3, NotPinging, NothingGreets DEF Used
<1> QED BY <1>1, <1>2, <1>3, <1>4, BecomeTended

\* An attempt to connect leaves a connection that has seen CONNECT, or none, and no
\* session.
LEMMA TryConnectTended ==
    ASSUME PInv, ~Tls, FaultKinds \subseteq CalmFaults, TryConnect
    PROVE  Tended
<1> DEFINE h == comm.xioHandle
<1>1. PICK open \in OpenOutcomes, o \in SendOutcomes :
        /\ Spend(<<FaultOf(open), o>>)
        /\ LET s == Connect(State, h, open, o)
           IN  IF ~ConnectSucceeds(State, h, open)
               THEN Become(s, "connecting")
               ELSE IF s.comm.state = "CONNECTING"
               THEN Become([s EXCEPT !.comm.state = "CONNECTED"], "loop")
               ELSE Become(s, "loop")
    BY DEF TryConnect
<1>2. o = "ok"
    BY <1>1, CalmSends
<1> DEFINE s == Connect(State, h, open, "ok")
           t == [s EXCEPT !.comm.state = "CONNECTED"]
           ok == ConnectSucceeds(State, h, open)
<1>3. /\ State \in System /\ Live(State) /\ Untouched(State) /\ State.comm.xioHandle = h
      /\ State.client.clientConnected => State.client.socketConnected
      /\ State.link.net = "down" /\ State.now = now /\ Calm(State)
      /\ pc = "connecting" /\ chunk = <<>> /\ chunk' = chunk
      /\ State.client.timeSincePing = 0
    <2>1. Reconnecting /\ pc = "connecting" /\ chunk' = chunk
        BY DEF TryConnect, Reconnecting
    <2>2. link.net = "down"
        BY <2>1 DEF PInv, Linked
    <2>3. Untouched(State)
        BY <2>1, StateSound DEF PInv, SessionInv
    <2>4. State.link.net = "down" /\ State.now = now /\ State.comm.xioHandle = h
        BY <2>2 DEF State
    <2>5. State.client.timeSincePing = 0
        BY <2>4 DEF PInv, Pinging, Serving
    <2>6. /\ State \in System /\ Live(State) /\ Calm(State) /\ chunk = <<>>
          /\ client.clientConnected => client.socketConnected
        BY <2>1, PInvState
    <2>7. State.client = client
        BY DEF State
    <2> QED BY <2>1, <2>3, <2>4, <2>5, <2>6, <2>7
<1>4. CASE h = NULL
    <2>1. Become(State, "connecting")
        BY <1>1, <1>4 DEF Connect, ConnectSucceeds
    <2>2. Pinging(State, "connecting", chunk')
        BY <1>3, NotPinging, NothingGreets DEF Serving, Used
    <2> QED BY <1>3, <2>1, <2>2, BecomeTended
<1>5. CASE h # NULL
    <2>0. "ok" \in SendOutcomes /\ "ok" # "noPacket"
        BY DEF SendOutcomes, XioSendOutcomes
    <2>1. /\ Sound(s)
          /\ IF ok THEN ~s.client.clientConnected /\ s.comm.xioHandle = h
             ELSE NotReopened(State, s)
        BY <1>3, <1>5, <2>0, ConnectSound, PlainConnect
    <2>2. Calm(s) /\ s.now = now /\ s.client.timeSincePing = 0
        BY <1>3, <1>5, ConnectCalm DEF Calm
    <2>3. \/ ~ok /\ Become(s, "connecting")
          \/ ok /\ s.comm.state = "CONNECTING" /\ Become(t, "loop")
          \/ ok /\ s.comm.state # "CONNECTING" /\ Become(s, "loop")
        BY <1>1, <1>2
    <2> HIDE DEF s, ok
    <2>4. CASE ~ok /\ Become(s, "connecting")
        <3>1. s.link.net = "down" /\ ~Serving(s)
            BY <1>3, <2>1, <2>4 DEF NotReopened, Serving
        <3>2. Pinging(s, "connecting", chunk')
            BY <1>3, <2>2, <3>1, NotPinging, NothingGreets DEF Used
        <3> QED BY <2>2, <2>4, <3>1, <3>2, BecomeTended
    <2>5. CASE ok /\ Become(t, "loop")
        <3>1. Goes(s, t) /\ t.client = s.client /\ t.comm.state = "CONNECTED" /\ t.now = s.now
            BY <2>1, GoesState DEF Sound, Goes
        <3> HIDE DEF t
        <3>2. Calm(t) /\ ~t.client.clientConnected
            BY <2>1, <2>2, <2>5, <3>1, GoesCalm
        <3>3. Pinging(t, "loop", chunk')
            BY <1>3, <2>2, <3>1, <3>2, NotPinging, NothingGreets DEF Serving
        <3> QED BY <2>2, <2>5, <3>1, <3>2, <3>3, BecomeTended
    <2>6. CASE ok /\ s.comm.state # "CONNECTING" /\ Become(s, "loop")
        <3>1. Pinging(s, "loop", chunk')
            BY <1>3, <2>1, <2>2, <2>6, NotPinging, NothingGreets DEF Serving
        <3> QED BY <2>2, <2>6, <3>1, BecomeTended
    <2> QED BY <2>3, <2>4, <2>5, <2>6
<1> QED BY <1>4, <1>5

\* mqtt_client_dowork begins with a client whose session works on a connection.
LEMMA DoWorkTended == ASSUME PInv, ~Tls, DoWork PROVE Tended
<1> DEFINE p == IF client.xioHandle = NULL THEN "loop" ELSE "flush"
<1>1. /\ Become(State, p) /\ pc = "loop" /\ State.comm.state = "CONNECTED" /\ chunk' = chunk
      /\ State.now = now /\ p \in {"loop", "flush"}
    BY DEF DoWork, State
<1> HIDE DEF p
<1>2. Calm(State) /\ Pinging(State, "loop", chunk')
    BY <1>1, PInvState
<1>3. Pinging(State, p, chunk')
    BY <1>1, <1>2 DEF Pinging, Used
<1> QED BY <1>1, <1>2, <1>3, BecomeTended

\* Nothing is ever pending.
LEMMA NothingPending ==
    ASSUME PInv, ~Tls, pc = "flush"
    PROVE  Pending = <<>>
<1>1. client.xioHandle = NULL \/ client.xioHandle \in Handles
    BY DEF PInv, SessionInv, IInv, TypeOK, Client
<1> QED BY <1>1 DEF PInv, Calm, Idle, Pending, State

\* So the flush ends at once.
LEMMA FlushEndsTended == ASSUME PInv, ~Tls, FlushEnds PROVE Tended
<1>1. Become(State, "recv") /\ pc = "flush" /\ chunk' = chunk /\ State.now = now
    BY DEF FlushEnds, State
<1>2. Calm(State) /\ Pinging(State, "flush", chunk') /\ State.comm.state # "CONNECTING"
    BY <1>1, PInvState
<1>3. Pinging(State, "recv", chunk')
    BY <1>2 DEF Pinging, Used
<1> QED BY <1>1, <1>2, <1>3, BecomeTended

\* What a fault that may not happen cannot do.
LEMMA CalmSpends ==
    ASSUME FaultKinds \subseteq CalmFaults, NEW f \in {"reset", "badPacket"}
    PROVE  ~Spend(<<f>>)
<1>1. f \notin CalmFaults /\ f # "ok"
    BY DEF CalmFaults
<1>2. 1 \in DOMAIN <<f>> /\ <<f>>[1] = f
    OBVIOUS
<1> QED BY <1>1, <1>2 DEF Spend, Faulty

\* What recv returns: of a CONNACK that the broker owes first that packet, of a
\* connection in session what it owes, and of neither anything.
LEMMA RecvReturns ==
    ASSUME PInv, ~Tls, FaultKinds \subseteq CalmFaults, Recv
    PROVE  /\ link'.net \in {link.net, "silent"} /\ link'.asked = link.asked
           /\ link'.pinged = link.pinged
           /\ "CONNACK" \in link'.owed => "CONNACK" \in link.owed /\ ~Greeted(chunk')
           /\ Greeted(chunk') => "CONNACK" \in link.owed
           /\ \/ "CONNACK" \notin link.owed /\ ~InStep
              \/ ~Greeted(chunk') /\ ~InStep
              \/ /\ client'.codec = "ready" \/ link'.cut
                 /\ "CONNACK" \notin link.owed \/ Greeted(chunk') =>
                        \A i \in DOMAIN chunk' : chunk'[i] \notin {"REFUSED", "BAD"}
<1>1. link \in Link /\ client \in Client
    BY DEF PInv, SessionInv, IInv, TypeOK
<1>2. CASE RecvInStep
    <2>1. ASSUME NEW p \in link.owed, NEW q \in link.owed,
                 "CONNACK" \in link.owed => p = "CONNACK",
                 chunk' = (IF p = q THEN <<p>> ELSE <<p, q>>),
                 link' = [link EXCEPT !.owed = @ \ {p, q}, !.cut = FALSE,
                                      !.accepted = @ \/ p = "CONNACK"],
                 client' = [client EXCEPT !.codec = "ready"]
          PROVE  /\ link'.net = link.net /\ link'.asked = link.asked
                 /\ link'.pinged = link.pinged
                 /\ "CONNACK" \notin link'.owed
                 /\ Greeted(chunk') => "CONNACK" \in link.owed
                 /\ client'.codec = "ready"
                 /\ \A i \in DOMAIN chunk' : chunk'[i] \notin {"REFUSED", "BAD"}
        <3>1. /\ link'.net = link.net /\ link'.asked = link.asked
              /\ link'.pinged = link.pinged /\ link'.owed = link.owed \ {p, q}
            BY <1>1, <2>1 DEF Link
        <3>2. client'.codec = "ready"
            BY <1>1, <2>1 DEF Client
        <3>3. \A i \in DOMAIN chunk' : chunk'[i] \in {p, q}
            BY <2>1
        <3>4. {p, q} \subseteq Replies
            BY <1>1 DEF Link
        <3>5. Greeted(chunk') => "CONNACK" \in link.owed
            BY <3>3 DEF Greeted
        <3>6. "REFUSED" \notin Replies /\ "BAD" \notin Replies
            BY DEF Replies
        <3> QED BY <2>1, <3>1, <3>2, <3>3, <3>4, <3>5, <3>6
    <2>2. ASSUME link.owed # {}, chunk' = <<>>, link' = [link EXCEPT !.cut = TRUE]
          PROVE  /\ link'.net = link.net /\ link'.asked = link.asked
                 /\ link'.pinged = link.pinged /\ link'.owed = link.owed
                 /\ link'.cut /\ ~Greeted(chunk')
                 /\ \A i \in DOMAIN chunk' : chunk'[i] \notin {"REFUSED", "BAD"}
        BY <1>1, <2>2, NothingGreets DEF Link
    <2>3. ASSUME "CONNACK" \in link.owed, chunk' = <<"REFUSED">>,
                 link' = [link EXCEPT !.owed = {}, !.net = "silent", !.cut = FALSE],
                 client' = [client EXCEPT !.codec = "ready"]
          PROVE  /\ link'.net = "silent" /\ link'.asked = link.asked
                 /\ link'.pinged = link.pinged /\ link'.owed = {}
                 /\ client'.codec = "ready" /\ ~Greeted(chunk')
        <3>1. /\ link'.net = "silent" /\ link'.asked = link.asked
              /\ link'.pinged = link.pinged /\ link'.owed = {}
            BY <1>1, <2>3 DEF Link
        <3>2. client'.codec = "ready"
            BY <1>1, <2>3 DEF Client
        <3>3. ~Greeted(chunk')
            BY <2>3 DEF Greeted
        <3> QED BY <3>1, <3>2, <3>3
    <2>4. \/ \E p \in link.owed, q \in link.owed :
                /\ "CONNACK" \in link.owed => p = "CONNACK"
                /\ chunk' = IF p = q THEN <<p>> ELSE <<p, q>>
                /\ link' = [link EXCEPT !.owed = @ \ {p, q}, !.cut = FALSE,
                                        !.accepted = @ \/ p = "CONNACK"]
                /\ client' = [client EXCEPT !.codec = "ready"]
          \/ link.owed # {} /\ chunk' = <<>> /\ link' = [link EXCEPT !.cut = TRUE]
          \/ /\ "CONNACK" \in link.owed
             /\ chunk' = <<"REFUSED">>
             /\ link' = [link EXCEPT !.owed = {}, !.net = "silent", !.cut = FALSE]
             /\ client' = [client EXCEPT !.codec = "ready"]
        BY <1>2, CalmSpends DEF RecvInStep
    <2> QED BY <2>1, <2>2, <2>3, <2>4
<1>3. CASE RecvOutOfStep
    <2>1. ~InStep
        BY <1>3 DEF RecvOutOfStep
    <2>2. PICK p \in link.owed, q \in link.owed :
            /\ "CONNACK" \in link.owed => p = "CONNACK"
            /\ link' = [link EXCEPT !.owed = @ \ {p, q}, !.accepted = @ \/ p = "CONNACK"]
            /\ chunk' \in {<<g>> : g \in Garbled} \cup {<<>>}
        BY <1>3 DEF RecvOutOfStep
    <2>3. /\ link'.net = link.net /\ link'.asked = link.asked
          /\ link'.pinged = link.pinged /\ link'.owed = link.owed \ {p, q}
        BY <1>1, <2>2 DEF Link
    <2>4. ~Greeted(chunk')
        BY <2>2 DEF Garbled, Greeted
    <2> QED BY <2>1, <2>2, <2>3, <2>4
<1> QED BY <1>2, <1>3 DEF Recv

\* A session reads only what the broker owes it.
LEMMA RecvTended ==
    ASSUME PInv, ~Tls, FaultKinds \subseteq CalmFaults, Recv
    PROVE  Tended
<1>1. /\ pc = "recv" /\ chunk = <<>> /\ link.net = "up"
      /\ UNCHANGED <<comm, xio, now, pc>>
    BY DEF Recv
<1>2. \E c \in {"ready", "partial", "broken"} : client' = [client EXCEPT !.codec = c]
    BY DEF Recv, RecvInStep, RecvOutOfStep
<1>3. client \in Client
    BY DEF PInv, SessionInv, IInv, TypeOK
<1>4. /\ client'.clientConnected = client.clientConnected
      /\ client'.xioHandle = client.xioHandle
      /\ client'.packetSendTimeMs = client.packetSendTimeMs
      /\ client'.timeSincePing = client.timeSincePing
    BY <1>2, <1>3 DEF Client
<1>5. /\ link'.net \in {"up", "silent"} /\ link'.asked = link.asked
      /\ link'.pinged = link.pinged
      /\ "CONNACK" \in link'.owed => "CONNACK" \in link.owed /\ ~Greeted(chunk')
      /\ Greeted(chunk') => "CONNACK" \in link.owed
      /\ \/ "CONNACK" \notin link.owed /\ ~InStep
         \/ ~Greeted(chunk') /\ ~InStep
         \/ /\ client'.codec = "ready" \/ link'.cut
            /\ "CONNACK" \notin link.owed \/ Greeted(chunk') =>
                   \A i \in DOMAIN chunk' : chunk'[i] \notin {"REFUSED", "BAD"}
    BY <1>1, RecvReturns
<1> DEFINE t == State'
<1>6. t.client = client' /\ t.comm = comm /\ t.xio = xio /\ t.link = link' /\ t.now = now
    BY <1>1 DEF State
<1> HIDE DEF t
<1>7. Calm(State) /\ Pinging(State, "recv", <<>>)
    BY <1>1, PInvState
<1>8. Linked' /\ pc' # "hung"
    BY <1>1, PInvState DEF PInv, Linked, Reconnecting
<1>9. Calm(t)
    BY <1>1, <1>5, <1>6, <1>7 DEF Calm, Idle, Wired, IsOpen, State
<1>10. /\ Serving(t) => Serving(State) /\ client.xioHandle # NULL
       /\ Serving(State) => "CONNACK" \notin link.owed /\ InStep
       /\ client.timeSincePing # 0 =>
              Serving(State) /\ link.pinged /\ comm.state = "CONNECTED"
       /\ client.clientConnected => Serving(State) /\ Serving(t)
       /\ Serving(State) /\ comm.state # "CONNECTED" => client.packetSendTimeMs = now
    BY <1>1, <1>4, <1>5, <1>6, <1>7 DEF Pinging, Serving, InStep, State
<1>11. Pinging(t, "recv", chunk')
    <2>1. Used(t, "recv") /\ t.client.clientConnected => t.link.net # "down"
        BY <1>5, <1>6
    <2>2. Serving(t) => t.client.xioHandle # NULL
        BY <1>4, <1>6, <1>10
    <2>3. ASSUME Serving(t) \/ Greeted(chunk')
          PROVE  /\ t.link.net # "down"
                 /\ t.client.codec = "ready" \/ t.link.cut
                 /\ "CONNACK" \notin t.link.owed
                 /\ \A i \in DOMAIN chunk' : chunk'[i] \notin {"REFUSED", "BAD"}
        <3>1. client'.codec = "ready" \/ link'.cut
            BY <1>5, <1>10, <2>3
        <3>2. "CONNACK" \notin link.owed \/ Greeted(chunk')
            BY <1>10, <2>3
        <3>3. \A i \in DOMAIN chunk' : chunk'[i] \notin {"REFUSED", "BAD"}
            BY <1>5, <1>10, <2>3, <3>2
        <3>4. "CONNACK" \notin link'.owed
            BY <1>5, <3>2
        <3> QED BY <1>5, <1>6, <3>1, <3>3, <3>4
    <2>4. t.client.timeSincePing # 0 =>
            /\ Serving(t) /\ t.link.pinged
            /\ t.comm.state = "CONNECTED" /\ ~Greeted(chunk')
        <3>1. Serving(State) => Serving(t) /\ ~Greeted(chunk')
            BY <1>5, <1>10 DEF Serving, State
        <3> QED BY <1>4, <1>5, <1>6, <1>10, <3>1
    <2>5. Serving(t) /\ t.comm.state # "CONNECTED" => t.client.packetSendTimeMs = t.now
        BY <1>4, <1>6, <1>10
    <2> QED BY <2>1, <2>2, <2>3, <2>4, <2>5 DEF Pinging
<1> QED BY <1>1, <1>8, <1>9, <1>11 DEF Tended, t

-----------------------------------------------------------------------------
\* What is left of a chunk greets, refuses or breaks nothing that it did not before.
LEMMA TailGreets ==
    ASSUME NEW c \in Seq(Received), c # <<>>
    PROVE  /\ Greeted(Tail(c)) => Greeted(c)
           /\ c[1] = Head(c) /\ 1 \in DOMAIN c
           /\ \A x : (\A i \in DOMAIN c : c[i] # x) => \A i \in DOMAIN Tail(c) : Tail(c)[i] # x
<1>1. \A i \in DOMAIN Tail(c) : i + 1 \in DOMAIN c /\ Tail(c)[i] = c[i + 1]
    OBVIOUS
<1>2. c[1] = Head(c) /\ 1 \in DOMAIN c
    OBVIOUS
<1> QED BY <1>1, <1>2 DEF Greeted

\* A packet that makes the client send at most, while a ping is waited for or not.
LEMMA GoesPinging ==
    ASSUME NEW s, Sound(s), Calm(s), NEW c \in Seq(Received), c # <<>>, Pinging(s, "recv", c),
           NEW t, Goes(s, t), OnOpenTransport(s) => t.comm.state = s.comm.state
    PROVE  Pinging(t, "recv", Tail(c))
<1>1. /\ t.client.clientConnected = s.client.clientConnected
      /\ t.client.xioHandle = s.client.xioHandle
      /\ t.client.timeSincePing = s.client.timeSincePing
      /\ t.client.packetSendTimeMs \in {s.client.packetSendTimeMs, s.now}
      /\ t.client.codec = s.client.codec /\ t.now = s.now
      /\ t.link.net = s.link.net /\ t.link.cut = s.link.cut
      /\ s.link.pinged => t.link.pinged
      /\ "CONNACK" \in t.link.owed => "CONNACK" \in s.link.owed
    BY DEF Goes
<1>2. Serving(t) <=> Serving(s)
    BY <1>1 DEF Serving
<1>3. Serving(s) => t.comm.state = s.comm.state
    BY ServingOpen DEF Pinging
<1>4. Greeted(Tail(c)) => Greeted(c)
    BY TailGreets
<1>5. (\A i \in DOMAIN c : c[i] \notin {"REFUSED", "BAD"}) =>
        \A i \in DOMAIN Tail(c) : Tail(c)[i] \notin {"REFUSED", "BAD"}
    BY TailGreets
<1> QED BY <1>1, <1>2, <1>3, <1>4, <1>5 DEF Pinging, Used

\* A refusal and a packet that cannot be parsed reach no session: the client has none.
LEMMA BrokenOff ==
    ASSUME NEW s, NEW c \in Seq(Received), c # <<>>, Pinging(s, "recv", c),
           Head(c) \in {"REFUSED", "BAD"}
    PROVE  /\ ~s.client.clientConnected /\ s.client.timeSincePing = 0 /\ ~Greeted(Tail(c))
<1>1. ~Serving(s) /\ ~Greeted(c)
    BY TailGreets DEF Pinging
<1>2. ~s.client.clientConnected
    BY <1>1 DEF Pinging, Used, Serving
<1> QED BY <1>1, <1>2, TailGreets DEF Pinging

\* The CONNACK itself begins the session, when no ping is waited for.
LEMMA ConnAckPinging ==
    ASSUME ~Tls, NEW s, Sound(s), Calm(s), NEW c \in Seq(Received), c # <<>>,
           Pinging(s, "recv", c), OnOpenTransport(s), Head(c) \in {"CONNACK", "REFUSED"},
           NEW t, t = OnConnAck(s, Head(c), "ok", "ok")
    PROVE  Calm(t) /\ t.now = s.now /\ Pinging(t, "recv", Tail(c))
<1>1. PICK v : /\ Goes(s, v) /\ v.client.packetSendTimeMs = s.now
               /\ t.now = v.now /\ t.xio = v.xio /\ t.comm = v.comm /\ t.link = v.link
               /\ t.client.xioHandle = v.client.xioHandle
               /\ t.client.timeSincePing = v.client.timeSincePing
               /\ t.client.packetSendTimeMs = v.client.packetSendTimeMs
               /\ t.client.codec = v.client.codec
               /\ Head(c) # "CONNACK" => t.client.clientConnected = v.client.clientConnected
    BY OnConnAckGoes
<1>2. Calm(t) /\ t.now = s.now
    <2>1. Calm(v) /\ v.now = s.now
        BY <1>1, GoesCalm DEF Goes
    <2> QED BY <1>1, <2>1 DEF Calm, Idle, Wired, IsOpen
<1>3. CASE Head(c) = "REFUSED"
    <2>1. ~s.client.clientConnected /\ s.client.timeSincePing = 0 /\ ~Greeted(Tail(c))
        BY <1>3, BrokenOff
    <2>2. ~t.client.clientConnected /\ t.client.timeSincePing = 0
        BY <1>1, <1>3, <2>1 DEF Goes
    <2> QED BY <1>2, <2>1, <2>2, NotPinging DEF Serving
<1>4. CASE Head(c) = "CONNACK"
    <2>1. Greeted(c)
        BY <1>4, TailGreets DEF Greeted
    <2>2. /\ s.link.net # "down"
          /\ s.client.codec = "ready" \/ s.link.cut
          /\ "CONNACK" \notin s.link.owed
          /\ \A i \in DOMAIN c : c[i] \notin {"REFUSED", "BAD"}
          /\ s.client.timeSincePing = 0
        BY <2>1 DEF Pinging
    <2>3. /\ t.client.xioHandle = s.client.xioHandle /\ s.client.xioHandle # NULL
          /\ t.client.timeSincePing = 0 /\ t.client.packetSendTimeMs = t.now
          /\ t.client.codec = s.client.codec
          /\ t.link.net = s.link.net /\ t.link.cut = s.link.cut
          /\ "CONNACK" \notin t.link.owed
        BY <1>1, <2>2 DEF Goes, OnOpenTransport, IsOpen
    <2>4. \A i \in DOMAIN Tail(c) : Tail(c)[i] \notin {"REFUSED", "BAD"}
        BY <2>2, TailGreets
    <2>5. Pinging(t, "recv", Tail(c))
        BY <2>2, <2>3, <2>4 DEF Pinging
    <2> QED BY <1>2, <2>5
<1> QED BY <1>3, <1>4

\* A ping response ends the wait.
LEMMA PingRespPinging ==
    ASSUME NEW s, Sound(s), Calm(s), NEW c \in Seq(Received), c # <<>>,
           Pinging(s, "recv", c), NEW t, t = PingResp(s)
    PROVE  Calm(t) /\ t.now = s.now /\ Pinging(t, "recv", Tail(c))
<1>1. /\ t.comm = s.comm /\ t.xio = s.xio /\ t.now = s.now
      /\ t.client.clientConnected = s.client.clientConnected
      /\ t.client.xioHandle = s.client.xioHandle
      /\ t.client.timeSincePing = 0
      /\ t.client.packetSendTimeMs = s.client.packetSendTimeMs
      /\ t.client.codec = s.client.codec
      /\ t.link.net = s.link.net /\ t.link.cut = s.link.cut
      /\ t.link.asked = s.link.asked /\ t.link.owed = s.link.owed
    BY DEF PingResp, Sound, System, Client, Link
<1>2. Calm(t)
    BY <1>1 DEF Calm, Idle, Wired, IsOpen
<1>3. Greeted(Tail(c)) => Greeted(c)
    BY TailGreets
<1>4. (\A i \in DOMAIN c : c[i] \notin {"REFUSED", "BAD"}) =>
        \A i \in DOMAIN Tail(c) : Tail(c)[i] \notin {"REFUSED", "BAD"}
    BY TailGreets
<1>5. Serving(t) <=> Serving(s)
    BY <1>1 DEF Serving
<1>6. Pinging(t, "recv", Tail(c))
    BY <1>1, <1>3, <1>4, <1>5 DEF Pinging, Used
<1> QED BY <1>1, <1>2, <1>6

\* A packet is dispatched.
LEMMA DispatchTended ==
    ASSUME PInv, ~Tls, FaultKinds \subseteq CalmFaults, Dispatch
    PROVE  Tended
<1>1. pc = "recv" /\ chunk # <<>> /\ chunk' = Tail(chunk)
    BY DEF Dispatch, Dispatched
<1>2. PICK o1, o2 \in SendOutcomes, qos \in 0..2 :
        /\ Spend(<<o1, o2>>)
        /\ LET s == RecvComplete(State, Head(chunk), qos, o1, o2)
           IN  Become(s, IF Tls /\ Tail(chunk) = <<>> /\ ~IsOpen(s, s.client.xioHandle)
                         THEN "hung" ELSE "recv")
    BY DEF Dispatch, Dispatched
<1>3. o1 = "ok" /\ o2 = "ok"
    BY <1>2, CalmSends
<1> DEFINE p == Head(chunk)
           s == RecvComplete(State, p, qos, "ok", "ok")
<1>4. Become(s, "recv")
    BY <1>2, <1>3
<1>5. /\ Sound(State) /\ chunk \in Seq(Received) /\ p \in Received
      /\ SessionAt(State, "recv", chunk) /\ State.comm.state # "CONNECTING"
    BY <1>1, InDoWork DEF PInv
<1>6. Calm(State) /\ Unregistered(State) /\ Pinging(State, "recv", chunk) /\ State.now = now
    BY <1>1, PInvState DEF State
<1>7. s.comm.state # "CONNECTING"
    <2>1. "ok" \in SendOutcomes
        BY DEF SendOutcomes, XioSendOutcomes
    <2> QED BY <1>5, <2>1, RecvCompleteKeeps DEF Keeps
<1>8. Calm(s) /\ s.now = now /\ Pinging(s, "recv", Tail(chunk))
    <2>1. CASE p \in {"CONNACK", "REFUSED"}
        <3>1. s = OnConnAck(State, p, "ok", "ok")
            BY <2>1 DEF RecvComplete
        <3> HIDE DEF s
        <3>2. OnOpenTransport(State)
            BY <1>1, <1>5, <2>1, TailGreets DEF SessionAt, ConnAckFirst, Opened
        <3> QED BY <1>1, <1>5, <1>6, <2>1, <3>1, <3>2, ConnAckPinging
    <2>2. CASE p = "PINGRESP"
        <3>1. s = PingResp(State)
            BY <2>2 DEF RecvComplete
        <3> HIDE DEF s
        <3> QED BY <1>1, <1>5, <1>6, <3>1, PingRespPinging
    <2>3. CASE p = "BAD"
        <3>1. s = SetError(State)
            BY <2>3 DEF RecvComplete
        <3> HIDE DEF s
        <3>2. /\ ~State.client.clientConnected /\ State.client.timeSincePing = 0
              /\ ~Greeted(Tail(chunk))
            BY <1>1, <1>5, <1>6, <2>3, BrokenOff
        <3>3. /\ Ended(State, s) /\ Calm(s) /\ s.now = now
              /\ s.client.timeSincePing = 0
            BY <1>5, <1>6, <3>1, <3>2, PlainSetError, SetErrorCloses
        <3>4. ~s.client.clientConnected
            BY <3>2, <3>3 DEF Ended
        <3> QED BY <3>2, <3>3, <3>4, NotPinging DEF Serving
    <2>4. CASE p \notin {"CONNACK", "REFUSED", "PINGRESP", "BAD"}
        <3>1. /\ Goes(State, s)
              /\ OnOpenTransport(State) => s.comm.state = State.comm.state
            BY <1>5, <1>6, <2>4, RecvCompleteGoes
        <3> HIDE DEF s
        <3>2. Pinging(s, "recv", Tail(chunk))
            BY <1>1, <1>5, <1>6, <3>1, GoesPinging
        <3> QED BY <1>6, <3>1, <3>2, GoesCalm DEF Goes
    <2> QED BY <2>1, <2>2, <2>3, <2>4
<1> HIDE DEF s
<1> QED BY <1>1, <1>4, <1>7, <1>8, BecomeTended

\* Who has just sent has no ping to send.
LEMMA JustSent ==
    ASSUME KeepAlive > 0, NEW s, s \in System, s.client.packetSendTimeMs = s.now
    PROVE  ~PingDue(s)
<1>1. PingDue(s) <=> Elapsed(s.now, s.client.packetSendTimeMs) >= Interval
    BY KeepAliveDue
<1>2. Elapsed(s.now, s.client.packetSendTimeMs) = 0
    BY ElapsedNow DEF System
<1>3. Interval \in Nat /\ Interval > 0
    BY ResponseInTime
<1> QED BY <1>1, <1>2, <1>3

\* The keep-alive check: the ping it sends is that of a session on a connection that
\* takes it, and nothing is reported that would end either.
LEMMA FinishDoWorkTended ==
    ASSUME PInv, ~Tls, FaultKinds \subseteq CalmFaults, FinishDoWork
    PROVE  Tended
<1>1. PICK o \in SendOutcomes : Spend(<<o>>) /\ Become(KeepAliveCheck(State, o), "loop")
    BY DEF FinishDoWork
<1>2. o = "ok" /\ pc = "recv" /\ chunk = <<>> /\ chunk' = chunk
    BY <1>1, CalmSends DEF FinishDoWork
<1> DEFINE s == State
           t == KeepAliveCheck(s, "ok")
<1>3. Become(t, "loop")
    BY <1>1, <1>2
<1>4. /\ Sound(s) /\ Calm(s) /\ Unregistered(s) /\ Pinging(s, "recv", <<>>) /\ s.now = now
      /\ s.comm.state # "CONNECTING"
      /\ s.client.clientConnected => s.client.socketConnected
    BY <1>2, PInvState DEF State
<1> HIDE DEF s
<1>5. ASSUME s.client.clientConnected
      PROVE  Serving(s) /\ s.client.xioHandle # NULL /\ OnOpenTransport(s)
    <2>1. Serving(s)
        BY <1>4, <1>5 DEF Pinging, Used, Serving
    <2>2. s.client.xioHandle # NULL
        BY <1>4, <2>1 DEF Pinging
    <2> QED BY <1>4, <2>1, <2>2, ServingOpen
<1>6. /\ Calm(t) /\ t.now = s.now
      /\ \/ t = s
         \/ t.client.timeSincePing = 0 /\ ~t.client.clientConnected
         \/ /\ KeepAliveActive(s) /\ PingDue(s)
            /\ t.comm = s.comm /\ t.link.net = s.link.net /\ t.link.cut = s.link.cut
            /\ t.client.clientConnected = s.client.clientConnected
            /\ t.client.xioHandle = s.client.xioHandle
            /\ t.client.codec = s.client.codec
            /\ t.client.timeSincePing = s.now
            /\ "CONNACK" \in t.link.owed => "CONNACK" \in s.link.owed
            /\ OnOpenTransport(s) => t.link.pinged
    BY <1>4, <1>5, KeepAliveCheckGoes
<1>7. t.comm.state # "CONNECTING"
    <2>1. "ok" \in SendOutcomes
        BY DEF SendOutcomes, XioSendOutcomes
    <2> QED BY <1>4, <2>1, KeepAliveCheckKeeps DEF Keeps
<1> HIDE DEF t
<1>8. Pinging(t, "loop", <<>>)
    <2>1. CASE t = s
        BY <1>4, <2>1 DEF Pinging, Used
    <2>2. CASE t.client.timeSincePing = 0 /\ ~t.client.clientConnected
        BY <2>2, NotPinging, NothingGreets DEF Serving
    <2>3. ASSUME KeepAliveActive(s), PingDue(s),
                 t.comm = s.comm, t.link.net = s.link.net, t.link.cut = s.link.cut,
                 t.client.clientConnected = s.client.clientConnected,
                 t.client.xioHandle = s.client.xioHandle,
                 t.client.codec = s.client.codec,
                 "CONNACK" \in t.link.owed => "CONNACK" \in s.link.owed,
                 OnOpenTransport(s) => t.link.pinged
          PROVE  Pinging(t, "loop", <<>>)
        <3>1. /\ Serving(s) /\ s.client.xioHandle # NULL /\ t.link.pinged
              /\ s.client.clientConnected /\ KeepAlive > 0
            BY <1>5, <2>3 DEF KeepAliveActive
        <3>2. Serving(t)
            BY <2>3, <3>1 DEF Serving
        <3>3. s.client.packetSendTimeMs # s.now
            BY <1>4, <2>3, <3>1, JustSent DEF Sound
        <3>4. s.comm.state = "CONNECTED"
            BY <1>4, <3>1, <3>3 DEF Pinging
        <3>5. /\ s.link.net # "down" /\ "CONNACK" \notin s.link.owed
              /\ s.client.codec = "ready" \/ s.link.cut
            BY <1>4, <3>1 DEF Pinging
        <3> QED BY <2>3, <3>1, <3>2, <3>4, <3>5, NothingGreets DEF Pinging
    <2> QED BY <1>6, <2>1, <2>2, <2>3
<1> QED BY <1>2, <1>3, <1>4, <1>6, <1>7, <1>8, BecomeTended

-----------------------------------------------------------------------------
\* The peer falls silent.
LEMMA LinkFaultTended ==
    ASSUME PInv, ~Tls, FaultKinds \subseteq CalmFaults, LinkFault
    PROVE  Tended
<1>1. PICK f \in {"reset", "silent"} : Spend(<<f>>) /\ link' = [link EXCEPT !.net = f]
    BY DEF LinkFault
<1>2. f = "silent"
    BY <1>1, CalmSpends
<1>3. link \in Link /\ link.net = "up" /\ UNCHANGED <<client, comm, xio, now, pc, chunk, ran>>
    BY DEF LinkFault, PInv, SessionInv, IInv, TypeOK
<1>4. /\ link'.net = "silent" /\ link'.asked = link.asked /\ link'.pinged = link.pinged
      /\ link'.owed = link.owed /\ link'.cut = link.cut
    BY <1>1, <1>2, <1>3 DEF Link
<1> DEFINE t == State'
<1>5. /\ t.client = State.client /\ t.comm = State.comm /\ t.xio = State.xio
      /\ t.now = State.now /\ t.link = link' /\ State.link = link
    BY <1>3 DEF State
<1> HIDE DEF t
<1>6. Linked' /\ pc' # "hung"
    BY <1>3, <1>4, PInvState DEF PInv, Linked, Reconnecting
<1>7. Calm(t)
    BY <1>3, <1>4, <1>5 DEF PInv, Calm, Idle, Wired, IsOpen
<1>8. Pinging(State, pc, chunk) /\ (Serving(t) <=> Serving(State))
    BY <1>3, <1>4, <1>5 DEF PInv, Serving
<1>9. Used(t, pc) <=> Used(State, pc)
    BY <1>5 DEF Used
<1>10. Pinging(t, pc, chunk)
    BY <1>3, <1>4, <1>5, <1>8, <1>9 DEF Pinging
<1> QED BY <1>3, <1>6, <1>7, <1>10 DEF Tended, t

\* The clock ticks, outside mqtt_client_dowork; or nothing happens.
LEMMA TickTended ==
    ASSUME PInv, ~Tls, Tick \/ UNCHANGED vars
    PROVE  Tended
<1>1. UNCHANGED <<client, comm, xio, link, pc, chunk>>
    BY DEF Tick, vars
<1>2. now' = now \/ pc \in {"loop", "connecting"}
    BY PInvState DEF Tick, vars
<1> DEFINE t == State'
<1>3. /\ t.client = State.client /\ t.comm = State.comm /\ t.xio = State.xio
      /\ t.link = State.link /\ t.now = now' /\ State.now = now
    BY <1>1 DEF State
<1> HIDE DEF t
<1>4. Linked' /\ pc' # "hung"
    BY <1>1, PInvState DEF PInv, Linked, Reconnecting
<1>5. Calm(t)
    BY <1>3 DEF PInv, Calm, Idle, Wired, IsOpen
<1>6. /\ Pinging(State, pc, chunk) /\ (Serving(t) <=> Serving(State))
      /\ Used(t, pc) <=> Used(State, pc)
    BY <1>3 DEF PInv, Serving, Used
<1>7. Pinging(t, pc, chunk)
    BY <1>2, <1>3, <1>6 DEF Pinging
<1> QED BY <1>1, <1>4, <1>5, <1>7 DEF Tended, t

-----------------------------------------------------------------------------
\* Every step keeps PInv.
LEMMA PInvInductive ==
    ASSUME ~Tls, FaultKinds \subseteq CalmFaults, PInv, [AppNext]_vars
    PROVE  PInv'
<1>1. Tended
    <2>1. CASE Reconnect \/ StartConnecting \/ TryConnect \/ Watchdog
        BY <2>1, ReconnectTended, StartConnectingTended, TryConnectTended, WatchdogTended
    <2>2. CASE DoWork \/ FlushEnds
        BY <2>2, DoWorkTended, FlushEndsTended
    <2>3. CASE Recv \/ Dispatch \/ FinishDoWork
        BY <2>3, RecvTended, DispatchTended, FinishDoWorkTended
    <2>4. CASE LinkFault \/ Tick \/ UNCHANGED vars
        BY <2>4, LinkFaultTended, TickTended
    <2>5. ~HandshakeStalls /\ ~RecvNoMemory
        BY DEF HandshakeStalls, RecvNoMemory
    <2>6. ~FlushSends /\ ~FlushFails
        BY NothingPending DEF FlushSends, FlushFails
    <2>7. ~RecvFails
        BY DEF RecvFails, PInv, Calm, Wired, State
    <2>8. ~DispatchNoMemory
        BY DEF DispatchNoMemory, Spend, Faulty, CalmFaults
    <2> QED BY <2>1, <2>2, <2>3, <2>4, <2>5, <2>6, <2>7, <2>8 DEF AppNext, Next, Process
<1>2. SessionInv' /\ Quiet(State, State')
    BY SessionInductive, StepQuiet DEF PInv
<1>3. Unasked'
    <2>1. Unregistered(State) /\ comm.state # "DISCONNECTED"
        BY DEF PInv, Unasked
    <2>2. Unregistered(State') /\ comm'.state # "DISCONNECTED"
        BY <1>2, <2>1 DEF Quiet, State
    <2> QED BY <1>1, <2>2 DEF Unasked, Tended
<1> QED BY <1>1, <1>2, <1>3 DEF PInv, Tended

\* A ping that is waited for is one of this connection.
LEMMA PInvReal == ASSUME ~Tls, PInv PROVE PingTimeoutIsReal
<1> SUFFICES ASSUME PingOverdue(State) PROVE link.pinged
    BY DEF PingTimeoutIsReal
<1>1. State.client.timeSincePing # 0
    BY PInvState, ClientAssumption DEF PingOverdue, System, Client, Ticks
<1> QED BY <1>1 DEF PInv, Pinging, State

-----------------------------------------------------------------------------
\* Over a plain socket that takes every packet, the state of the client, of the codec
\* and of the communicator stays that of the connection the ping was sent on: what
\* mqtt_client.c forgets, keeps and reports through every reconnect and restart.
THEOREM PingsInSession ==
    ASSUME ~Tls, FaultKinds \subseteq CalmFaults
    PROVE  AppSpec => []PInv
<1>1. Init => PInv
    BY InitPings
<1>2. PInv /\ [AppNext]_vars => PInv'
    BY PInvInductive
<1> QED BY <1>1, <1>2, AppSteps, PTL

\* SRS_MQTT_CLIENT_07_035: there the no-ping-response error of mqtt_client_dowork is
\* raised only for a PINGREQ of this connection that is unanswered: failed opens and
\* allocations, refusals, silent peers, packets cut by recv and restarts by the
\* monitor never leave an old ping to time out.  The same where the silence of the
\* peer is counted, which is how the run keep_alive checks it.
THEOREM PingTimeouts ==
    ASSUME ~Tls, FaultKinds \subseteq CalmFaults
    PROVE  /\ AppSpec => []PingTimeoutIsReal
           /\ KeepAliveSpec => []PingTimeoutIsReal
<1>1. Init => PInv
    BY InitPings
<1>2. PInv => PingTimeoutIsReal
    BY PInvReal
<1>3. KeepAliveInit => Init
    BY DEF KeepAliveInit
<1>4. [KeepAliveNext]_kvars => [AppNext]_vars
    BY DEF KeepAliveNext, kvars, vars, AppNext
<1>5. PInv /\ [AppNext]_vars => PInv'
    BY PInvInductive
<1> QED BY <1>1, <1>2, <1>3, <1>4, <1>5, PingsInSession, PTL DEF KeepAliveSpec

=============================================================================
