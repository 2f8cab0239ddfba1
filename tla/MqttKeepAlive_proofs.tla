------------------------- MODULE MqttKeepAlive_proofs -------------------------
(***************************************************************************)
(* Proof that the keep-alive of mqtt_client_dowork notices a vanished      *)
(* peer in time, for every keep-alive interval shorter than the period of  *)
(* the tick counter, wherever the counter wraps and whatever else fails.   *)
(***************************************************************************)
EXTENDS MqttKeepAlive, MqttSession_proofs

\* Ticks from x to n, across the wrap.
Elapsed(n, x) == (n + TickMod - x) % TickMod

\* What mqtt_client_dowork compares the two times with, in ticks.
Interval == KeepAlive * MsPerSec
Response == (MaxPingRespTime + 1) * MsPerSec

-----------------------------------------------------------------------------
\* A number below the modulus, and one that exceeds it by less than itself.
LEMMA Wrapped ==
    ASSUME NEW n \in Nat, NEW d \in Nat, n < d
    PROVE  n % d = n /\ (n + d) % d = n
<1>1. n % d = n
    BY SMT
<1>2. (n + d) % d = n
    BY SMT
<1> QED BY <1>1, <1>2

\* The unsigned difference of two ticks.
LEMMA ElapsedValue ==
    ASSUME NEW n \in Ticks, NEW x \in Ticks
    PROVE  /\ Elapsed(n, x) \in Ticks
           /\ x <= n => Elapsed(n, x) = n - x
           /\ x > n => Elapsed(n, x) = n + TickMod - x
<1>1. n \in Nat /\ x \in Nat /\ n < TickMod /\ x < TickMod /\ TickMod \in Nat
    BY ClientAssumption DEF Ticks
<1>2. CASE x <= n
    <2> DEFINE m == n - x
    <2>1. m \in Nat /\ m < TickMod /\ n + TickMod - x = m + TickMod
        BY <1>1, <1>2
    <2> HIDE DEF m
    <2>2. Elapsed(n, x) = m
        BY <1>1, <2>1, Wrapped DEF Elapsed
    <2>3. m \in Ticks /\ m = n - x /\ ~(x > n)
        BY <1>1, <1>2, <2>1 DEF Ticks, m
    <2> QED BY <2>2, <2>3
<1>3. CASE x > n
    <2> DEFINE m == n + TickMod - x
    <2>1. m \in Nat /\ m < TickMod
        BY <1>1, <1>3
    <2> HIDE DEF m
    <2>2. m % TickMod = m
        BY <1>1, <2>1, Wrapped
    <2>3. m \in Ticks /\ ~(x <= n)
        BY <1>1, <1>3, <2>1 DEF Ticks
    <2> QED BY <2>2, <2>3 DEF Elapsed, m
<1> QED BY <1>1, <1>2, <1>3

\* No time has passed since now.
LEMMA ElapsedNow == ASSUME NEW n \in Ticks PROVE Elapsed(n, n) = 0
<1>1. n \in Nat
    BY ClientAssumption DEF Ticks
<1> QED BY <1>1, ElapsedValue

\* A tick adds one, also when the counter wraps between the two times.
LEMMA ElapsedTick ==
    ASSUME NEW n \in Ticks, NEW x \in Ticks, Elapsed(n, x) < TickMod - 1
    PROVE  Elapsed((n + 1) % TickMod, x) = Elapsed(n, x) + 1
<1> DEFINE k == (n + 1) % TickMod
<1>1. n \in Nat /\ x \in Nat /\ n < TickMod /\ x < TickMod /\ TickMod \in Nat \ {0}
    BY ClientAssumption DEF Ticks
<1>2. k = IF n = TickMod - 1 THEN 0 ELSE n + 1
    <2>1. CASE n = TickMod - 1
        <3>1. n + 1 = 0 + TickMod /\ 0 < TickMod
            BY <1>1, <2>1
        <3> QED BY <1>1, <2>1, <3>1, Wrapped
    <2>2. CASE n # TickMod - 1
        <3>1. n + 1 < TickMod /\ n + 1 \in Nat
            BY <1>1, <2>2
        <3> QED BY <1>1, <2>2, <3>1, Wrapped
    <2> QED BY <2>1, <2>2
<1> HIDE DEF k
<1>3. k \in Ticks
    BY <1>1, <1>2 DEF Ticks
<1>4. /\ Elapsed(k, x) = IF x <= k THEN k - x ELSE k + TickMod - x
      /\ Elapsed(n, x) = IF x <= n THEN n - x ELSE n + TickMod - x
    <2>1. k \in Nat
        BY <1>1, <1>2
    <2>2. (x > n <=> ~(x <= n)) /\ (x > k <=> ~(x <= k))
        BY <1>1, <2>1
    <2> QED BY <1>3, <2>2, ElapsedValue
<1>5. Elapsed(k, x) = Elapsed(n, x) + 1
    BY <1>1, <1>2, <1>4
<1> QED BY <1>5 DEF k

\* Truncating ticks to seconds: a number of whole seconds is reached exactly when
\* its ticks are.
LEMMA SecondsReached ==
    ASSUME NEW e \in Nat, NEW k \in Nat
    PROVE  e \div MsPerSec >= k <=> e >= k * MsPerSec
<1> DEFINE q == e \div MsPerSec
           m == MsPerSec * q
<1>1. MsPerSec \in Nat /\ MsPerSec > 0
    BY ClientAssumption
<1>2. q \in Nat
    BY <1>1, SMT
<1>3. e % MsPerSec \in 0 .. MsPerSec - 1
    BY <1>1, SMT
<1>4. e % MsPerSec = e - m
    BY <1>1, SMT
<1>5. m \in Nat
    BY <1>1, <1>2
<1>6. m <= e /\ e < m + MsPerSec
    BY <1>1, <1>3, <1>4, <1>5
<1> HIDE DEF q
<1>7. CASE q >= k
    <2>1. m = k * MsPerSec + MsPerSec * (q - k) /\ MsPerSec * (q - k) >= 0
        BY <1>1, <1>2, <1>7
    <2>2. k * MsPerSec \in Nat /\ MsPerSec * (q - k) \in Nat
        BY <1>1, <1>2, <1>7
    <2> HIDE DEF m
    <2>3. e >= k * MsPerSec
        BY <1>5, <1>6, <2>1, <2>2
    <2> QED BY <1>7, <2>3 DEF q
<1>8. CASE ~(q >= k)
    <2>1. k - 1 - q >= 0
        BY <1>2, <1>8
    <2>2. k * MsPerSec = (m + MsPerSec) + MsPerSec * (k - 1 - q) /\ MsPerSec * (k - 1 - q) >= 0
        BY <1>1, <1>2, <2>1
    <2>3. k * MsPerSec \in Nat /\ MsPerSec * (k - 1 - q) \in Nat
        BY <1>1, <1>2, <2>1
    <2> HIDE DEF m
    <2>4. ~(e >= k * MsPerSec)
        BY <1>1, <1>5, <1>6, <2>2, <2>3
    <2> QED BY <1>8, <2>4 DEF q
<1> QED BY <1>7, <1>8

\* The client waits for an answer no longer than for its next ping.
LEMMA ResponseInTime ==
    ASSUME KeepAlive > 0
    PROVE  /\ Interval \in Nat /\ Response \in Nat
           /\ 0 < Response /\ Response <= Interval
           /\ MaxPingRespTime \in Nat
           /\ NoticeTime + ZeroTick = 2 * Interval + Response
<1>1. KeepAlive \in Nat /\ MsPerSec \in Nat /\ MsPerSec > 0
    BY ClientAssumption
<1> DEFINE r == MaxPingRespTime
<1>2. r \in Nat /\ r + 1 <= KeepAlive
    BY <1>1, SMT DEF MaxPingRespTime
<1> HIDE DEF r
<1>3. /\ Interval = Response + (KeepAlive - (r + 1)) * MsPerSec
      /\ Response = r * MsPerSec + MsPerSec
    BY <1>1, <1>2 DEF Interval, Response, r
<1>4. (KeepAlive - (r + 1)) * MsPerSec \in Nat /\ r * MsPerSec \in Nat
    BY <1>1, <1>2
<1>5. Interval \in Nat /\ Response \in Nat /\ 0 < Response /\ Response <= Interval
    BY <1>1, <1>3, <1>4 DEF Interval
<1>6. NoticeTime = Interval + Response /\ ZeroTick = Interval
    BY <1>1, <1>2 DEF NoticeTime, ZeroTick, Interval, Response, r
<1> QED BY <1>2, <1>5, <1>6 DEF r

\* When the two conditions of the keep-alive hold, in ticks.
LEMMA KeepAliveDue ==
    ASSUME KeepAlive > 0, NEW s, s \in System
    PROVE  /\ PingDue(s) <=> Elapsed(s.now, s.client.packetSendTimeMs) >= Interval
           /\ PingOverdue(s) <=> /\ s.client.timeSincePing # 0
                                 /\ Elapsed(s.now, s.client.timeSincePing) >= Response
<1> DEFINE a == Elapsed(s.now, s.client.packetSendTimeMs)
           b == Elapsed(s.now, s.client.timeSincePing)
<1>1. /\ s.now \in Ticks /\ s.client.packetSendTimeMs \in Ticks
      /\ s.client.timeSincePing \in Ticks
    BY DEF System, Client
<1>2. a \in Ticks /\ b \in Ticks
    BY <1>1, ElapsedValue
<1>3. a \in Nat /\ b \in Nat /\ s.client.timeSincePing \in Nat
    BY <1>1, <1>2, ClientAssumption DEF Ticks
<1>4. /\ Seconds(s.now, s.client.packetSendTimeMs) = a \div MsPerSec
      /\ Seconds(s.now, s.client.timeSincePing) = b \div MsPerSec
    BY DEF Seconds, Elapsed
<1> HIDE DEF a, b
<1>5. KeepAlive \in Nat /\ MaxPingRespTime + 1 \in Nat /\ MaxPingRespTime \in Nat
    BY ClientAssumption, ResponseInTime
<1>6. a \div MsPerSec >= KeepAlive <=> a >= Interval
    BY <1>3, <1>5, SecondsReached DEF Interval
<1>7. b \div MsPerSec >= MaxPingRespTime + 1 <=> b >= Response
    BY <1>3, <1>5, SecondsReached DEF Response
<1>8. b \div MsPerSec \in Nat
    BY <1>3, ClientAssumption, SMT
<1>9. b \div MsPerSec > MaxPingRespTime <=> b >= Response
    BY <1>5, <1>7, <1>8
<1>10. s.client.timeSincePing > 0 <=> s.client.timeSincePing # 0
    BY <1>3
<1> QED BY <1>4, <1>6, <1>9, <1>10 DEF PingDue, PingOverdue, a, b

-----------------------------------------------------------------------------
(***************************************************************************)
(* The times of a session at tick n: S, when the client last sent; P, when *)
(* its unanswered ping went out, 0 for none; q, for how long the peer has  *)
(* been silent.                                                            *)
(*   - The last send is no older than an interval, and an unanswered ping  *)
(*     no younger than it.                                                 *)
(*   - Either the client has not sent since the silence began; or the ping *)
(*     it sent then went out at tick 0, which is taken for none; or it has *)
(*     sent one that it waits for, at most two intervals later.            *)
(***************************************************************************)
InTime(n, S, P, q) ==
    /\ Elapsed(n, S) <= Interval
    /\ P # 0 => Elapsed(n, S) <= Elapsed(n, P)
    /\ \/ q <= Elapsed(n, S)
       \/ S = 0 /\ P = 0 /\ q <= Interval + Elapsed(n, S)
       \/ P # 0 /\ Elapsed(n, P) <= Response /\ q <= 2 * Interval + Elapsed(n, P)

\* The keep-alive check has found nothing to do.
Checked(n, S, P) ==
    Elapsed(n, S) < Interval /\ (P # 0 => Elapsed(n, P) < Response)

\* A silence that is noticed, or has not begun, is in time.
LEMMA InTimeLess ==
    ASSUME KeepAlive > 0, NEW n \in Ticks, NEW S \in Ticks, NEW P \in Ticks, NEW q \in Nat,
           InTime(n, S, P, q), NEW r \in Nat, r <= q
    PROVE  InTime(n, S, P, r)
<1>1. Elapsed(n, S) \in Nat /\ Elapsed(n, P) \in Nat
    BY ElapsedValue, ClientAssumption DEF Ticks
<1>2. Interval \in Nat /\ Response \in Nat
    BY ResponseInTime
<1> QED BY <1>1, <1>2 DEF InTime

\* A send before the silence begins.
LEMMA InTimeSent ==
    ASSUME KeepAlive > 0, NEW n \in Ticks, NEW P \in Ticks
    PROVE  InTime(n, n, P, 0)
<1>1. Elapsed(n, n) = 0 /\ Elapsed(n, P) \in Nat
    BY ElapsedNow, ElapsedValue, ClientAssumption DEF Ticks
<1>2. Interval \in Nat
    BY ResponseInTime
<1> QED BY <1>1, <1>2 DEF InTime

\* An answer before the silence begins.
LEMMA InTimeAnswered ==
    ASSUME NEW n \in Ticks, NEW S \in Ticks, NEW P \in Ticks, InTime(n, S, P, 0)
    PROVE  InTime(n, S, 0, 0)
<1>1. Elapsed(n, S) \in Nat
    BY ElapsedValue, ClientAssumption DEF Ticks
<1> QED BY <1>1 DEF InTime

\* The clock may tick once the keep-alive check has been made, and the interval is
\* shorter than the period of the clock.
LEMMA InTimeTick ==
    ASSUME KeepAlive > 0, Interval < TickMod,
           NEW n \in Ticks, NEW S \in Ticks, NEW P \in Ticks, NEW q \in Nat,
           InTime(n, S, P, q), Checked(n, S, P)
    PROVE  InTime((n + 1) % TickMod, S, P, q + 1)
<1> DEFINE m == (n + 1) % TickMod
           a == Elapsed(n, S)
           b == Elapsed(n, P)
<1>1. a \in Nat /\ b \in Nat /\ TickMod \in Nat
    BY ElapsedValue, ClientAssumption DEF Ticks
<1>2. Interval \in Nat /\ Response \in Nat /\ Response <= Interval
    BY ResponseInTime
<1>3. a < Interval /\ (P # 0 => b < Response)
    BY DEF Checked
<1>4. a < TickMod - 1 /\ (P # 0 => b < TickMod - 1)
    BY <1>1, <1>2, <1>3
<1>5. Elapsed(m, S) = a + 1 /\ (P # 0 => Elapsed(m, P) = b + 1)
    BY <1>4, ElapsedTick
<1>6. /\ P # 0 => a <= b
      /\ \/ q <= a
         \/ S = 0 /\ P = 0 /\ q <= Interval + a
         \/ P # 0 /\ b <= Response /\ q <= 2 * Interval + b
    BY DEF InTime
<1> HIDE DEF a, b, m
<1>7. InTime(m, S, P, q + 1)
    <2>1. a + 1 <= Interval /\ (P # 0 => a + 1 <= b + 1)
        BY <1>1, <1>2, <1>3, <1>6
    <2>2. \/ q + 1 <= a + 1
          \/ S = 0 /\ P = 0 /\ q + 1 <= Interval + (a + 1)
          \/ P # 0 /\ b + 1 <= Response /\ q + 1 <= 2 * Interval + (b + 1)
        BY <1>1, <1>2, <1>3, <1>6
    <2>3. CASE P = 0
        BY <1>5, <2>1, <2>2, <2>3 DEF InTime
    <2>4. CASE P # 0
        BY <1>5, <2>1, <2>2, <2>4 DEF InTime
    <2> QED BY <2>3, <2>4
<1> QED BY <1>7 DEF m

\* A ping is due, and no earlier one overdue.
LEMMA InTimePinged ==
    ASSUME KeepAlive > 0, NEW n \in Ticks, NEW S \in Ticks, NEW P \in Ticks, NEW q \in Nat,
           InTime(n, S, P, q), Elapsed(n, S) >= Interval,
           ~(P # 0 /\ Elapsed(n, P) >= Response)
    PROVE  InTime(n, n, n, q) /\ Checked(n, n, n)
<1> DEFINE a == Elapsed(n, S)
           b == Elapsed(n, P)
<1>1. a \in Nat /\ b \in Nat /\ Elapsed(n, n) = 0
    BY ElapsedNow, ElapsedValue, ClientAssumption DEF Ticks
<1>2. /\ Interval \in Nat /\ Response \in Nat
      /\ Response <= Interval /\ 0 < Response
    BY ResponseInTime
<1>3. /\ a <= Interval /\ (P # 0 => a <= b)
      /\ \/ q <= a
         \/ S = 0 /\ P = 0 /\ q <= Interval + a
         \/ P # 0 /\ b <= Response /\ q <= 2 * Interval + b
    BY DEF InTime
<1>4. a >= Interval /\ ~(P # 0 /\ b >= Response)
    OBVIOUS
<1>5. n = 0 /\ S = 0 => a = 0
    BY <1>1
<1> HIDE DEF a, b
<1>6. P = 0
    BY <1>1, <1>2, <1>3, <1>4
<1>7. \/ n = 0 /\ q <= Interval
      \/ n # 0 /\ q <= 2 * Interval
    <2>1. q <= a \/ (S = 0 /\ q <= Interval + a)
        BY <1>3, <1>6
    <2>2. CASE q <= a
        BY <1>1, <1>2, <1>3, <2>2
    <2>3. CASE S = 0 /\ q <= Interval + a
        <3>1. n # 0
            BY <1>1, <1>2, <1>4, <1>5, <2>3
        <3> QED BY <1>1, <1>2, <1>3, <2>3, <3>1
    <2> QED BY <2>1, <2>2, <2>3
<1>8. InTime(n, n, n, q)
    BY <1>1, <1>2, <1>7 DEF InTime
<1>9. Checked(n, n, n)
    BY <1>1, <1>2 DEF Checked
<1> QED BY <1>8, <1>9

\* A session in time has not missed the silence of its peer.
LEMMA InTimeNoticed ==
    ASSUME KeepAlive > 0, NEW n \in Ticks, NEW S \in Ticks, NEW P \in Ticks, NEW q \in Nat,
           InTime(n, S, P, q)
    PROVE  q <= NoticeTime + ZeroTick
<1> DEFINE a == Elapsed(n, S)
           b == Elapsed(n, P)
<1>1. a \in Nat /\ b \in Nat
    BY ElapsedValue, ClientAssumption DEF Ticks
<1>2. /\ Interval \in Nat /\ Response \in Nat
      /\ NoticeTime + ZeroTick = 2 * Interval + Response
    BY ResponseInTime
<1>3. /\ a <= Interval
      /\ \/ q <= a
         \/ q <= Interval + a
         \/ b <= Response /\ q <= 2 * Interval + b
    BY DEF InTime
<1> HIDE DEF a, b
<1>4. q <= 2 * Interval + Response
    BY <1>1, <1>2, <1>3
<1> QED BY <1>2, <1>4

-----------------------------------------------------------------------------
(***************************************************************************)
(* What the functions of the client do to the times of a session, over a   *)
(* plain socket.  Serving: there is a session to be kept alive.  Kept: it  *)
(* is the same afterwards, and perhaps something was sent.                 *)
(***************************************************************************)
Serving(s) == s.client.clientConnected /\ s.link.net # "down"

NotReopened(s, t) == t.link.net # "down" => s.link.net # "down"

Kept(s, t) ==
    /\ t.now = s.now /\ NotReopened(s, t)
    /\ t.client.clientConnected = s.client.clientConnected
    /\ t.client.socketConnected = s.client.socketConnected
    /\ t.client.xioHandle = s.client.xioHandle
    /\ t.client.timeSincePing = s.client.timeSincePing
    /\ t.client.packetSendTimeMs \in {s.client.packetSendTimeMs, s.now}

Sent(s, t) == Kept(s, t) /\ t.client.packetSendTimeMs = s.now

\* Sends compose.
LEMMA KeptTwice ==
    ASSUME NEW s, NEW t, NEW u, Kept(s, t), Kept(t, u)
    PROVE  Kept(s, u) /\ (Sent(s, t) => Sent(s, u))
BY DEF Kept, Sent, NotReopened

\* Nothing happens.
LEMMA KeptSame == ASSUME NEW s PROVE Kept(s, s)
BY DEF Kept, NotReopened

\* A change that leaves the client, the clock and the link alone.
LEMMA KeptUnseen ==
    ASSUME NEW s, NEW t, t.client = s.client, t.now = s.now, NotReopened(s, t)
    PROVE  Kept(s, t)
BY DEF Kept

\* A packet reaching the broker, or failing to, opens no connection.
LEMMA DeliveredOpensNothing ==
    ASSUME NEW l \in Link, NEW p
    PROVE  Delivered(l, p).net # "down" => l.net # "down"
BY DEF Delivered, Link

\* xio_send over a plain socket, when no DISCONNECT waits for its completion, leaves
\* the client as it is, whatever becomes of the packet.
LEMMA PlainXioSend ==
    ASSUME ~Tls, NEW s, s \in System, s.client.packetState # "DISCONNECT",
           NEW h, NEW p, NEW o
    PROVE  LET t == XioSend(s, h, p, o)
           IN  t.client = s.client /\ t.now = s.now /\ NotReopened(s, t)
<1> DEFINE u == [s EXCEPT !.link.pinged = TRUE]
           handed == IF p = "PINGREQ" THEN u ELSE s
<1>1. /\ handed.client = s.client /\ handed.now = s.now
      /\ handed.link \in Link /\ handed.link.net = s.link.net
      /\ handed = [client |-> handed.client, comm |-> handed.comm, xio |-> handed.xio,
                   link |-> handed.link, now |-> handed.now]
    <2>1. /\ u.client = s.client /\ u.now = s.now
          /\ u.link \in Link /\ u.link.net = s.link.net
          /\ u = [client |-> u.client, comm |-> u.comm, xio |-> u.xio,
                  link |-> u.link, now |-> u.now]
        <3> DEFINE l == [s.link EXCEPT !.pinged = TRUE]
        <3>1. l \in Link /\ l.net = s.link.net
            BY DEF System, Link
        <3>2. u = [s EXCEPT !.link = l]
            OBVIOUS
        <3> HIDE DEF l, u
        <3> QED BY <3>1, <3>2 DEF System
    <2>2. /\ s.link \in Link
          /\ s = [client |-> s.client, comm |-> s.comm, xio |-> s.xio,
                  link |-> s.link, now |-> s.now]
        BY DEF System
    <2> HIDE DEF u
    <2> QED BY <2>1, <2>2
<1> HIDE DEF handed
<1> DEFINE d == [handed EXCEPT !.link = Delivered(@, p)]
           e == [handed EXCEPT !.xio[h].pending = Append(@, p)]
<1>2. XioSend(s, h, p, o) \in {SendComplete(d), e, s}
    BY DEF XioSend, handed
<1>3. d.client = s.client /\ d.now = s.now /\ d.link = Delivered(handed.link, p)
    BY <1>1
<1>4. e.client = s.client /\ e.now = s.now /\ e.link = handed.link
    BY <1>1
<1> HIDE DEF d, e
<1>5. SendComplete(d) = d
    BY <1>3 DEF SendComplete
<1>6. NotReopened(s, d) /\ NotReopened(s, e) /\ NotReopened(s, s)
    BY <1>1, <1>3, <1>4, DeliveredOpensNothing DEF NotReopened
<1> QED BY <1>2, <1>3, <1>4, <1>5, <1>6

\* sendPacketItem records the time.
LEMMA PlainSendPacketItem ==
    ASSUME ~Tls, NEW s, s \in System, s.client.packetState # "DISCONNECT", NEW p, NEW o
    PROVE  LET t == SendPacketItem(s, p, o)
           IN  /\ Sent(s, t) /\ t.client.packetState = s.client.packetState
               /\ t.client \in Client
<1> DEFINE a == [s EXCEPT !.client.packetSendTimeMs = s.now]
           t == XioSend(a, s.client.xioHandle, p, o)
<1>1. /\ a \in System
      /\ a.client.packetState = s.client.packetState
      /\ a.client.packetSendTimeMs = s.now
      /\ a.now = s.now /\ a.link = s.link
      /\ a.client.clientConnected = s.client.clientConnected
      /\ a.client.socketConnected = s.client.socketConnected
      /\ a.client.xioHandle = s.client.xioHandle
      /\ a.client.timeSincePing = s.client.timeSincePing
    BY DEF System, Client
<1>2. SendPacketItem(s, p, o) = t
    BY DEF SendPacketItem
<1> HIDE DEF a
<1>3. t.client = a.client /\ t.now = a.now /\ NotReopened(a, t)
    BY <1>1, PlainXioSend
<1> HIDE DEF t
<1>4. a.client \in Client
    BY <1>1 DEF System
<1> QED BY <1>1, <1>2, <1>3, <1>4 DEF Sent, Kept, NotReopened

\* mqtt_client_publish, mqtt_client_subscribe and CONNECT, unless they fail to build
\* the packet.
LEMMA PlainClientSend ==
    ASSUME ~Tls, NEW s, s \in System, NEW p \in {"CONNECT", "PUBLISH", "SUBSCRIBE"},
           NEW o, o # "noPacket"
    PROVE  Sent(s, ClientSend(s, p, o))
<1> DEFINE a == [s EXCEPT !.client.packetState = p]
<1>1. /\ a \in System
      /\ a.client.packetState = p /\ p # "DISCONNECT"
      /\ a.client.packetSendTimeMs = s.client.packetSendTimeMs
      /\ a.now = s.now /\ a.link = s.link
      /\ a.client.clientConnected = s.client.clientConnected
      /\ a.client.socketConnected = s.client.socketConnected
      /\ a.client.xioHandle = s.client.xioHandle
      /\ a.client.timeSincePing = s.client.timeSincePing
    BY DEF System, Client, PacketStates
<1>2. ClientSend(s, p, o) = SendPacketItem(a, p, o)
    BY DEF ClientSend
<1> HIDE DEF a
<1>3. Sent(a, SendPacketItem(a, p, o))
    BY <1>1, PlainSendPacketItem
<1> QED BY <1>1, <1>2, <1>3 DEF Sent, Kept, NotReopened

\* Setting the communicator's state is no send.
LEMMA KeptState ==
    ASSUME NEW s, s \in System, NEW c
    PROVE  Kept(s, [s EXCEPT !.comm.state = c])
BY KeptUnseen DEF System, NotReopened

\* MQTT_Comm_Publish, which sends when the communicator is connected.
LEMMA PlainCommPublish ==
    ASSUME ~Tls, NEW s, Sound(s), NEW o \in SendOutcomes, o # "noPacket"
    PROVE  LET t == CommPublish(s, o)
           IN  Kept(s, t) /\ (s.comm.state = "CONNECTED" => Sent(s, t))
<1> DEFINE t == ClientSend(s, "PUBLISH", o)
<1>1. Sound(t) /\ Sent(s, t)
    BY ClientSendKeeps, PlainClientSend DEF Keeps, Sound
<1> HIDE DEF t
<1>2. Kept(t, [t EXCEPT !.comm.state = "ERROR"])
    BY <1>1, KeptState DEF Sound
<1>3. Sent(s, [t EXCEPT !.comm.state = "ERROR"])
    BY <1>1, <1>2, KeptTwice DEF Sent
<1>4. Kept(s, s)
    BY KeptSame
<1> QED BY <1>1, <1>3, <1>4 DEF CommPublish, t, Sent

\* MQTT_Comm_Subcribe.
LEMMA PlainCommSubcribe ==
    ASSUME ~Tls, NEW s, Sound(s), NEW o \in SendOutcomes, o # "noPacket"
    PROVE  Kept(s, CommSubcribe(s, o))
<1> DEFINE n == [s EXCEPT !.comm.packetId = NextPacketId(@)]
           t == ClientSend(n, "SUBSCRIBE", o)
<1>1. s.comm.packetId \in PacketIds
    BY DEF Sound, System, Communicator
<1>2. NextPacketId(s.comm.packetId) \in PacketIds
    BY <1>1, CommAssumption DEF NextPacketId, PacketIds
<1>3. Sound(n) /\ n.client = s.client /\ n.link = s.link /\ n.now = s.now
    BY <1>2 DEF Sound, Live, System, Communicator
<1> HIDE DEF n
<1>4. Kept(s, n)
    BY <1>3, KeptUnseen DEF NotReopened
<1>5. Sound(t) /\ Kept(n, t)
    BY <1>3, ClientSendKeeps, PlainClientSend DEF Keeps, Sound, Sent
<1> HIDE DEF t
<1>6. Kept(n, [n EXCEPT !.comm.state = "ERROR"]) /\ Kept(t, [t EXCEPT !.comm.state = "ERROR"])
    BY <1>3, <1>5, KeptState DEF Sound
<1>7. /\ Kept(s, t)
      /\ Kept(s, [n EXCEPT !.comm.state = "ERROR"])
      /\ Kept(s, [t EXCEPT !.comm.state = "ERROR"])
    BY <1>4, <1>5, <1>6, KeptTwice
<1> QED BY <1>7 DEF CommSubcribe, n, t

\* The acknowledgements of recvCompleteCallback.
LEMMA PlainAcknowledge ==
    ASSUME ~Tls, NEW s, Sound(s), Unregistered(s), NEW p, NEW o, o # "noPacket"
    PROVE  Kept(s, Acknowledge(s, p, o))
BY PlainSendPacketItem DEF Acknowledge, Sound, Unregistered, Sent

\* The PUBLISH branch of recvCompleteCallback.
LEMMA PlainOnMessage ==
    ASSUME ~Tls, NEW s, Sound(s), Unregistered(s), NEW qos \in 0..2,
           NEW o1 \in SendOutcomes, o1 # "noPacket",
           NEW o2 \in SendOutcomes, o2 # "noPacket"
    PROVE  Kept(s, OnMessage(s, qos, o1, o2))
<1> DEFINE t == CommPublish(s, o1)
<1>1. Sound(t) /\ Kept(s, t)
    BY CommPublishKeeps, PlainCommPublish DEF Keeps
<1>2. Unregistered(t)
    BY CommPublishTells DEF Tells, Quiet
<1> HIDE DEF t
<1>3. /\ Kept(s, Acknowledge(t, "PUBCOMP", o2))
      /\ Kept(s, Acknowledge(t, "PUBREC", o2))
    BY <1>1, <1>2, PlainAcknowledge, KeptTwice
<1>4. qos = 0 \/ qos = 1 \/ qos = 2
    OBVIOUS
<1> QED BY <1>1, <1>3, <1>4 DEF OnMessage, Acknowledge, t

\* recvCompleteCallback, for the packets that neither begin nor end a session nor
\* answer a ping.
LEMMA PlainRecvComplete ==
    ASSUME ~Tls, NEW s, Sound(s), Unregistered(s),
           NEW p \in Received \ {"CONNACK", "REFUSED", "PINGRESP", "BAD"}, NEW qos \in 0..2,
           NEW o1 \in SendOutcomes, o1 # "noPacket",
           NEW o2 \in SendOutcomes, o2 # "noPacket"
    PROVE  Kept(s, RecvComplete(s, p, qos, o1, o2))
<1>1. Kept(s, s)
    BY KeptSame
<1>2. Kept(s, OnMessage(s, qos, o1, o2))
    BY PlainOnMessage
<1>3. Kept(s, CommPublish(s, o1))
    BY PlainCommPublish
<1>4. Kept(s, Acknowledge(s, "PUBREL", o1)) /\ Kept(s, Acknowledge(s, "PUBCOMP", o1))
    BY PlainAcknowledge
<1> QED BY <1>1, <1>2, <1>3, <1>4 DEF RecvComplete, Received, Replies

\* A CONNACK or a refusal makes the application publish, so the session begins with
\* the time of a send that has just been recorded.
LEMMA PlainOnConnAck ==
    ASSUME ~Tls, NEW s, Sound(s), NEW p,
           NEW o1 \in SendOutcomes, o1 # "noPacket",
           NEW o2 \in SendOutcomes, o2 # "noPacket"
    PROVE  LET t == OnConnAck(s, p, o1, o2)
           IN  /\ NotReopened(s, t) /\ t.now = s.now
               /\ t.client.xioHandle = s.client.xioHandle
               /\ t.client.timeSincePing = s.client.timeSincePing
               /\ t.client.packetSendTimeMs = s.now
<1> DEFINE c == [s EXCEPT !.comm.state = "CONNECTED"]
           u == CommPublish(c, o1)
           v == CommSubcribe(u, o2)
           w == [v EXCEPT !.client.clientConnected = TRUE]
<1>1. /\ Sound(c) /\ c.comm.state = "CONNECTED"
      /\ c.client = s.client /\ c.link = s.link /\ c.now = s.now
    BY StateSet DEF CommStates, Keeps, Sound, System, Communicator
<1>2. OnConnAck(s, p, o1, o2) = IF p = "CONNACK" THEN w ELSE v
    BY DEF OnConnAck
<1> HIDE DEF c
<1>3. Sound(u) /\ Sent(c, u)
    BY <1>1, CommPublishKeeps, PlainCommPublish DEF Keeps
<1> HIDE DEF u
<1>4. Sound(v) /\ Kept(u, v)
    BY <1>3, CommSubcribeKeeps, PlainCommSubcribe DEF Keeps
<1> HIDE DEF v
<1>5. Sent(c, v)
    BY <1>3, <1>4, KeptTwice DEF Sent
<1>6. /\ w.link = v.link /\ w.now = v.now
      /\ w.client.xioHandle = v.client.xioHandle
      /\ w.client.timeSincePing = v.client.timeSincePing
      /\ w.client.packetSendTimeMs = v.client.packetSendTimeMs
    BY <1>4 DEF Sound, System, Client
<1> HIDE DEF w
<1> QED BY <1>1, <1>2, <1>5, <1>6 DEF Sent, Kept, NotReopened

\* A ping response.
LEMMA PlainPingResp ==
    ASSUME NEW s, Sound(s)
    PROVE  LET t == PingResp(s)
           IN  /\ NotReopened(s, t) /\ t.now = s.now
               /\ t.client.clientConnected = s.client.clientConnected
               /\ t.client.xioHandle = s.client.xioHandle
               /\ t.client.timeSincePing = 0
               /\ t.client.packetSendTimeMs = s.client.packetSendTimeMs
BY DEF PingResp, Sound, System, Client, Link, NotReopened

-----------------------------------------------------------------------------
\* The link is lost at most, and a client with a transport forgets its session.
Ended(s, t) ==
    /\ NotReopened(s, t)
    /\ t.client.clientConnected => s.client.clientConnected
    /\ s.client.socketConnected /\ s.client.xioHandle # NULL => ~t.client.clientConnected

\* close_connection over a plain socket always calls the client back.
LEMMA PlainCloseConnection ==
    ASSUME ~Tls, NEW s, Sound(s)
    PROVE  Ended(s, CloseConnection(s))
<1> DEFINE h == s.client.xioHandle
           x == Shut(s, h)
           y == OnConnectionClosed(x)
           closed == IF CloseCallsBack(s, h) THEN y ELSE s
           worked == IF s.client.disconnect_cb THEN closed ELSE FailPending(closed, h)
           t == [worked EXCEPT !.client.xioHandle = NULL]
           c == CallDisconnectCb(s)
<1>1. CloseConnection(s) = IF s.client.socketConnected THEN t ELSE c
    BY DEF CloseConnection
<1>2. CASE ~s.client.socketConnected
    <2>1. c.link = s.link /\ c.client.clientConnected = s.client.clientConnected
        BY DEF CallDisconnectCb, Sound, System, Client
    <2> HIDE DEF c
    <2> QED BY <1>1, <1>2, <2>1 DEF Ended, NotReopened
<1>3. CASE s.client.socketConnected
    <2>1. CloseConnection(s) = t /\ Wanes(s, CloseConnection(s))
        BY <1>1, <1>3, CloseConnectionWanes
    <2>2. CloseCallsBack(s, h) <=> h # NULL
        BY DEF CloseCallsBack
    <2>3. ASSUME h # NULL
          PROVE  /\ Sound(y) /\ ~y.client.clientConnected
                 /\ y.link \in {s.link, NoLink} /\ y.comm = s.comm
        <3>1. h \in Handles /\ h = s.comm.xioHandle
            BY <2>3 DEF Sound, System, Communicator
        <3>2. Sound(x) /\ x.link \in {s.link, NoLink} /\ x.comm = s.comm
            <4>1. Sound(x)
                BY <3>1, ShutKeeps DEF Keeps
            <4>2. x.comm = s.comm
                BY ShutAlone
            <4>3. x.link = IF s.xio[h].st = "closed" THEN s.link ELSE NoLink
                BY DEF Shut, Sound, System
            <4> QED BY <4>1, <4>2, <4>3
        <3> HIDE DEF x
        <3>3. Sound(y) /\ ~y.client.clientConnected /\ y.comm = x.comm
            BY <3>2, OnConnectionClosedKeeps, ClosedForgets DEF Keeps
        <3>4. y.link = x.link
            BY <3>2 DEF OnConnectionClosed, CallDisconnectCb, Sound, System
        <3> QED BY <3>2, <3>3, <3>4
    <2> HIDE DEF y
    <2>4. /\ Sound(closed) /\ closed.link \in {s.link, NoLink} /\ closed.comm = s.comm
          /\ h # NULL => ~closed.client.clientConnected
        BY <2>2, <2>3
    <2> HIDE DEF closed
    <2>5. /\ worked.link = closed.link
          /\ worked.client = closed.client
          /\ t.link = worked.link
          /\ t.client.clientConnected = closed.client.clientConnected
        <3>1. FailPending(closed, h).link = closed.link
            BY <2>4 DEF FailPending, Sound, System
        <3>2. worked.link = closed.link /\ worked.client = closed.client
            BY <2>4, <3>1, FailPendingAlone
        <3>3. Sound(worked)
            <4>1. h \in {NULL, closed.comm.xioHandle}
                BY <2>4 DEF Sound
            <4> QED BY <2>4, <4>1, FailPendingKeeps DEF Keeps
        <3> HIDE DEF worked
        <3> QED BY <3>2, <3>3 DEF Sound, System, Client
    <2> HIDE DEF t, worked
    <2>6. NotReopened(s, t)
        BY <2>4, <2>5 DEF NotReopened, NoLink
    <2>7. t.client.clientConnected => s.client.clientConnected
        BY <2>1 DEF Wanes
    <2> QED BY <2>1, <2>4, <2>5, <2>6, <2>7 DEF Ended
<1> QED BY <1>2, <1>3

\* Reporting an error closes the connection.
LEMMA PlainSetError ==
    ASSUME ~Tls, NEW s, Sound(s)
    PROVE  Ended(s, SetError(s))
<1> DEFINE e == [s EXCEPT !.comm.state = "ERROR"]
<1>1. Sound(e) /\ e.client = s.client /\ e.link = s.link
    BY StateSet DEF Keeps, CommStates, Sound, System
<1>2. SetError(s) = CloseConnection(e)
    BY DEF SetError
<1> HIDE DEF e
<1>3. Ended(e, CloseConnection(e))
    BY <1>1, PlainCloseConnection
<1> QED BY <1>1, <1>2, <1>3 DEF Ended, NotReopened

\* So it leaves nothing to be kept alive.
LEMMA EndedIdle ==
    ASSUME NEW s, NEW t, Ended(s, t),
           Serving(s) => s.client.socketConnected /\ s.client.xioHandle # NULL
    PROVE  ~Serving(t)
BY DEF Ended, Serving, NotReopened

\* mqtt_client_connect on a transport that was never opened: a failed one opens no
\* connection, a successful one leaves no session, not even an earlier one.
LEMMA PlainConnect ==
    ASSUME ~Tls, NEW s, s \in System, Live(s), s.comm.xioHandle # NULL, Untouched(s),
           NEW open \in OpenOutcomes, NEW o \in SendOutcomes, o # "noPacket",
           s.client.clientConnected => s.client.socketConnected
    PROVE  LET t == Connect(s, s.comm.xioHandle, open, o)
           IN  IF ConnectSucceeds(s, s.comm.xioHandle, open)
               THEN ~t.client.clientConnected /\ t.comm.xioHandle = s.comm.xioHandle
               ELSE NotReopened(s, t)
<1> DEFINE h == s.comm.xioHandle
           t == [s EXCEPT !.client.xioHandle = h, !.client.packetState = "UNKNOWN"]
           u == [t EXCEPT !.xio[h].st = "open", !.link = FreshLink,
                          !.xio[h].tls = IF Tls THEN "shaken" ELSE "fresh"]
           e == [t EXCEPT !.comm.state = "ERROR"]
           f == OnOpenComplete(t, FALSE, o)
           v == [f EXCEPT !.xio[h].st = "open", !.xio[h].tls = "shaken",
                          !.link = [FreshLink EXCEPT !.net = "reset"]]
           w == [f EXCEPT !.xio[h].tls = "used"]
           cu == OnOpenComplete(u, TRUE, o)
           cv == OnOpenComplete(v, TRUE, o)
           r == [u EXCEPT !.client.packetState = "CONNECT",
                          !.client.socketConnected = TRUE]
<1>1. h \in Handles
    BY DEF System, Communicator
<1>2. s.xio[h].st = "closed" /\ open \in {"ok", "error", "noMem"}
    BY DEF Untouched, NewTransport, NoTransport, OpenOutcomes
<1>3. /\ Sound(t) /\ t.comm = s.comm /\ t.client.xioHandle = h /\ t.link = s.link
      /\ t.client.socketConnected = s.client.socketConnected
      /\ t.client.clientConnected = s.client.clientConnected
    BY DEF Sound, Live, System, Client, Communicator, PacketStates
<1>4. Connect(s, h, open, o) = IF open = "noMem" THEN t ELSE IF open = "ok" THEN cu ELSE f
    <2>1. Connect(s, h, open, o) =
            IF h = NULL THEN s
            ELSE IF open = "noMem" THEN t
            ELSE IF s.xio[h].st # "closed" THEN IF Tls THEN t ELSE f
            ELSE CASE open = "ok"      -> cu
                   [] open = "late"    -> cv
                   [] open = "tlsFail" -> w
                   [] OTHER            -> f
        BY DEF Connect
    <2>2. h # NULL
        OBVIOUS
    <2> HIDE DEF h, cu, cv, w, f, t
    <2> QED BY <1>2, <2>1, <2>2
<1>5. ConnectSucceeds(s, h, open) <=> open = "ok"
    BY <1>2 DEF ConnectSucceeds
<1>6. u = Opening(t, h, "fresh", FreshLink)
    BY <1>1, <1>3 DEF Opening, Sound, System
<1>7. FreshLink \in Link /\ "fresh" \in TlsContexts
    BY DEF FreshLink, NoLink, Link, TlsContexts
<1> HIDE DEF t, u
<1>8. Sound(u) /\ u.client = t.client /\ u.comm = t.comm
    BY <1>1, <1>3, <1>6, <1>7, OpeningAlone
<1>9. NotReopened(s, f)
    <2>1. Sound(e) /\ e.link = t.link
        BY <1>3, StateSet DEF Keeps, CommStates, Sound, System
    <2>2. f = CloseConnection(t) \/ f = CloseConnection(e)
        BY DEF OnOpenComplete
    <2> HIDE DEF e, f
    <2>3. NotReopened(t, f)
        BY <1>3, <2>1, <2>2, PlainCloseConnection DEF Ended, NotReopened
    <2> QED BY <1>3, <2>3 DEF NotReopened
<1>10. ~cu.client.clientConnected
    <2>1. CASE s.client.socketConnected
        <3>1. cu = CloseConnection(u)
            BY <1>3, <1>8, <2>1 DEF OnOpenComplete
        <3> HIDE DEF cu
        <3>2. u.client.socketConnected /\ u.client.xioHandle # NULL
            BY <1>1, <1>3, <1>8, <2>1, XioAssumption
        <3> QED BY <1>8, <3>1, <3>2, PlainCloseConnection DEF Ended
    <2>2. CASE ~s.client.socketConnected
        <3>1. cu = ClientSend(r, "CONNECT", o)
            BY <1>3, <1>8, <2>2 DEF OnOpenComplete
        <3>2. r \in System /\ ~r.client.clientConnected
            BY <1>3, <1>8, <2>2 DEF Sound, System, Client, PacketStates
        <3> HIDE DEF cu, r
        <3>3. Sent(r, cu)
            BY <3>1, <3>2, PlainClientSend
        <3> QED BY <3>2, <3>3 DEF Sent, Kept
    <2> QED BY <2>1, <2>2
<1>11. NotReopened(s, t)
    BY <1>3 DEF NotReopened
<1>12. cu.comm.xioHandle = s.comm.xioHandle
    <2>1. Keeps(u, cu)
        BY <1>8, TRUE \in BOOLEAN, OnOpenCompleteKeeps
    <2> HIDE DEF cu
    <2> QED BY <1>3, <1>8, <2>1 DEF Keeps
<1> HIDE DEF cu, f
<1> QED BY <1>2, <1>4, <1>5, <1>9, <1>10, <1>11, <1>12 DEF h

-----------------------------------------------------------------------------
(***************************************************************************)
(* The inductive invariant, for a plain socket and a client that can       *)
(* always build its PINGREQ.                                               *)
(*   - Nobody has called mqtt_client_disconnect, so nothing closes the     *)
(*     connection after a send, and no call hangs.                         *)
(*   - There is a connection only behind a transport of the communicator,  *)
(*     and none while it reconnects: no session outlives its transport.    *)
(*   - The silence is counted from 0, and nothing that was received before *)
(*     it is left to dispatch when it begins to count.                     *)
(*   - While there is a session, its times are in time, and between two    *)
(*     turns of the loop the keep-alive check has been made at this tick.  *)
(***************************************************************************)
Unasked == Unregistered(State) /\ comm.state # "DISCONNECTED" /\ pc # "hung"

Linked == link.net # "down" => comm.xioHandle # NULL /\ ~Reconnecting

Counted == quiet \in Nat /\ (quiet # 0 => Unnoticed /\ chunk = <<>>)

Alert(s, q) ==
    /\ s.client.xioHandle # NULL
    /\ InTime(s.now, s.client.packetSendTimeMs, s.client.timeSincePing, q)

Rested(s) == Checked(s.now, s.client.packetSendTimeMs, s.client.timeSincePing)

Alive == Serving(State) => Alert(State, quiet) /\ (pc = "loop" /\ ran => Rested(State))

KInv == SessionInv /\ Unasked /\ Linked /\ Counted /\ Alive

\* What KInv says of the current state.
LEMMA KInvState ==
    ASSUME KInv, ~Tls
    PROVE  /\ State \in System /\ Live(State) /\ quiet \in Nat /\ State.now = now
           /\ now \in Ticks /\ client.packetSendTimeMs \in Ticks /\ client.timeSincePing \in Ticks
           /\ Serving(State) => client.socketConnected /\ client.xioHandle # NULL
           /\ pc \in {"loop", "connecting", "flush", "recv"}
           /\ pc \in {"flush", "recv"} => Sound(State)
<1>1. SessionInv /\ pc # "hung"
    BY DEF KInv, Unasked
<1>2. State \in System /\ Live(State) /\ (pc \in {"flush", "recv"} => Sound(State))
    BY <1>1, StateSound DEF SessionInv, Reconnecting
<1>3. TypeOK
    BY <1>1 DEF SessionInv, IInv
<1>4. now \in Ticks /\ client.packetSendTimeMs \in Ticks /\ client.timeSincePing \in Ticks
    BY <1>3 DEF TypeOK, Client
<1>5. pc \in {"loop", "connecting", "flush", "recv"}
    BY <1>1, <1>3 DEF TypeOK
<1>6. client.clientConnected => client.socketConnected
    BY <1>1 DEF SessionInv, Session, SessionAt, OnlySession, State
<1>7. Serving(State) => client.socketConnected /\ client.xioHandle # NULL
    BY <1>6 DEF KInv, Alive, Alert, Serving, State
<1>8. quiet \in Nat /\ State.now = now
    BY DEF KInv, Counted, State
<1> QED BY <1>2, <1>4, <1>5, <1>7, <1>8

\* How the silence is counted.
LEMMA QuietCounted ==
    ASSUME Counted, KeepAliveNext
    PROVE  /\ quiet' \in Nat /\ (quiet' # 0 => Unnoticed') /\ quiet' <= quiet + 1
           /\ now' = now => quiet' <= quiet
<1>1. quiet \in Nat
    BY DEF Counted
<1>2. quiet' = IF ~Unnoticed' THEN 0
               ELSE IF now' = now THEN quiet
               ELSE IF quiet > NoticeTime + ZeroTick THEN quiet ELSE quiet + 1
    BY DEF KeepAliveNext
<1>3. quiet' \in {0, quiet, quiet + 1} /\ (now' = now => quiet' \in {0, quiet})
    BY <1>2
<1>4. quiet' # 0 => Unnoticed'
    BY <1>2
<1> QED BY <1>1, <1>3, <1>4

\* An action that leads to s at p leaves the link and the times as they are in s.
LEMMA BecomeAlive ==
    ASSUME NEW s, NEW p, Become(s, p),
           s.link.net # "down" =>
               s.comm.xioHandle # NULL /\ p # "connecting" /\ s.comm.state # "CONNECTING",
           Serving(s) => s.now = now /\ Alert(s, quiet') /\ (p = "loop" => Rested(s))
    PROVE  Linked' /\ Alive'
<1>1. /\ client' = s.client /\ comm' = s.comm /\ link' = s.link
      /\ pc' = p /\ now' = now
    BY DEF Become
<1>2. Linked'
    BY <1>1 DEF Linked, Reconnecting
<1> DEFINE t == State'
<1>3. t.client = s.client /\ t.link = s.link /\ t.now = now
    BY <1>1 DEF State
<1> HIDE DEF t
<1>4. Serving(t) => Alert(t, quiet') /\ (p = "loop" => Rested(t))
    BY <1>3 DEF Serving, Alert, Rested
<1>5. Alive'
    BY <1>1, <1>4 DEF Alive, t
<1> QED BY <1>2, <1>5

\* The same for a part of mqtt_client_dowork, which opens no connection.
LEMMA WorkAlive ==
    ASSUME KInv, ~Tls, pc \in {"flush", "recv"}, NEW s, NEW p \in {"loop", "flush", "recv"},
           Become(s, p), Keeps(State, s), NotReopened(State, s),
           Serving(s) => s.now = now /\ Alert(s, quiet') /\ (p = "loop" => Rested(s))
    PROVE  Linked' /\ Alive'
<1>1. link.net # "down" => comm.xioHandle # NULL
    BY DEF KInv, Linked
<1>2. comm.state # "CONNECTING"
    BY DEF KInv, SessionInv, IInv
<1>3. /\ s.comm.xioHandle = comm.xioHandle /\ s.comm.state # "CONNECTING"
      /\ s.link.net # "down" => link.net # "down"
    BY <1>2 DEF Keeps, NotReopened, State
<1> QED BY <1>1, <1>3, BecomeAlive

\* A session that goes on: no more silence than before, and if there is some, nothing
\* was sent.
LEMMA KeptAlert ==
    ASSUME KInv, ~Tls, KeepAlive > 0, NEW s, Kept(State, s), Serving(s),
           NEW q \in Nat, q <= quiet,
           s.client.packetSendTimeMs = client.packetSendTimeMs \/ quiet = 0
    PROVE  s.now = now /\ Alert(s, q)
<1>1. /\ s.now = now /\ s.client.timeSincePing = client.timeSincePing
      /\ s.client.xioHandle = client.xioHandle
      /\ s.client.packetSendTimeMs \in {client.packetSendTimeMs, now}
      /\ Serving(State)
    BY DEF Kept, NotReopened, Serving, State
<1>2. /\ now \in Ticks /\ client.packetSendTimeMs \in Ticks
      /\ client.timeSincePing \in Ticks /\ quiet \in Nat
    BY KInvState
<1>3. /\ client.xioHandle # NULL
      /\ InTime(now, client.packetSendTimeMs, client.timeSincePing, quiet)
    BY <1>1 DEF KInv, Alive, Alert, State
<1>4. CASE s.client.packetSendTimeMs = client.packetSendTimeMs
    BY <1>1, <1>2, <1>3, <1>4, InTimeLess DEF Alert
<1>5. CASE quiet = 0 /\ s.client.packetSendTimeMs = now
    <2>1. q = 0
        BY <1>5
    <2> QED BY <1>1, <1>2, <1>3, <1>5, <2>1, InTimeSent DEF Alert
<1> QED BY <1>1, <1>4, <1>5

-----------------------------------------------------------------------------
\* The device starts without a session.
LEMMA InitAlive == ASSUME KeepAliveInit PROVE KInv
<1>1. SessionInv
    BY InitIInv, InitSession DEF KeepAliveInit, SessionInv
<1>2. /\ client = NewClient /\ comm.state = "CONNECTING" /\ link = NoLink
      /\ pc = "loop" /\ chunk = <<>> /\ quiet = 0
    BY DEF KeepAliveInit, Init
<1>3. Unasked
    BY <1>2 DEF Unasked, Unregistered, State, NewClient
<1>4. Linked /\ Alive
    BY <1>2 DEF Linked, Alive, Serving, State, NewClient, NoLink
<1>5. Counted
    BY <1>2 DEF Counted
<1> QED BY <1>1, <1>3, <1>4, <1>5 DEF KInv

\* A packet that can always be built.
LEMMA AlwaysBuilt ==
    ASSUME "noPacket" \notin FaultKinds, NEW o1, NEW o2
    PROVE  /\ Spend(<<o1>>) => o1 # "noPacket"
           /\ Spend(<<o1, o2>>) => o1 # "noPacket" /\ o2 # "noPacket"
<1>1. ASSUME Spend(<<o1>>) PROVE o1 # "noPacket"
    <2>1. 1 \in DOMAIN <<o1>> /\ <<o1>>[1] = o1
        OBVIOUS
    <2> QED BY <1>1, <2>1 DEF Spend, Faulty
<1>2. ASSUME Spend(<<o1, o2>>) PROVE o1 # "noPacket" /\ o2 # "noPacket"
    <2>1. 1 \in DOMAIN <<o1, o2>> /\ 2 \in DOMAIN <<o1, o2>>
        OBVIOUS
    <2>2. <<o1, o2>>[1] = o1 /\ <<o1, o2>>[2] = o2
        OBVIOUS
    <2> QED BY <1>2, <2>1, <2>2 DEF Spend, Faulty
<1> QED BY <1>1, <1>2

\* case MQTT_ERROR drops the connection with its transport.
LEMMA ReconnectAlive ==
    ASSUME KInv, ~Tls, Reconnect
    PROVE  Linked' /\ Alive' /\ pc' # "hung"
<1> DEFINE s == Discard(State)
<1>1. State \in System /\ Sound(State) /\ comm.state = "ERROR" /\ pc = "loop"
    BY StateSound DEF Reconnect, Reconnecting, KInv, SessionInv, Sound
<1>2. s.link.net = "down" /\ s \in System
    <2> DEFINE h == comm.xioHandle
               c == Shut(State, h)
               d == [c EXCEPT !.xio[h] = NoTransport, !.link = NoLink]
    <2>1. s = IF h = NULL THEN State ELSE d
        BY DEF Discard, XioCloseQuietly, XioDestroy, State
    <2>2. h # NULL => d.link = NoLink
        <3>1. ASSUME h # NULL PROVE c \in System
            <4>1. h \in Handles /\ h = State.comm.xioHandle
                BY <1>1, <3>1 DEF Sound, System, Communicator, State
            <4> QED BY <1>1, <4>1, ShutKeeps DEF Keeps, Sound
        <3> HIDE DEF c
        <3> QED BY <3>1 DEF System
    <2>3. h = NULL => link.net = "down"
        BY DEF KInv, Linked
    <2>4. s \in System
        BY <1>1, DiscardEmpties DEF Empty
    <2> HIDE DEF s, d
    <2> QED BY <2>1, <2>2, <2>3, <2>4 DEF State, NoLink
<1> HIDE DEF s
<1>3. PICK h \in Handles \cup {NULL} :
        Become([XioCreate(s, h) EXCEPT !.comm.state = "CONNECTING"], "loop")
    BY DEF Reconnect, FreeHandles, s
<1> DEFINE t == [XioCreate(s, h) EXCEPT !.comm.state = "CONNECTING"]
<1>4. t.link = s.link
    BY <1>2 DEF XioCreate, System
<1> HIDE DEF t
<1>5. ~Serving(t)
    BY <1>2, <1>4 DEF Serving
<1>6. Linked' /\ Alive'
    BY <1>2, <1>3, <1>4, <1>5, BecomeAlive DEF t
<1> QED BY <1>3, <1>6 DEF Become

\* The retry loop is entered without a connection.
LEMMA StartConnectingAlive ==
    ASSUME KInv, ~Tls, StartConnecting
    PROVE  Linked' /\ Alive' /\ pc' # "hung"
<1>1. link.net = "down" /\ Become(State, "connecting")
    BY DEF StartConnecting, KInv, Linked, Reconnecting
<1>2. State.link.net = "down" /\ ~Serving(State)
    BY <1>1 DEF Serving, State
<1> QED BY <1>1, <1>2, BecomeAlive DEF Become

\* An attempt to connect leaves no session.
LEMMA TryConnectAlive ==
    ASSUME KInv, ~Tls, "noPacket" \notin FaultKinds, TryConnect
    PROVE  Linked' /\ Alive' /\ pc' # "hung"
<1> DEFINE h == comm.xioHandle
<1>1. PICK open \in OpenOutcomes, o \in SendOutcomes :
        /\ Spend(<<FaultOf(open), o>>)
        /\ LET s == Connect(State, h, open, o)
           IN  IF ~ConnectSucceeds(State, h, open)
               THEN Become(s, "connecting")
               ELSE IF s.comm.state = "CONNECTING"
               THEN Become([s EXCEPT !.comm.state = "CONNECTED"], "loop")
               ELSE Become(s, "loop")
    BY DEF TryConnect
<1> DEFINE s == Connect(State, h, open, o)
           t == [s EXCEPT !.comm.state = "CONNECTED"]
           ok == ConnectSucceeds(State, h, open)
<1>2. /\ State \in System /\ Live(State) /\ Untouched(State) /\ State.comm.xioHandle = h
      /\ State.client.clientConnected => State.client.socketConnected
      /\ State.link.net = "down" /\ o # "noPacket"
    <2>1. Reconnecting /\ pc = "connecting"
        BY DEF TryConnect, Reconnecting
    <2>2. link.net = "down"
        BY <2>1 DEF KInv, Linked
    <2>3. o # "noPacket"
        BY <1>1, AlwaysBuilt
    <2> QED BY <2>1, <2>2, <2>3, StateSound, AtLoop DEF KInv, SessionInv, State
<1>3. CASE h = NULL
    <2>1. Become(State, "connecting")
        BY <1>1, <1>3 DEF Connect, ConnectSucceeds
    <2>2. ~Serving(State)
        BY <1>2 DEF Serving
    <2> QED BY <1>2, <2>1, <2>2, BecomeAlive DEF Become
<1>4. CASE h # NULL
    <2>1. /\ Sound(s)
          /\ IF ok THEN ~s.client.clientConnected /\ s.comm.xioHandle = h
             ELSE NotReopened(State, s)
        BY <1>2, <1>4, ConnectSound, PlainConnect
    <2>2. \/ ~ok /\ Become(s, "connecting")
          \/ ok /\ s.comm.state = "CONNECTING" /\ Become(t, "loop")
          \/ ok /\ s.comm.state # "CONNECTING" /\ Become(s, "loop")
        BY <1>1
    <2>3. ok => s.comm.xioHandle # NULL
        BY <1>4, <2>1
    <2> HIDE DEF s, ok
    <2>4. CASE ~ok /\ Become(s, "connecting")
        <3>1. s.link.net = "down" /\ ~Serving(s)
            BY <1>2, <2>1, <2>4 DEF NotReopened, Serving
        <3> QED BY <2>4, <3>1, BecomeAlive DEF Become
    <2>5. CASE ok /\ Become(t, "loop")
        <3>1. ~t.client.clientConnected /\ t.comm.state = "CONNECTED" /\ t.comm.xioHandle # NULL
            BY <2>1, <2>3, <2>5 DEF Sound, System, Communicator
        <3> HIDE DEF t
        <3> QED BY <2>5, <3>1, BecomeAlive DEF Become, Serving
    <2>6. CASE ok /\ s.comm.state # "CONNECTING" /\ Become(s, "loop")
        <3>1. ~Serving(s)
            BY <2>1, <2>6 DEF Serving
        <3> QED BY <2>3, <2>6, <3>1, BecomeAlive DEF Become
    <2> QED BY <2>2, <2>4, <2>5, <2>6
<1> QED BY <1>3, <1>4

\* mqtt_client_dowork begins.
LEMMA DoWorkAlive ==
    ASSUME KInv, ~Tls, KeepAlive > 0, KeepAliveNext, DoWork
    PROVE  Linked' /\ Alive' /\ pc' # "hung"
<1> DEFINE p == IF client.xioHandle = NULL THEN "loop" ELSE "flush"
<1>1. Become(State, p) /\ comm.state = "CONNECTED"
    BY DEF DoWork
<1>2. quiet' \in Nat /\ quiet' <= quiet
    BY <1>1, QuietCounted DEF KInv, Become
<1>3. Serving(State) => State.now = now /\ Alert(State, quiet') /\ p = "flush"
    BY <1>2, KeptSame, KeptAlert, KInvState DEF State
<1>4. /\ State.comm.state # "CONNECTING"
      /\ State.link.net # "down" => State.comm.xioHandle # NULL
    BY <1>1 DEF KInv, Linked, State
<1>5. p \in {"loop", "flush"}
    OBVIOUS
<1> HIDE DEF p
<1>6. Linked' /\ Alive'
    BY <1>1, <1>3, <1>4, <1>5, BecomeAlive
<1> QED BY <1>1, <1>5, <1>6 DEF Become

\* Pending packets are sent without the client noting it, or the silence of the peer
\* holds them up.
LEMMA FlushSendsAlive ==
    ASSUME KInv, ~Tls, KeepAlive > 0, KeepAliveNext, FlushSends
    PROVE  Linked' /\ Alive' /\ pc' # "hung"
<1> DEFINE a == [State EXCEPT !.xio[client.xioHandle].pending = Tail(@)]
           b == [a EXCEPT !.link = Delivered(@, Head(Pending))]
<1>1. Become(SendComplete(b), "flush") /\ pc = "flush" /\ Pending # <<>>
    BY DEF FlushSends
<1>2. IInv /\ Sound(State)
    BY <1>1, KInvState DEF KInv, SessionInv
<1>3. /\ Keeps(State, a) /\ a.client = State.client
      /\ a.link = State.link /\ a.now = State.now
    <2>1. a = [State EXCEPT !.xio[client.xioHandle].pending = Tail(Pending)]
        BY <1>1 DEF Pending, State
    <2>2. Tail(Pending) \in Seq(Requests)
        BY <1>1, <1>2, <<>> \in Seq(Requests), PendingReplaced
    <2>3. a.client = State.client /\ a.link = State.link /\ a.now = State.now
        BY DEF State
    <2> HIDE DEF a
    <2> QED BY <1>1, <1>2, <2>1, <2>2, <2>3, PendingReplaced
<1>4. Head(Pending) \in Requests
    BY <1>1, <1>2, <<>> \in Seq(Requests), PendingReplaced
<1> HIDE DEF a
<1>5. /\ Keeps(a, b) /\ b.client = a.client /\ b.now = a.now
      /\ b.link = Delivered(a.link, Head(Pending)) /\ a.link \in Link
    <2> DEFINE l == Delivered(a.link, Head(Pending))
    <2>1. a.link \in Link /\ l \in Link
        BY <1>3, <1>4, DeliveredType DEF Keeps, Sound, System
    <2> HIDE DEF l
    <2>2. b = [a EXCEPT !.link = l]
        BY DEF l
    <2> HIDE DEF b
    <2>3. Keeps(a, b)
        BY <1>3, <2>1, <2>2, LinkSet DEF Keeps
    <2>4. b.client = a.client /\ b.now = a.now /\ b.link = l
        BY <1>3, <2>2 DEF Keeps, Sound, System
    <2> QED BY <2>1, <2>3, <2>4 DEF l
<1> HIDE DEF b
<1>6. SendComplete(b) = b
    BY <1>3, <1>5 DEF SendComplete, KInv, Unasked, Unregistered
<1>7. NotReopened(State, b)
    BY <1>3, <1>5, DeliveredOpensNothing DEF NotReopened
<1>8. Kept(State, b)
    BY <1>3, <1>5, <1>7, KeptUnseen
<1>9. quiet' \in Nat /\ quiet' <= quiet
    BY <1>1, QuietCounted DEF KInv, Become
<1>10. b.client.packetSendTimeMs = client.packetSendTimeMs
    BY <1>3, <1>5 DEF State
<1>11. Serving(b) => b.now = now /\ Alert(b, quiet')
    BY <1>8, <1>9, <1>10, KeptAlert
<1>12. Keeps(State, b)
    BY <1>3, <1>5, KeepsTwice
<1>13. Linked' /\ Alive'
    BY <1>1, <1>6, <1>7, <1>11, <1>12, WorkAlive
<1> QED BY <1>1, <1>13 DEF Become

\* The flush ends.
LEMMA FlushEndsAlive ==
    ASSUME KInv, ~Tls, KeepAlive > 0, KeepAliveNext, FlushEnds
    PROVE  Linked' /\ Alive' /\ pc' # "hung"
<1>1. Become(State, "recv") /\ pc = "flush"
    BY DEF FlushEnds
<1>2. quiet' \in Nat /\ quiet' <= quiet
    BY <1>1, QuietCounted DEF KInv, Become
<1>3. Serving(State) => State.now = now /\ Alert(State, quiet')
    BY <1>2, KeptSame, KeptAlert DEF State
<1>4. Keeps(State, State) /\ NotReopened(State, State)
    BY <1>1, KInvState DEF Keeps, NotReopened
<1>5. Linked' /\ Alive'
    BY <1>1, <1>3, <1>4, WorkAlive
<1> QED BY <1>1, <1>5 DEF Become

\* An error of the socket ends the session, whatever else it has changed.
LEMMA ReportIoErrorAlive ==
    ASSUME KInv, ~Tls, pc \in {"flush", "recv"}, NEW s, Keeps(State, s),
           s.client = State.client, s.link = State.link, ReportIoError(s)
    PROVE  Linked' /\ Alive' /\ pc' # "hung"
<1> DEFINE t == SetError(s)
<1>1. Become(t, "recv")
    BY DEF ReportIoError
<1>2. Sound(s) /\ Keeps(s, t)
    BY SetErrorKeeps DEF Keeps
<1>3. Ended(s, t)
    BY <1>2, PlainSetError
<1> HIDE DEF t
<1>4. Keeps(State, t)
    BY <1>2, KeepsTwice
<1>5. Ended(State, t)
    BY <1>3 DEF Ended, NotReopened
<1>6. ~Serving(t)
    BY <1>5, EndedIdle, KInvState DEF State
<1>7. Linked' /\ Alive'
    BY <1>1, <1>4, <1>5, <1>6, WorkAlive DEF Ended
<1> QED BY <1>1, <1>7 DEF Become

\* The socket fails while what is pending is sent.
LEMMA FlushFailsAlive ==
    ASSUME KInv, ~Tls, FlushFails
    PROVE  Linked' /\ Alive' /\ pc' # "hung"
<1> DEFINE h == client.xioHandle
           q == IF Tls THEN <<>> ELSE Tail(Pending)
           a == [State EXCEPT !.xio[h].pending = q]
           b == [a EXCEPT !.xio[h].st = "error"]
<1>1. pc = "flush" /\ Pending # <<>>
    BY DEF FlushFails
<1>2. IInv /\ h \in Handles /\ h = State.comm.xioHandle /\ q \in Seq(Requests)
    <2>1. IInv
        BY DEF KInv, SessionInv
    <2> QED BY <1>1, <2>1, <<>> \in Seq(Requests), PendingReplaced DEF State
<1> HIDE DEF q
<1>3. Keeps(State, a)
    BY <1>1, <1>2, PendingReplaced
<1>4. b.client = State.client /\ b.link = State.link
    BY DEF State
<1> HIDE DEF a
<1>5. Keeps(a, b)
    BY <1>2, <1>3, ErrorMarked DEF Keeps
<1>6. ReportIoError(b)
    BY <1>1 DEF FlushFails, Pending, State, a, q
<1> HIDE DEF b
<1>7. Keeps(State, b)
    BY <1>3, <1>5, KeepsTwice
<1> QED BY <1>1, <1>4, <1>6, <1>7, ReportIoErrorAlive

\* recv fails.
LEMMA RecvFailsAlive ==
    ASSUME KInv, ~Tls, RecvFails
    PROVE  Linked' /\ Alive' /\ pc' # "hung"
<1>1. ReportIoError(State) /\ pc = "recv"
    BY DEF RecvFails
<1>2. Keeps(State, State)
    BY <1>1, KInvState DEF Keeps
<1> QED BY <1>1, <1>2, ReportIoErrorAlive

\* What is received is no send; nothing is received in a silence.
LEMMA RecvAlive ==
    ASSUME KInv, ~Tls, KeepAliveNext, Recv
    PROVE  Linked' /\ Alive' /\ pc' # "hung" /\ quiet' = 0
<1>1. pc = "recv" /\ link.net = "up" /\ UNCHANGED <<comm, xio, now, pc>>
    BY DEF Recv
<1>2. /\ client'.clientConnected = client.clientConnected
      /\ client'.xioHandle = client.xioHandle
      /\ client'.packetSendTimeMs = client.packetSendTimeMs
      /\ client'.timeSincePing = client.timeSincePing
    <2>1. \E c \in {"ready", "partial", "broken"} : client' = [client EXCEPT !.codec = c]
        BY DEF Recv, RecvInStep, RecvOutOfStep
    <2>2. client \in Client
        BY DEF KInv, SessionInv, IInv, TypeOK
    <2> QED BY <2>1, <2>2 DEF Client
<1>3. quiet = 0 /\ quiet' = 0
    <2>1. quiet = 0
        BY <1>1 DEF KInv, Counted, Unnoticed
    <2> QED BY <1>1, <2>1, QuietCounted DEF KInv
<1>4. Linked'
    BY <1>1 DEF KInv, Linked, Reconnecting
<1>5. Serving(State') => Alert(State', quiet')
    <2>1. SUFFICES ASSUME client.clientConnected PROVE Alert(State', 0)
        BY <1>2, <1>3 DEF Serving, State
    <2>2. Serving(State)
        BY <1>1, <2>1 DEF Serving, State
    <2>3. /\ client.xioHandle # NULL
          /\ InTime(now, client.packetSendTimeMs, client.timeSincePing, 0)
        BY <1>3, <2>2 DEF KInv, Alive, Alert, State
    <2>4. /\ State'.client = client' /\ State'.now = now
        BY <1>1 DEF State
    <2> QED BY <1>2, <2>3, <2>4 DEF Alert
<1>6. Alive'
    BY <1>1, <1>5 DEF Alive
<1> QED BY <1>1, <1>3, <1>4, <1>6

\* A packet is dispatched, which happens before the silence begins to count.
LEMMA DispatchAlive ==
    ASSUME KInv, ~Tls, KeepAlive > 0, "noPacket" \notin FaultKinds, KeepAliveNext, Dispatch
    PROVE  Linked' /\ Alive' /\ pc' # "hung"
<1>1. pc = "recv" /\ chunk # <<>>
    BY DEF Dispatch, Dispatched
<1>2. PICK o1, o2 \in SendOutcomes, qos \in 0..2 :
        /\ Spend(<<o1, o2>>)
        /\ LET s == RecvComplete(State, Head(chunk), qos, o1, o2)
           IN  Become(s, IF Tls /\ Tail(chunk) = <<>> /\ ~IsOpen(s, s.client.xioHandle)
                         THEN "hung" ELSE "recv")
    BY DEF Dispatch, Dispatched
<1> DEFINE p == Head(chunk)
           s == RecvComplete(State, p, qos, o1, o2)
<1>3. Become(s, "recv") /\ o1 # "noPacket" /\ o2 # "noPacket"
    BY <1>2, AlwaysBuilt
<1>4. /\ Sound(State) /\ chunk \in Seq(Received) /\ p \in Received
      /\ SessionAt(State, "recv", chunk) /\ Unregistered(State)
    BY <1>1, InDoWork DEF KInv, Unasked
<1>5. Keeps(State, s)
    BY <1>4, RecvCompleteKeeps
<1>6. quiet = 0 /\ quiet' = 0
    <2>1. quiet = 0
        BY <1>1 DEF KInv, Counted
    <2> QED BY <1>3, <2>1, QuietCounted DEF KInv, Become
<1>7. /\ now \in Ticks /\ client.packetSendTimeMs \in Ticks
      /\ client.timeSincePing \in Ticks /\ State.now = now
    BY KInvState
<1>8. /\ NotReopened(State, s)
      /\ Serving(s) => s.now = now /\ Alert(s, 0)
    <2>1. CASE p \in {"CONNACK", "REFUSED"}
        <3>1. s = OnConnAck(State, p, o1, o2)
            BY <2>1 DEF RecvComplete
        <3> HIDE DEF s
        <3>2. /\ NotReopened(State, s) /\ s.now = now
              /\ s.client.xioHandle = client.xioHandle
              /\ s.client.timeSincePing = client.timeSincePing
              /\ s.client.packetSendTimeMs = now
            BY <1>3, <1>4, <3>1, PlainOnConnAck DEF State
        <3>3. client.xioHandle # NULL
            <4>1. 1 \in DOMAIN chunk /\ chunk[1] = p
                BY <1>1, <1>4
            <4>2. Opened(State)
                BY <1>4, <2>1, <4>1 DEF SessionAt, ConnAckFirst
            <4> QED BY <4>2 DEF Opened, OnOpenTransport, IsOpen, State
        <3>4. InTime(now, now, client.timeSincePing, 0)
            BY <1>7, InTimeSent
        <3> QED BY <3>2, <3>3, <3>4 DEF Alert
    <2>2. CASE p = "PINGRESP"
        <3>1. s = PingResp(State)
            BY <2>2 DEF RecvComplete
        <3> HIDE DEF s
        <3>2. /\ NotReopened(State, s) /\ s.now = now
              /\ s.client.clientConnected = State.client.clientConnected
              /\ s.client.xioHandle = client.xioHandle
              /\ s.client.timeSincePing = 0
              /\ s.client.packetSendTimeMs = client.packetSendTimeMs
            BY <1>4, <3>1, PlainPingResp DEF State
        <3>3. ASSUME Serving(s) PROVE Alert(s, 0)
            <4>1. Serving(State)
                BY <3>2, <3>3 DEF Serving, NotReopened
            <4>2. /\ client.xioHandle # NULL
                  /\ InTime(now, client.packetSendTimeMs, client.timeSincePing, 0)
                BY <1>6, <4>1 DEF KInv, Alive, Alert, State
            <4>3. InTime(now, client.packetSendTimeMs, 0, 0)
                BY <1>7, <4>2, InTimeAnswered
            <4> QED BY <3>2, <4>2, <4>3 DEF Alert
        <3> QED BY <3>2, <3>3
    <2>3. CASE p = "BAD"
        <3>1. s = SetError(State)
            BY <2>3 DEF RecvComplete
        <3> HIDE DEF s
        <3>2. Ended(State, s)
            BY <1>4, <3>1, PlainSetError
        <3>3. ~Serving(s)
            BY <3>2, EndedIdle, KInvState DEF State
        <3> QED BY <3>2, <3>3 DEF Ended
    <2>4. CASE p \notin {"CONNACK", "REFUSED", "PINGRESP", "BAD"}
        <3>1. Kept(State, s)
            BY <1>3, <1>4, <2>4, PlainRecvComplete
        <3> HIDE DEF s
        <3>2. 0 \in Nat /\ 0 <= quiet
            BY <1>6
        <3>3. Serving(s) => s.now = now /\ Alert(s, 0)
            BY <1>6, <3>1, <3>2, KeptAlert
        <3> QED BY <3>1, <3>3 DEF Kept
    <2> QED BY <2>1, <2>2, <2>3, <2>4
<1> HIDE DEF s
<1>9. Linked' /\ Alive'
    BY <1>1, <1>3, <1>5, <1>6, <1>8, WorkAlive
<1> QED BY <1>3, <1>9 DEF Become

\* So is a message for which there is no memory.
LEMMA DispatchNoMemoryAlive ==
    ASSUME KInv, ~Tls, KeepAliveNext, DispatchNoMemory
    PROVE  Linked' /\ Alive' /\ pc' # "hung"
<1> DEFINE s == SetError(State)
<1>1. pc = "recv" /\ chunk # <<>> /\ Become(s, "recv")
    BY DEF DispatchNoMemory, Dispatched
<1>2. Sound(State) /\ Unregistered(State) /\ Keeps(State, s)
    BY <1>1, InDoWork, SetErrorKeeps DEF KInv, Unasked
<1>3. quiet = 0 /\ quiet' = 0
    <2>1. quiet = 0
        BY <1>1 DEF KInv, Counted
    <2> QED BY <1>1, <2>1, QuietCounted DEF KInv, Become
<1>4. Ended(State, s)
    BY <1>2, PlainSetError
<1> HIDE DEF s
<1>5. ~Serving(s)
    BY <1>4, EndedIdle, KInvState DEF State
<1>6. NotReopened(State, s)
    BY <1>4 DEF Ended
<1>7. Linked' /\ Alive'
    BY <1>1, <1>2, <1>3, <1>5, <1>6, WorkAlive
<1> QED BY <1>1, <1>7 DEF Become

\* What the keep-alive check leaves of a session: none when the answer to a ping is
\* overdue, and the time of a new ping when one is due.
LEMMA PlainKeepAliveCheck ==
    ASSUME ~Tls, KeepAlive > 0, NEW s, Sound(s), Unregistered(s),
           NEW o \in SendOutcomes, o # "noPacket",
           Serving(s) => s.client.socketConnected /\ s.client.xioHandle # NULL
    PROVE  LET t == KeepAliveCheck(s, o)
           IN  /\ NotReopened(s, t)
               /\ Serving(t) =>
                    /\ Serving(s) /\ ~PingOverdue(s)
                    /\ t.now = s.now /\ t.client.xioHandle = s.client.xioHandle
                    /\ IF PingDue(s)
                       THEN t.client.packetSendTimeMs = s.now /\ t.client.timeSincePing = s.now
                       ELSE /\ t.client.packetSendTimeMs = s.client.packetSendTimeMs
                            /\ t.client.timeSincePing = s.client.timeSincePing
<1> DEFINE e == SetError(s)
           f == [e EXCEPT !.client.timeSincePing = 0,
                          !.client.packetSendTimeMs = 0,
                          !.client.packetState = "UNKNOWN"]
           p == SendPacketItem(s, "PINGREQ", o)
           u == [p EXCEPT !.client.timeSincePing = s.now]
           t == KeepAliveCheck(s, o)
<1>1. t = IF ~KeepAliveActive(s) THEN s
          ELSE IF PingOverdue(s) THEN f
          ELSE IF PingDue(s) THEN u ELSE s
    BY DEF KeepAliveCheck
<1>2. NotReopened(s, f) /\ ~Serving(f)
    <2>1. Sound(e) /\ Ended(s, e)
        BY SetErrorKeeps, PlainSetError DEF Keeps
    <2> HIDE DEF e
    <2>2. f.link = e.link /\ f.client.clientConnected = e.client.clientConnected
        BY <2>1 DEF Sound, System, Client
    <2> HIDE DEF f
    <2>3. ~Serving(e)
        BY <2>1, EndedIdle
    <2> QED BY <2>1, <2>2, <2>3 DEF Ended, NotReopened, Serving
<1>3. /\ u.now = s.now /\ NotReopened(s, u)
      /\ u.client.clientConnected = s.client.clientConnected
      /\ u.client.xioHandle = s.client.xioHandle
      /\ u.client.packetSendTimeMs = s.now
      /\ u.client.timeSincePing = s.now
    <2>1. Sent(s, p) /\ p.client \in Client /\ p \in System
        <3>1. Sent(s, p) /\ p.client \in Client
            BY PlainSendPacketItem DEF Sound, Unregistered
        <3>2. "PINGREQ" \in Requests
            BY DEF Requests
        <3>3. Sound(p)
            BY <3>2, SendPacketItemKeeps DEF Keeps, SendOutcomes
        <3> QED BY <3>1, <3>3 DEF Sound
    <2> HIDE DEF p
    <2>2. /\ u.now = p.now /\ u.link = p.link
          /\ u.client.clientConnected = p.client.clientConnected
          /\ u.client.xioHandle = p.client.xioHandle
          /\ u.client.packetSendTimeMs = p.client.packetSendTimeMs
          /\ u.client.timeSincePing = s.now
        BY <2>1 DEF System, Client
    <2> HIDE DEF u
    <2> QED BY <2>1, <2>2 DEF Sent, Kept, NotReopened
<1> HIDE DEF f, u, t
<1>4. NotReopened(s, s)
    BY DEF NotReopened
<1>5. NotReopened(s, t)
    BY <1>1, <1>2, <1>3, <1>4
<1>6. ASSUME Serving(t) PROVE Serving(s) /\ KeepAliveActive(s)
    <2>1. Serving(s)
        BY <1>1, <1>2, <1>3, <1>6 DEF Serving, NotReopened
    <2> QED BY <2>1 DEF KeepAliveActive, Serving
<1> QED BY <1>1, <1>2, <1>3, <1>5, <1>6 DEF t

\* The keep-alive check closes an overdue session, pings one that is due, and leaves
\* the others as they are.
LEMMA FinishDoWorkAlive ==
    ASSUME KInv, ~Tls, KeepAlive > 0, "noPacket" \notin FaultKinds, KeepAliveNext, FinishDoWork
    PROVE  Linked' /\ Alive' /\ pc' # "hung"
<1>1. PICK o \in SendOutcomes : Spend(<<o>>) /\ Become(KeepAliveCheck(State, o), "loop")
    BY DEF FinishDoWork
<1>2. o # "noPacket" /\ pc = "recv"
    BY <1>1, AlwaysBuilt DEF FinishDoWork
<1> DEFINE t == KeepAliveCheck(State, o)
           S == client.packetSendTimeMs
           P == client.timeSincePing
<1>3. /\ Sound(State) /\ State \in System /\ Unregistered(State)
      /\ now \in Ticks /\ S \in Ticks /\ P \in Ticks /\ quiet \in Nat
      /\ Serving(State) => State.client.socketConnected /\ State.client.xioHandle # NULL
    BY <1>2, KInvState DEF KInv, Unasked, State
<1>4. Keeps(State, t)
    BY <1>3, KeepAliveCheckKeeps
<1>5. /\ NotReopened(State, t)
      /\ Serving(t) =>
           /\ Serving(State) /\ ~PingOverdue(State)
           /\ t.now = State.now /\ t.client.xioHandle = State.client.xioHandle
           /\ IF PingDue(State)
              THEN t.client.packetSendTimeMs = State.now /\ t.client.timeSincePing = State.now
              ELSE /\ t.client.packetSendTimeMs = State.client.packetSendTimeMs
                   /\ t.client.timeSincePing = State.client.timeSincePing
    BY <1>2, <1>3, PlainKeepAliveCheck
<1>6. Become(t, "loop")
    BY <1>1
<1> HIDE DEF t
<1>7. quiet' \in Nat /\ quiet' <= quiet
    BY <1>6, QuietCounted DEF KInv, Become
<1>8. ASSUME Serving(t) PROVE t.now = now /\ Alert(t, quiet') /\ Rested(t)
    <2>1. /\ client.xioHandle # NULL /\ InTime(now, S, P, quiet)
        BY <1>5, <1>8 DEF KInv, Alive, Alert, State
    <2>2. /\ PingDue(State) <=> Elapsed(now, S) >= Interval
          /\ PingOverdue(State) <=> P # 0 /\ Elapsed(now, P) >= Response
        BY <1>3, KeepAliveDue DEF State
    <2>3. ~(P # 0 /\ Elapsed(now, P) >= Response)
        BY <1>5, <1>8, <2>2
    <2>4. /\ t.now = now /\ t.client.xioHandle = client.xioHandle
          /\ IF PingDue(State)
             THEN t.client.packetSendTimeMs = now /\ t.client.timeSincePing = now
             ELSE t.client.packetSendTimeMs = S /\ t.client.timeSincePing = P
        BY <1>5, <1>8 DEF State
    <2> HIDE DEF S, P
    <2>5. CASE PingDue(State)
        <3>1. InTime(now, now, now, quiet) /\ Checked(now, now, now)
            BY <1>3, <2>1, <2>2, <2>3, <2>5, InTimePinged
        <3>2. InTime(now, now, now, quiet')
            BY <1>3, <1>7, <3>1, InTimeLess
        <3> QED BY <2>1, <2>4, <2>5, <3>1, <3>2 DEF Alert, Rested
    <2>6. CASE ~PingDue(State)
        <3>1. Checked(now, S, P)
            <4>1. Elapsed(now, S) \in Ticks /\ Elapsed(now, P) \in Ticks
                BY <1>3, ElapsedValue
            <4>2. /\ Elapsed(now, S) \in Nat /\ Elapsed(now, P) \in Nat
                  /\ Interval \in Nat /\ Response \in Nat
                BY <4>1, ResponseInTime, ClientAssumption DEF Ticks
            <4>3. ~(Elapsed(now, S) >= Interval)
                BY <2>2, <2>6
            <4> QED BY <2>3, <4>2, <4>3 DEF Checked
        <3>2. InTime(now, S, P, quiet')
            BY <1>3, <1>7, <2>1, InTimeLess
        <3> QED BY <2>1, <2>4, <2>6, <3>1, <3>2 DEF Alert, Rested
    <2> QED BY <2>5, <2>6
<1>9. Linked' /\ Alive'
    BY <1>2, <1>4, <1>5, <1>6, <1>8, WorkAlive
<1> QED BY <1>6, <1>9 DEF Become

-----------------------------------------------------------------------------
\* The connection fails, or its peer falls silent, which is not yet counted.
LEMMA LinkFaultAlive ==
    ASSUME KInv, ~Tls, KeepAlive > 0, KeepAliveNext, LinkFault
    PROVE  Linked' /\ Alive' /\ pc' # "hung"
<1>1. /\ link.net = "up" /\ \E f \in {"reset", "silent"} : link' = [link EXCEPT !.net = f]
      /\ UNCHANGED <<client, comm, xio, now, pc, chunk, ran>>
    BY DEF LinkFault
<1>2. quiet' \in Nat /\ quiet' <= quiet
    BY <1>1, QuietCounted DEF KInv
<1>3. Linked' /\ pc' # "hung"
    BY <1>1 DEF KInv, Linked, Unasked, Reconnecting
<1>4. ASSUME client.clientConnected
      PROVE  /\ client.xioHandle # NULL
             /\ InTime(now, client.packetSendTimeMs, client.timeSincePing, quiet')
             /\ pc = "loop" /\ ran =>
                  Checked(now, client.packetSendTimeMs, client.timeSincePing)
    <2>1. Serving(State)
        BY <1>1, <1>4 DEF Serving, State
    <2>2. /\ client.xioHandle # NULL
          /\ InTime(now, client.packetSendTimeMs, client.timeSincePing, quiet)
          /\ pc = "loop" /\ ran =>
               Checked(now, client.packetSendTimeMs, client.timeSincePing)
        BY <2>1 DEF KInv, Alive, Alert, Rested, State
    <2> QED BY <1>2, <2>2, KInvState, InTimeLess
<1>5. Alive'
    BY <1>1, <1>4 DEF Alive, Serving, Alert, Rested, State
<1> QED BY <1>3, <1>5

\* The clock ticks: in the loop only after its keep-alive check, and in the retry loop
\* without a session.
LEMMA TickAlive ==
    ASSUME KInv, ~Tls, KeepAlive > 0, Interval < TickMod, KeepAliveNext, Tick
    PROVE  Linked' /\ Alive' /\ pc' # "hung"
<1>1. /\ pc = "connecting" \/ (pc = "loop" /\ ran)
      /\ now' = (now + 1) % TickMod /\ ran' = FALSE
      /\ UNCHANGED <<client, comm, xio, link, pc, chunk, faults>>
    BY DEF Tick, KInv, Unasked
<1>2. quiet' \in Nat /\ quiet' <= quiet + 1
    BY QuietCounted DEF KInv
<1>3. Linked' /\ pc' # "hung"
    BY <1>1 DEF KInv, Linked, Unasked, Reconnecting
<1> DEFINE S == client.packetSendTimeMs
           P == client.timeSincePing
<1>4. ASSUME Serving(State)
      PROVE  client.xioHandle # NULL /\ InTime(now', S, P, quiet')
    <2>1. pc = "loop" /\ ran
        BY <1>1, <1>4 DEF KInv, Linked, Serving, State, Reconnecting
    <2>2. client.xioHandle # NULL /\ InTime(now, S, P, quiet) /\ Checked(now, S, P)
        BY <1>4, <2>1 DEF KInv, Alive, Alert, Rested, State
    <2>3. now \in Ticks /\ S \in Ticks /\ P \in Ticks /\ quiet \in Nat
        BY KInvState
    <2> HIDE DEF S, P
    <2>4. InTime(now', S, P, quiet + 1)
        BY <1>1, <2>2, <2>3, InTimeTick
    <2>5. now' \in Ticks /\ quiet + 1 \in Nat
        BY <1>1, <2>3, ClientAssumption, SMT DEF Ticks
    <2> QED BY <1>2, <2>2, <2>3, <2>4, <2>5, InTimeLess
<1>5. Alive'
    BY <1>1, <1>4 DEF Alive, Serving, Alert, State
<1> QED BY <1>3, <1>5

\* Nothing happens.
LEMMA StutterAlive ==
    ASSUME KInv, UNCHANGED kvars
    PROVE  KInv'
<1>1. UNCHANGED vars /\ quiet' = quiet
    BY DEF kvars, vars
<1>2. SessionInv'
    BY <1>1, SessionInductive DEF KInv
<1>3. State' = State /\ UNCHANGED <<client, comm, link, pc, chunk, ran, quiet>>
    BY <1>1 DEF vars, State
<1>4. Unasked' /\ Linked' /\ Counted' /\ Alive'
    BY <1>3 DEF KInv, Unasked, Linked, Counted, Alive, Reconnecting, Unnoticed
<1> QED BY <1>2, <1>4 DEF KInv

\* What an action does to the chunk, and when time passes.
LEMMA ChunkCounted ==
    ASSUME KInv, ~Tls, KeepAliveNext, Next
    PROVE  \/ chunk' = chunk /\ now' = now
           \/ chunk = <<>> /\ chunk' = chunk
           \/ quiet = 0 /\ now' = now
<1>1. CASE Dispatch \/ DispatchNoMemory
    <2>1. chunk # <<>> /\ now' = now
        BY <1>1 DEF Dispatch, DispatchNoMemory, Dispatched, Become
    <2> QED BY <2>1 DEF KInv, Counted
<1>2. CASE Recv
    <2>1. link.net = "up" /\ now' = now
        BY <1>2 DEF Recv
    <2> QED BY <2>1 DEF KInv, Counted, Unnoticed
<1>3. CASE Tick
    <2>1. pc \in {"loop", "connecting"} /\ chunk' = chunk
        BY <1>3 DEF Tick, KInv, Unasked
    <2>2. chunk = <<>>
        BY <2>1, AtLoop DEF KInv
    <2> QED BY <2>1, <2>2
<1>4. CASE LinkFault
    BY <1>4 DEF LinkFault
<1>5. CASE Reconnect \/ StartConnecting \/ TryConnect \/ DoWork
    BY <1>5 DEF Reconnect, StartConnecting, TryConnect, DoWork, Become
<1>6. CASE FlushSends \/ FlushEnds
    BY <1>6 DEF FlushSends, FlushEnds, Become
<1>7. CASE FlushFails \/ RecvFails
    BY <1>7 DEF FlushFails, RecvFails, ReportIoError, Become
<1>8. CASE FinishDoWork
    BY <1>8 DEF FinishDoWork, Become
<1>9. ~HandshakeStalls /\ ~RecvNoMemory
    BY DEF HandshakeStalls, RecvNoMemory
<1> QED BY <1>1, <1>2, <1>3, <1>4, <1>5, <1>6, <1>7, <1>8, <1>9 DEF Next, Process

\* Every step keeps KInv.
LEMMA KInvInductive ==
    ASSUME ~Tls, KeepAlive > 0, Interval < TickMod, "noPacket" \notin FaultKinds,
           KInv, [KeepAliveNext]_kvars
    PROVE  KInv'
<1>1. CASE UNCHANGED kvars
    BY <1>1, StutterAlive
<1>2. CASE KeepAliveNext
    <2>1. Next
        BY <1>2 DEF KeepAliveNext
    <2>2. ~HandshakeStalls /\ ~RecvNoMemory
        BY DEF HandshakeStalls, RecvNoMemory
    <2>3. SessionInv' /\ Quiet(State, State')
        BY <2>1, SessionInductive, StepQuiet DEF KInv, AppNext
    <2>4. Linked' /\ Alive' /\ pc' # "hung"
        <3>1. CASE Reconnect \/ StartConnecting \/ TryConnect
            BY <3>1, ReconnectAlive, StartConnectingAlive, TryConnectAlive
        <3>2. CASE DoWork \/ FlushSends \/ FlushEnds \/ FlushFails
            BY <1>2, <3>2, DoWorkAlive, FlushSendsAlive, FlushEndsAlive, FlushFailsAlive
        <3>3. CASE RecvFails \/ Recv \/ Dispatch \/ DispatchNoMemory \/ FinishDoWork
            BY <1>2, <3>3, RecvFailsAlive, RecvAlive, DispatchAlive, DispatchNoMemoryAlive,
               FinishDoWorkAlive
        <3>4. CASE LinkFault \/ Tick
            BY <1>2, <3>4, LinkFaultAlive, TickAlive
        <3> QED BY <2>1, <2>2, <3>1, <3>2, <3>3, <3>4 DEF Next, Process
    <2>5. Unasked'
        <3>1. Unregistered(State) /\ comm.state # "DISCONNECTED"
            BY DEF KInv, Unasked
        <3>2. Unregistered(State') /\ comm'.state # "DISCONNECTED"
            BY <2>3, <3>1 DEF Quiet, State
        <3> QED BY <2>4, <3>2 DEF Unasked
    <2>6. Counted'
        <3>1. /\ quiet' \in Nat /\ (quiet' # 0 => Unnoticed')
              /\ now' = now => quiet' <= quiet
            BY <1>2, QuietCounted DEF KInv
        <3>2. quiet \in Nat /\ (quiet # 0 => chunk = <<>>)
            BY DEF KInv, Counted
        <3>3. ASSUME quiet' # 0 PROVE chunk' = <<>>
            <4>1. CASE chunk' = chunk /\ now' = now
                <5>1. quiet # 0
                    BY <3>1, <3>2, <3>3, <4>1
                <5> QED BY <3>2, <4>1, <5>1
            <4>2. CASE chunk = <<>> /\ chunk' = chunk
                BY <4>2
            <4>3. CASE quiet = 0 /\ now' = now
                BY <3>1, <3>3, <4>3
            <4> QED BY <1>2, <2>1, <4>1, <4>2, <4>3, ChunkCounted
        <3> QED BY <3>1, <3>3 DEF Counted
    <2> QED BY <2>3, <2>4, <2>5, <2>6 DEF KInv
<1> QED BY <1>1, <1>2

\* While a peer is silent its session is in time; before, there is nothing to notice.
LEMMA KInvNoticed ==
    ASSUME ~Tls, KeepAlive > 0, KInv
    PROVE  SilenceNoticed
<1>1. CASE quiet = 0
    <2>1. NoticeTime + ZeroTick \in Nat
        <3>1. /\ Interval \in Nat /\ Response \in Nat
              /\ NoticeTime + ZeroTick = 2 * Interval + Response
            BY ResponseInTime
        <3> QED BY <3>1
    <2> QED BY <1>1, <2>1 DEF SilenceNoticed
<1>2. CASE quiet # 0
    <2>1. Serving(State)
        BY <1>2 DEF KInv, Counted, Unnoticed, Serving, State
    <2>2. InTime(now, client.packetSendTimeMs, client.timeSincePing, quiet)
        BY <2>1 DEF KInv, Alive, Alert, State
    <2>3. /\ now \in Ticks /\ client.packetSendTimeMs \in Ticks
          /\ client.timeSincePing \in Ticks /\ quiet \in Nat
        BY KInvState
    <2> QED BY <2>2, <2>3, InTimeNoticed DEF SilenceNoticed
<1> QED BY <1>1, <1>2

-----------------------------------------------------------------------------
\* Over a plain socket the times of a session stay in time, whatever the broker, the
\* network and the clock do: packetSendTimeMs and timeSincePing of mqtt_client.c.
THEOREM SessionInTime ==
    ASSUME ~Tls, KeepAlive > 0, Interval < TickMod, "noPacket" \notin FaultKinds
    PROVE  KeepAliveSpec => []KInv
<1>1. KeepAliveInit => KInv
    BY InitAlive
<1>2. KInv /\ [KeepAliveNext]_kvars => KInv'
    BY KInvInductive
<1> QED BY <1>1, <1>2, PTL DEF KeepAliveSpec

\* SRS_MQTT_CLIENT_07_026 and 07_035 over a plain socket: mqtt_client_dowork does not
\* overlook a vanished peer, for any interval shorter than the period of the tick
\* counter, wherever the counter wraps and whatever else fails, as long as the
\* PINGREQ can be built.
THEOREM SilenceIsNoticed ==
    ASSUME ~Tls, KeepAlive > 0, Interval < TickMod, "noPacket" \notin FaultKinds
    PROVE  KeepAliveSpec => []SilenceNoticed
<1>1. KeepAliveSpec => []KInv
    BY SessionInTime
<1>2. KInv => SilenceNoticed
    BY KInvNoticed
<1> QED BY <1>1, <1>2, PTL
=============================================================================
