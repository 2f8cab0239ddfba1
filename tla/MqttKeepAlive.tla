----------------------------- MODULE MqttKeepAlive -----------------------------
(***************************************************************************)
(* The keep-alive of mqtt_client_dowork against the clock: MqttComm with   *)
(* a history variable that measures how long a vanished peer goes          *)
(* unnoticed.  The clock wraps like the uint32_t tick counter, so the      *)
(* behaviours pass through tick 0, which timeSincePing also uses to say    *)
(* that no ping is outstanding.                                            *)
(***************************************************************************)
EXTENDS MqttComm

VARIABLE quiet   \* ticks for which the peer of a session has been silent

kvars == <<client, comm, xio, link, now, pc, chunk, faults, ran, quiet>>

\* The number of ticks in which one unanswered PINGREQ is due and times out, and
\* what is added when that PINGREQ is sent at tick 0 and so is not remembered.
NoticeTime == (KeepAlive + MaxPingRespTime + 1) * MsPerSec
ZeroTick   == KeepAlive * MsPerSec

Unnoticed == link.net = "silent" /\ client.clientConnected

KeepAliveInit == Init /\ quiet = 0

KeepAliveNext ==
    /\ Next
    /\ quiet' = IF ~Unnoticed' THEN 0
                ELSE IF now' = now THEN quiet
                ELSE IF quiet > NoticeTime + ZeroTick THEN quiet ELSE quiet + 1

KeepAliveSpec == KeepAliveInit /\ [][KeepAliveNext]_kvars

\* SRS_MQTT_CLIENT_07_026 and 07_035 together: a peer that stops answering is
\* noticed within one keep-alive interval and one response time, or one interval
\* later if the PINGREQ happens to go out at tick 0.
SilenceNoticed == quiet <= NoticeTime + ZeroTick

=============================================================================
