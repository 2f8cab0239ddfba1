---------------------------- MODULE MqttDisconnect ----------------------------
(***************************************************************************)
(* The application of MqttApp, that now also ends the session with         *)
(* mqtt_client_disconnect.  Nothing in src/apps makes that call: it is     *)
(* part of the client's interface, and made here between two calls of      *)
(* MQTT_Comm_Process.                                                      *)
(*                                                                         *)
(* The task finds MQTT_DISCONNECTED right after MQTT_Comm_Process, leaves  *)
(* its loop and has the monitor create it again.  So the communicator, its *)
(* client and its transport are freed by nobody.                           *)
(***************************************************************************)
EXTENDS MqttApp

VARIABLE abandoned   \* transports that stay allocated and that nobody can reach

avars == <<dvars, abandoned>>

\* mqtt_client_disconnect with the callback or with NULL.  closedCalls counts the
\* calls of the callback from here on.
CallDisconnect ==
    /\ pc = "loop" /\ comm.state = "CONNECTED" /\ client.xioHandle # NULL
    /\ \E cb \in BOOLEAN, o \in SendOutcomes :
          /\ ~client.clientConnected => o = "ok"
          /\ Spend(<<o>>)
          /\ Become(Disconnect([State EXCEPT !.client.closedCalls = 0], cb, o), "loop")
    /\ UNCHANGED chunk

\* xio and link describe what can be reached; an abandoned transport is no part of it.
Abandon(s) ==
    IF s.comm.xioHandle = NULL THEN s
    ELSE [s EXCEPT !.xio[s.comm.xioHandle] = NoTransport, !.link = NoLink]

\* The task leaves its loop, the monitor creates it again, and it makes a communicator,
\* a client and a transport, none of them at an address in use.
SessionEnds ==
    /\ pc = "loop" /\ comm.state = "DISCONNECTED"
    /\ LET s == Abandon(State)
       IN  \E h \in FreeHandles(State) :
             Become([XioCreate(s, h) EXCEPT !.client = Renewed(s.client),
                                            !.comm.state = "CONNECTING",
                                            !.comm.packetId = 1], "loop")
    /\ chunk' = <<>>
    /\ abandoned' = abandoned \cup ({comm.xioHandle} \ {NULL})
    /\ UNCHANGED faults

\* The call came when the loop had already read the state: MQTT_Comm_Process runs its
\* case MQTT_DISCONNECTED and frees the communicator, whose state the loop then reads.
\* Or there is no memory for the next communicator (see CreateFails).
ProcessDisconnected ==
    /\ pc = "loop" /\ comm.state = "DISCONNECTED"
    /\ Breaks /\ UNCHANGED abandoned

DisconnectNext ==
    \/ /\ ~undefined
       /\ ((AppNext \/ CallDisconnect) /\ UNCHANGED abandoned) \/ SessionEnds
       /\ comm'.xioHandle \notin abandoned
       /\ UNCHANGED undefined
    \/ (Overtakes \/ CreateFails \/ Finished) /\ UNCHANGED abandoned
    \/ ProcessDisconnected

DisconnectSpec ==
    /\ AppInit /\ abandoned = {} /\ [][DisconnectNext]_avars
    /\ Fairness /\ WF_vars(~undefined /\ SessionEnds)

-----------------------------------------------------------------------------
\* SRS_MQTT_CLIENT_07_012: a DISCONNECT that mqtt_client_disconnect has accepted is sent:
\* it does not wait in pending_io_list for ever.
DisconnectPending ==
    \E h \in Handles : \E i \in DOMAIN xio[h].pending : xio[h].pending[i] = "DISCONNECT"
DisconnectIsSent == DisconnectPending ~> ~DisconnectPending

\* A reconnect, a restart and the next session leave no transport allocated that is not
\* the communicator's, except those of sessions that have ended.
OneTransportASession ==
    \A h \in Handles \ abandoned : xio[h].st # "none" => h = comm.xioHandle

\* The callback is called once for a disconnect, not again for a later close.
CallbackOnce == client.closedCalls <= 1

\* The application is told of a completed disconnect only when the socket has been
\* closed and no handle is left in the client: what is abandoned next is memory, but no
\* connection.
DisconnectedIsClosed ==
    comm.state = "DISCONNECTED" =>
        /\ client.xioHandle = NULL /\ ~client.socketConnected /\ ~client.clientConnected
        /\ ~IsOpen(State, comm.xioHandle)
=============================================================================
