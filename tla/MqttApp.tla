------------------------------- MODULE MqttApp -------------------------------
(***************************************************************************)
(* The application of mqtt_app.c: the task that runs MQTT_Comm_Process,    *)
(* and the monitor task that restarts it when it has not notified for 60   *)
(* seconds.  The task notifies after every MQTT_Comm_Process; it fails to  *)
(* only where a call does not return: in the retry loop of                 *)
(* MQTT_CONNECTING and in the endless loops of on_io_recv.                 *)
(*                                                                         *)
(* The restart is one step here, the case in which nothing goes wrong with *)
(* it.  What else can happen to it ends the model, in undefined = TRUE;    *)
(* module MqttTasks takes the restart apart.                               *)
(***************************************************************************)
EXTENDS MqttComm

VARIABLE undefined   \* the two tasks have used what was freed: anything may follow

dvars == <<vars, undefined>>

\* No notification reaches the monitor any more.
Halted == pc \in {"hung", "connecting"}

\* The communicator, its client and its transport are freed; a new task runs
\* MQTT_Comm_Create and MQTT_Comm_Start_Connection.  The calls of a callback that
\* freeing the old client has made stay counted.
Renewed(c) == [NewClient EXCEPT !.closedCalls = c.closedCalls]

Restart ==
    /\ LET s == Discard(State)
       IN  \E h \in FreeHandles(s) :
             Become([XioCreate(s, h) EXCEPT !.client = Renewed(s.client),
                                            !.comm.state = "CONNECTING",
                                            !.comm.packetId = 1], "loop")
    /\ chunk' = <<>>
    /\ UNCHANGED faults

\* xTaskNotifyWait times out: MQTT_Comm_Destroy, vTaskDelete, xTaskCreate.
Watchdog == Halted /\ Restart

AppNext == Next \/ Watchdog

\* What has been freed is used; the model ends here.
Breaks == ~undefined /\ undefined' = TRUE /\ UNCHANGED vars

\* MQTT_Comm_Destroy waits for lwIP to close the socket.  Meanwhile the halted task
\* gets the processor, as it does in the loop of on_io_recv or when its vTaskDelay
\* ends, and goes on with what is being freed.
Overtakes == Halted /\ Breaks

\* There is no memory for the new task, or MQTT_Comm_Create returns NULL or, over a
\* plain socket, a communicator whose client has been freed: the next thing to happen
\* is that the monitor, or the new task, uses what is gone.
CreateFails == Halted /\ "noMem" \in FaultKinds /\ faults > 0 /\ Breaks

Finished == undefined /\ UNCHANGED dvars

DeviceNext == \/ ~undefined /\ AppNext /\ UNCHANGED undefined
              \/ Overtakes \/ CreateFails \/ Finished

(***************************************************************************)
(* The application task is never blocked and the scheduler runs it; the    *)
(* retry loop makes an attempt each time it is entered, before 60 seconds  *)
(* can pass; recv returns what has arrived, or the error, in some turn.    *)
(***************************************************************************)
Fairness ==
    /\ WF_vars(~undefined /\ Reconnect) /\ WF_vars(~undefined /\ StartConnecting)
    /\ SF_vars(~undefined /\ TryConnect) /\ WF_vars(~undefined /\ DoWork)
    /\ WF_vars(~undefined /\ FlushSends) /\ WF_vars(~undefined /\ FlushEnds)
    /\ WF_vars(~undefined /\ FlushFails) /\ SF_vars(~undefined /\ RecvFails)
    /\ SF_vars(~undefined /\ Recv) /\ WF_vars(~undefined /\ Dispatch)
    /\ WF_vars(~undefined /\ FinishDoWork) /\ WF_vars(~undefined /\ Watchdog)

AppInit     == Init /\ undefined = FALSE
AppSpec     == AppInit /\ [][DeviceNext]_dvars
FairAppSpec == AppSpec /\ Fairness

-----------------------------------------------------------------------------
\* Once the environment causes no more faults, the device ends up connected to
\* the broker and stays so: no combination of failed opens, handshakes, sends and
\* resets leaves the reconnect logic stuck.  Excepted is a restart by the monitor that
\* is overtaken by the task it ends, or that finds no memory.
Recovers ==
    <>[](client.clientConnected /\ client.socketConnected /\ link.accepted) \/ <>undefined
=============================================================================
