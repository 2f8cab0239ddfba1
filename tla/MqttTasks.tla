------------------------------- MODULE MqttTasks -------------------------------
(***************************************************************************)
(* The two tasks of mqtt_app.c on one processor: the application task,     *)
(* which works on a communicator in a loop, and the monitor task, which    *)
(* destroys both and creates them again when the loop does not turn, and   *)
(* creates them again when the application says that it has ended.  They   *)
(* share appMqttComm, xMqttAppThread, the heap and one notification value. *)
(*                                                                         *)
(* MQTT_Comm_Process is one step here, which may also never be taken:      *)
(* MqttApp models what happens in it.  Where the monitor is about to use   *)
(* what is no longer there the model ends, in mon = "undefined".           *)
(***************************************************************************)
EXTENDS Naturals

CONSTANTS
    Tasks,      \* task control blocks for application tasks
    Comms,      \* addresses malloc may return for a communicator
    NULL,       \* the null pointer
    Failures,   \* which allocations may fail
    Preempts,   \* TRUE: the application may run while the monitor destroys
    MaxEnds     \* bound on the sessions the application ends itself

ASSUME TasksAssumption ==
    /\ NULL \notin Tasks \cup Comms
    /\ Failures \subseteq {"create", "task"}
    /\ Preempts \in BOOLEAN
    /\ MaxEnds \in Nat

VARIABLES
    mon,             \* the place in prvMqttMonitorTask
    bits,            \* its pending notification
    booted,          \* stack_init has ended
    app,             \* the place of each task in prvMqttAppTask
    held,            \* the argument of each task's MQTT_Comm_Process
    appMqttComm,
    xMqttAppThread,
    heap,            \* what each address holds
    ends             \* sessions that may yet be ended

vars == <<mon, bits, booted, app, held, appMqttComm, xMqttAppThread, heap, ends>>

MonPlaces == {"start", "wait", "destroy", "free", "delete", "respawn", "undefined"}
AppPlaces == {"none", "create", "process", "notify", "check", "end", "last"}

\* "disconnected": in state MQTT_DISCONNECTED; "gutted": still allocated, but its
\* transport and its client are gone
HeapStates == {"none", "live", "disconnected", "gutted"}

Init ==
    /\ mon = "start" /\ bits = {} /\ booted = FALSE
    /\ app = [t \in Tasks |-> "none"] /\ held = [t \in Tasks |-> NULL]
    /\ appMqttComm = NULL /\ xMqttAppThread = NULL
    /\ heap = [c \in Comms |-> "none"]
    /\ ends = MaxEnds

\* xTaskNotify on the monitor
Notify(bit) == bits' = bits \cup {bit}

\* stack_init: the network is up
Boot ==
    /\ ~booted
    /\ booted' = TRUE
    /\ Notify("network")
    /\ UNCHANGED <<mon, app, held, appMqttComm, xMqttAppThread, heap, ends>>

-----------------------------------------------------------------------------
\* prvMqttMonitorTask

\* xTaskCreate, whose result is not checked
CreateTask ==
    \/ \E t \in Tasks : /\ app[t] = "none"
                        /\ app' = [app EXCEPT ![t] = "create"]
                        /\ xMqttAppThread' = t
    \/ "task" \in Failures /\ UNCHANGED <<app, xMqttAppThread>>

\* The first wait has no limit; any bit ends it.
Start ==
    /\ mon = "start" /\ bits # {}
    /\ bits' = {}
    /\ CreateTask
    /\ mon' = "wait"
    /\ UNCHANGED <<booted, held, appMqttComm, heap, ends>>

\* Defect: a new task for every notification.
RestartedByAnyBit ==
    /\ mon = "wait" /\ bits # {}
    /\ bits' = {}
    /\ CreateTask
    /\ UNCHANGED <<mon, booted, held, appMqttComm, heap, ends>>

Notified ==
    /\ mon = "wait" /\ bits # {}
    /\ bits' = {}
    /\ IF "ended" \in bits THEN CreateTask ELSE UNCHANGED <<app, xMqttAppThread>>
    /\ UNCHANGED <<mon, booted, held, appMqttComm, heap, ends>>

\* Defect: the 60 seconds are those since the start of the task.
TimedOutSinceStart ==
    /\ mon = "wait"
    /\ mon' = "destroy"
    /\ UNCHANGED <<bits, booted, app, held, appMqttComm, xMqttAppThread, heap, ends>>

\* 60 seconds without a notification: nobody is on the way to one, or there is a task
\* that does not come back from MQTT_Comm_Process.
TimedOut ==
    /\ mon = "wait" /\ bits = {}
    /\ \A t \in Tasks : app[t] \in {"none", "process"}
    /\ mon' = "destroy"
    /\ UNCHANGED <<bits, booted, app, held, appMqttComm, xMqttAppThread, heap, ends>>

\* MQTT_Comm_Destroy: xio_close waits for lwIP, and the client goes with the
\* transport ...
Destroy ==
    /\ mon = "destroy"
    /\ \/ /\ appMqttComm = NULL
          /\ mon' = "delete" /\ UNCHANGED heap
       \/ /\ appMqttComm # NULL /\ heap[appMqttComm] # "none"
          /\ mon' = "free" /\ heap' = [heap EXCEPT ![appMqttComm] = "gutted"]
       \/ /\ appMqttComm # NULL /\ heap[appMqttComm] = "none"
          /\ mon' = "undefined" /\ UNCHANGED heap
    /\ UNCHANGED <<bits, booted, app, held, appMqttComm, xMqttAppThread, ends>>

\* Defect: the communicator itself is not freed.
NotFreed ==
    /\ mon = "free"
    /\ mon' = "delete"
    /\ UNCHANGED <<bits, booted, app, held, appMqttComm, xMqttAppThread, heap, ends>>

\* ... then the communicator is freed; appMqttComm keeps its address.
Free ==
    /\ mon = "free"
    /\ heap' = [heap EXCEPT ![appMqttComm] = "none"]
    /\ mon' = "delete"
    /\ UNCHANGED <<bits, booted, app, held, appMqttComm, xMqttAppThread, ends>>

\* Defect: the halted task is forgotten, not deleted.
Forget ==
    /\ mon = "delete"
    /\ xMqttAppThread' = NULL
    /\ mon' = "respawn"
    /\ UNCHANGED <<bits, booted, app, held, appMqttComm, heap, ends>>

\* vTaskDelete, also of a task that has deleted itself
Delete ==
    /\ mon = "delete"
    /\ app' = [t \in Tasks |-> IF t = xMqttAppThread THEN "none" ELSE app[t]]
    /\ xMqttAppThread' = NULL
    /\ mon' = (IF xMqttAppThread # NULL /\ app[xMqttAppThread] = "none"
               THEN "undefined" ELSE "respawn")
    /\ UNCHANGED <<bits, booted, held, appMqttComm, heap, ends>>

\* Defect: the monitor ends after one restart.
RestartsOnce ==
    /\ mon = "respawn"
    /\ CreateTask
    /\ mon' = "ended"
    /\ UNCHANGED <<bits, booted, held, appMqttComm, heap, ends>>

Respawn ==
    /\ mon = "respawn"
    /\ CreateTask
    /\ mon' = "wait"
    /\ UNCHANGED <<bits, booted, held, appMqttComm, heap, ends>>

-----------------------------------------------------------------------------
(***************************************************************************)
(* prvMqttAppTask.  Destroying calls lwIP and blocks, so that nothing but  *)
(* luck keeps the application from running meanwhile: luck that it has as  *)
(* long as it sits in the five seconds of vTaskDelay (~Preempts).          *)
(***************************************************************************)
Runs(t) == Preempts \/ mon \in {"start", "wait"}

\* MQTT_Comm_Create and MQTT_Comm_Start_Connection
CreateComm(t) ==
    /\ Runs(t) /\ app[t] = "create"
    /\ \E c \in Comms : /\ heap[c] = "none"
                        /\ heap' = [heap EXCEPT ![c] = "live"]
                        /\ appMqttComm' = c
                        /\ held' = [held EXCEPT ![t] = c]
    /\ app' = [app EXCEPT ![t] = "process"]
    /\ UNCHANGED <<mon, bits, booted, xMqttAppThread, ends>>

\* MQTT_Comm_Create returns NULL: the task deletes itself, its handle stays.
CreateFails(t) ==
    /\ Runs(t) /\ app[t] = "create" /\ "create" \in Failures
    /\ appMqttComm' = NULL
    /\ app' = [app EXCEPT ![t] = "none"]
    /\ UNCHANGED <<mon, bits, booted, held, xMqttAppThread, heap, ends>>

\* MQTT_Comm_Process returns ...
Process(t) ==
    /\ Runs(t) /\ app[t] = "process"
    /\ app' = [app EXCEPT ![t] = "notify"]
    /\ UNCHANGED <<mon, bits, booted, held, appMqttComm, xMqttAppThread, heap, ends>>

\* ... or leaves MQTT_DISCONNECTED behind: a callback has called
\* mqtt_client_disconnect (none in src/apps does).
ProcessEnds(t) ==
    /\ Runs(t) /\ app[t] = "process" /\ heap[held[t]] = "live"
    /\ ends > 0
    /\ ends' = ends - 1
    /\ heap' = [heap EXCEPT ![held[t]] = "disconnected"]
    /\ app' = [app EXCEPT ![t] = "notify"]
    /\ UNCHANGED <<mon, bits, booted, held, appMqttComm, xMqttAppThread>>

NotifyTurn(t) ==
    /\ Runs(t) /\ app[t] = "notify"
    /\ Notify("turn")
    /\ app' = [app EXCEPT ![t] = "check"]
    /\ UNCHANGED <<mon, booted, held, appMqttComm, xMqttAppThread, heap, ends>>

\* appMqttComm->state is read: of what has been freed, whatever is there.
MayContinue == heap[appMqttComm] # "disconnected"
MayEnd      == heap[appMqttComm] \in {"disconnected", "none"}

Continue(t) ==
    /\ Runs(t) /\ app[t] = "check" /\ MayContinue
    /\ held' = [held EXCEPT ![t] = appMqttComm]
    /\ app' = [app EXCEPT ![t] = "process"]
    /\ UNCHANGED <<mon, bits, booted, appMqttComm, xMqttAppThread, heap, ends>>

Break(t) ==
    /\ Runs(t) /\ app[t] = "check" /\ MayEnd
    /\ app' = [app EXCEPT ![t] = "end"]
    /\ UNCHANGED <<mon, bits, booted, held, appMqttComm, xMqttAppThread, heap, ends>>

NotifyEnd(t) ==
    /\ Runs(t) /\ app[t] = "end"
    /\ Notify("ended")
    /\ app' = [app EXCEPT ![t] = "last"]
    /\ UNCHANGED <<mon, booted, held, appMqttComm, xMqttAppThread, heap, ends>>

\* vTaskDelete(NULL)
Exit(t) ==
    /\ Runs(t) /\ app[t] = "last"
    /\ app' = [app EXCEPT ![t] = "none"]
    /\ UNCHANGED <<mon, bits, booted, held, appMqttComm, xMqttAppThread, heap, ends>>

-----------------------------------------------------------------------------
Monitor == \/ Start \/ Notified \/ TimedOut \/ Destroy \/ Free \/ Delete \/ Respawn

\* What a running task does without waiting for anything.
Advance(t) == \/ CreateComm(t) \/ CreateFails(t) \/ NotifyTurn(t) \/ Continue(t)
              \/ Break(t) \/ NotifyEnd(t) \/ Exit(t)

App(t) == Advance(t) \/ Process(t) \/ ProcessEnds(t)

Next == Boot \/ Monitor \/ \E t \in Tasks : App(t)

Spec == Init /\ [][Next]_vars

\* The scheduler runs both tasks, and there is not for ever no memory for a task;
\* whether MQTT_Comm_Process returns is left open.
FairSpec == /\ Spec
            /\ WF_vars(Boot) /\ WF_vars(Monitor) /\ SF_vars(Respawn /\ app' # app)
            /\ \A t \in Tasks : WF_vars(Advance(t))

-----------------------------------------------------------------------------
TasksTypeOK ==
    /\ mon \in MonPlaces
    /\ bits \in SUBSET {"network", "turn", "ended"}
    /\ booted \in BOOLEAN
    /\ app \in [Tasks -> AppPlaces]
    /\ held \in [Tasks -> Comms \cup {NULL}]
    /\ appMqttComm \in Comms \cup {NULL}
    /\ xMqttAppThread \in Tasks \cup {NULL}
    /\ heap \in [Comms -> HeapStates]
    /\ ends \in 0 .. MaxEnds

Active(t) == app[t] \in {"create", "process", "notify", "check", "end"}

\* There are never two application tasks at work, on one broker session and one
\* appMqttComm, and xMqttAppThread is the one there is: however notifications and
\* the time-out meet, a task is created only after the last has ended.
OneApplication == \A t \in Tasks : Active(t) => xMqttAppThread = t

\* Whenever a task can run in MQTT_Comm_Process, the communicator it was called
\* with has been neither freed nor taken apart by the monitor.
UsesLiveCommunicator ==
    \A t \in Tasks :
        app[t] = "process" /\ Runs(t) => held[t] # NULL /\ heap[held[t]] = "live"

\* The monitor never destroys a live communicator but together with the very task
\* that hangs in it.
DestroysWhatHangs ==
    mon = "destroy" /\ appMqttComm # NULL /\ heap[appMqttComm] = "live" =>
        \E t \in Tasks : /\ app[t] = "process" /\ xMqttAppThread = t
                         /\ held[t] = appMqttComm

\* A restart leaves nothing behind: only a communicator whose session was ended
\* with mqtt_client_disconnect stays allocated without being appMqttComm.
NothingLeftBehind ==
    \A c \in Comms : heap[c] \in {"live", "gutted"} => c = appMqttComm

\* No task hangs for ever, and there is always another one at work later, unless
\* an allocation has failed and the monitor deletes or frees twice for it.
KeepsWorking ==
    /\ \A t \in Tasks : app[t] = "process" ~> app[t] # "process"
    /\ []<>(mon = "undefined" \/ \E t \in Tasks : app[t] = "process")
=============================================================================
