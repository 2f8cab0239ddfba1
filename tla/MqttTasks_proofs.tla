--------------------------- MODULE MqttTasks_proofs ---------------------------
(***************************************************************************)
(* Proofs about the two tasks of mqtt_app.c: for any number of control     *)
(* blocks and addresses, any number of ended sessions, and whatever        *)
(* allocations fail, their types; and, as long as the application does not *)
(* run while the monitor destroys (~Preempts, which the code leaves to     *)
(* chance), that they and their communicators stay one each.               *)
(***************************************************************************)
EXTENDS MqttTasks, TLAPS

Idle     == \A t \in Tasks : app[t] = "none"
AllQuiet == \A c \in Comms : heap[c] \in {"none", "disconnected"}
Holds(S) == appMqttComm \in Comms /\ heap[appMqttComm] \in S

\* Where the application can be at each place of the monitor, and that the
\* notification of its end is pending only while there is none.
Places ==
    /\ mon \in {"start", "respawn"} => Idle
    /\ mon \in {"destroy", "free", "delete"} => \A t \in Tasks : app[t] \in {"none", "process"}
    /\ "ended" \in bits => mon = "wait" /\ \A t \in Tasks : ~Active(t)

\* What is allocated at each place of the two.
Memory ==
    /\ mon \in {"start", "delete", "respawn"} => AllQuiet
    /\ "ended" \in bits => AllQuiet
    /\ \A c \in Comms : heap[c] = "gutted" => mon = "free"
    /\ mon = "free" => Holds({"gutted"})
    /\ \A t \in Tasks :
          /\ app[t] = "create" => AllQuiet
          /\ app[t] = "process" => held[t] = appMqttComm
          /\ app[t] = "process" /\ mon \in {"wait", "destroy"} => Holds({"live"})
          /\ app[t] \in {"notify", "check"} => Holds({"live", "disconnected"})
          /\ app[t] = "end" => Holds({"disconnected"})

\* A live communicator has a task that works on it.
Worked ==
    mon \in {"start", "wait", "destroy"} /\ Holds({"live"}) =>
        \E t \in Tasks : app[t] \in {"process", "notify", "check"}

IInv ==
    /\ TasksTypeOK
    /\ OneApplication
    /\ NothingLeftBehind
    /\ Places
    /\ Memory
    /\ Worked

\* One task moves on; the others stay.
LEMMA Moves ==
    ASSUME TasksTypeOK, NEW t \in Tasks, NEW p \in AppPlaces,
           app' = [app EXCEPT ![t] = p]
    PROVE  /\ app' \in [Tasks -> AppPlaces] /\ app'[t] = p
           /\ \A u \in Tasks : u # t => app'[u] = app[u]
BY DEF TasksTypeOK

\* The application task at work is the only one.
LEMMA OnlyOne ==
    ASSUME OneApplication, NEW t \in Tasks, Active(t)
    PROVE  xMqttAppThread = t /\ \A u \in Tasks : u # t => ~Active(u)
BY DEF OneApplication

\* A task is created, or not, when none is at work and nothing is left to free.
LEMMA CreateTaskIInv ==
    ASSUME TasksAssumption, IInv, CreateTask, mon' = "wait",
           \A t \in Tasks : ~Active(t), AllQuiet, "ended" \notin bits',
           bits' \in SUBSET {"network", "turn", "ended"},
           UNCHANGED <<booted, held, appMqttComm, heap, ends>>
    PROVE  IInv'
<1>1. CASE UNCHANGED <<app, xMqttAppThread>>
  <2>1. TasksTypeOK' /\ OneApplication' /\ NothingLeftBehind' /\ Places'
    BY <1>1 DEF IInv, TasksTypeOK, OneApplication, NothingLeftBehind, Places, Active, AllQuiet,
                MonPlaces
  <2>2. Memory' /\ Worked'
    BY <1>1 DEF IInv, Memory, Worked, Holds, Active, AllQuiet
  <2> QED
    BY <2>1, <2>2 DEF IInv
<1>2. ASSUME NEW t \in Tasks, app' = [app EXCEPT ![t] = "create"], xMqttAppThread' = t
      PROVE  IInv'
  <2>1. /\ app' \in [Tasks -> AppPlaces] /\ app'[t] = "create"
        /\ \A u \in Tasks : u # t => app'[u] = app[u]
    BY <1>2, Moves DEF IInv, AppPlaces
  <2>2. TasksTypeOK' /\ OneApplication' /\ NothingLeftBehind' /\ Places'
    BY <1>2, <2>1 DEF IInv, TasksTypeOK, OneApplication, NothingLeftBehind, Places, Active, AllQuiet,
                      MonPlaces
  <2>3. AllQuiet'
    BY DEF AllQuiet
  <2>4. Memory'
    BY <2>1, <2>3 DEF Memory, Active, AllQuiet
  <2>5. Worked'
    BY <2>3 DEF Worked, Holds, AllQuiet
  <2> QED
    BY <2>2, <2>4, <2>5 DEF IInv
<1> QED
  BY <1>1, <1>2 DEF CreateTask

LEMMA StartIInv == ASSUME TasksAssumption, IInv, Start PROVE IInv'
<1>1. (\A t \in Tasks : ~Active(t)) /\ AllQuiet
  BY DEF Start, IInv, Places, Memory, Idle, Active
<1>2. /\ CreateTask /\ mon' = "wait" /\ bits' = {}
      /\ UNCHANGED <<booted, held, appMqttComm, heap, ends>>
  BY DEF Start
<1> QED
  BY <1>1, <1>2, CreateTaskIInv

LEMMA NotifiedIInv == ASSUME TasksAssumption, IInv, Notified PROVE IInv'
<1>1. /\ mon = "wait" /\ mon' = "wait" /\ bits' = {}
      /\ UNCHANGED <<booted, held, appMqttComm, heap, ends>>
  BY DEF Notified
<1>2. CASE "ended" \in bits
  <2>1. CreateTask /\ (\A t \in Tasks : ~Active(t)) /\ AllQuiet
    BY <1>2 DEF Notified, IInv, Places, Memory
  <2> QED
    BY <1>1, <2>1, CreateTaskIInv
<1>3. CASE "ended" \notin bits
  <2>1. UNCHANGED <<app, xMqttAppThread>>
    BY <1>3 DEF Notified
  <2> QED
    BY <1>1, <2>1 DEF IInv, TasksTypeOK, OneApplication, NothingLeftBehind, Places, Memory, Worked,
                      Holds, Active, AllQuiet, Idle
<1> QED
  BY <1>2, <1>3

LEMMA RespawnIInv == ASSUME TasksAssumption, IInv, Respawn PROVE IInv'
<1>1. (\A t \in Tasks : ~Active(t)) /\ AllQuiet /\ "ended" \notin bits
  BY DEF Respawn, IInv, Places, Memory, Idle, Active
<1>2. /\ CreateTask /\ mon' = "wait" /\ bits' = bits /\ bits' \in SUBSET {"network", "turn", "ended"}
      /\ UNCHANGED <<booted, held, appMqttComm, heap, ends>>
  BY DEF Respawn, IInv, TasksTypeOK
<1> QED
  BY <1>1, <1>2, CreateTaskIInv

LEMMA BootIInv == ASSUME IInv, Boot PROVE IInv'
BY DEF IInv, Boot, Notify, TasksTypeOK, OneApplication, NothingLeftBehind, Places, Memory, Worked,
       Holds, Active, AllQuiet, Idle

LEMMA TimedOutIInv == ASSUME IInv, TimedOut PROVE IInv'
<1>1. TasksTypeOK' /\ OneApplication' /\ NothingLeftBehind' /\ Places'
  BY DEF IInv, TimedOut, TasksTypeOK, MonPlaces, OneApplication, NothingLeftBehind, Places, Active
<1>2. Memory' /\ Worked'
  BY DEF IInv, TimedOut, Memory, Worked, Holds, AllQuiet
<1> QED
  BY <1>1, <1>2 DEF IInv

LEMMA DestroyIInv == ASSUME TasksAssumption, IInv, Destroy PROVE IInv'
<1>1. /\ mon = "destroy" /\ "ended" \notin bits
      /\ UNCHANGED <<bits, booted, app, held, appMqttComm, xMqttAppThread, ends>>
  BY DEF Destroy, IInv, Places
<1>2. CASE appMqttComm = NULL
  <2>1. mon' = "delete" /\ UNCHANGED heap
    BY <1>2 DEF Destroy
  <2>2. AllQuiet
    BY <1>1, <1>2 DEF IInv, NothingLeftBehind, AllQuiet, TasksTypeOK, HeapStates, TasksAssumption
  <2> QED
    BY <1>1, <2>1, <2>2 DEF IInv, TasksTypeOK, MonPlaces, OneApplication, NothingLeftBehind, Places,
                            Memory, Worked, Holds, Active, AllQuiet
<1>3. CASE appMqttComm # NULL /\ heap[appMqttComm] # "none"
  <2>1. mon' = "free" /\ heap' = [heap EXCEPT ![appMqttComm] = "gutted"] /\ appMqttComm \in Comms
    BY <1>3 DEF Destroy, IInv, TasksTypeOK
  <2>2. TasksTypeOK' /\ OneApplication' /\ NothingLeftBehind' /\ Places'
    BY <1>1, <2>1 DEF IInv, TasksTypeOK, MonPlaces, HeapStates, OneApplication, NothingLeftBehind,
                      Places, Active
  <2>3. Memory' /\ Worked'
    BY <1>1, <2>1 DEF IInv, TasksTypeOK, Places, Memory, Worked, Holds
  <2> QED
    BY <2>2, <2>3 DEF IInv
<1>4. CASE appMqttComm # NULL /\ heap[appMqttComm] = "none"
  <2>1. mon' = "undefined" /\ UNCHANGED heap
    BY <1>4 DEF Destroy
  <2> QED
    BY <1>1, <2>1 DEF IInv, TasksTypeOK, MonPlaces, OneApplication, NothingLeftBehind, Places,
                      Memory, Worked, Holds, Active, AllQuiet
<1> QED
  BY <1>2, <1>3, <1>4

LEMMA FreeIInv == ASSUME IInv, Free PROVE IInv'
<1>1. /\ mon = "free" /\ mon' = "delete" /\ "ended" \notin bits /\ appMqttComm \in Comms
      /\ heap' = [heap EXCEPT ![appMqttComm] = "none"]
      /\ UNCHANGED <<bits, booted, app, held, appMqttComm, xMqttAppThread, ends>>
  BY DEF Free, IInv, Places, Memory, Holds
<1>2. TasksTypeOK' /\ OneApplication' /\ NothingLeftBehind' /\ Places'
  BY <1>1 DEF IInv, TasksTypeOK, MonPlaces, HeapStates, OneApplication, NothingLeftBehind, Places,
              Active
<1>3. AllQuiet'
  BY <1>1 DEF IInv, TasksTypeOK, HeapStates, NothingLeftBehind, AllQuiet
<1>4. Memory' /\ Worked'
  BY <1>1, <1>3 DEF IInv, Places, Memory, Worked, AllQuiet
<1> QED
  BY <1>2, <1>4 DEF IInv

LEMMA DeleteIInv == ASSUME IInv, Delete PROVE IInv'
<1>1. /\ mon = "delete" /\ mon' \in {"respawn", "undefined"} /\ "ended" \notin bits
      /\ app' = [t \in Tasks |-> IF t = xMqttAppThread THEN "none" ELSE app[t]]
      /\ xMqttAppThread' = NULL /\ AllQuiet
      /\ UNCHANGED <<bits, booted, held, appMqttComm, heap, ends>>
  BY DEF Delete, IInv, Places, Memory
<1>2. Idle' /\ app' \in [Tasks -> AppPlaces]
  BY <1>1 DEF IInv, TasksTypeOK, AppPlaces, OneApplication, Places, Active, Idle
<1>3. TasksTypeOK' /\ OneApplication' /\ NothingLeftBehind' /\ Places'
  BY <1>1, <1>2 DEF IInv, TasksTypeOK, MonPlaces, OneApplication, NothingLeftBehind, Places, Active,
                    Idle
<1>4. Memory' /\ Worked'
  BY <1>1, <1>2 DEF IInv, Memory, Worked, AllQuiet, Idle
<1> QED
  BY <1>3, <1>4 DEF IInv
-----------------------------------------------------------------------------
(***************************************************************************)
(* The steps of the application, which runs only while the monitor waits.  *)
(***************************************************************************)

\* A task that runs is the only one at work.
LEMMA RunningAlone ==
    ASSUME IInv, Preempts = FALSE, NEW t \in Tasks, Runs(t), Active(t)
    PROVE  /\ mon = "wait" /\ "ended" \notin bits
           /\ \A u \in Tasks : u # t => app[u] \in {"none", "last"}
<1>1. mon = "wait" /\ "ended" \notin bits
  BY DEF Runs, IInv, Places, Idle, Active
<1>2. \A u \in Tasks : u # t => ~Active(u)
  BY OnlyOne DEF IInv
<1> QED
  BY <1>1, <1>2 DEF IInv, TasksTypeOK, AppPlaces, Active

LEMMA CreateCommIInv ==
    ASSUME IInv, Preempts = FALSE, NEW t \in Tasks, CreateComm(t) PROVE IInv'
<1>1. /\ mon = "wait" /\ "ended" \notin bits /\ app[t] = "create" /\ xMqttAppThread = t
      /\ \A u \in Tasks : u # t => app[u] \in {"none", "last"}
  BY RunningAlone DEF CreateComm, Active, IInv, OneApplication
<1>2. PICK c \in Comms : /\ heap' = [heap EXCEPT ![c] = "live"] /\ appMqttComm' = c
                         /\ held' = [held EXCEPT ![t] = c]
  BY DEF CreateComm
<1>3. /\ app' \in [Tasks -> AppPlaces] /\ app'[t] = "process"
      /\ \A u \in Tasks : u # t => app'[u] = app[u]
  BY Moves DEF CreateComm, IInv, AppPlaces
<1>4. UNCHANGED <<mon, bits, booted, xMqttAppThread, ends>> /\ AllQuiet
  BY <1>1 DEF CreateComm, IInv, Memory
<1>5. TasksTypeOK'
  BY <1>2, <1>3, <1>4 DEF IInv, TasksTypeOK, HeapStates
<1>6. OneApplication' /\ Places'
  BY <1>1, <1>3, <1>4 DEF OneApplication, Places, Active
<1>7. NothingLeftBehind'
  BY <1>2, <1>4 DEF NothingLeftBehind, AllQuiet, IInv, TasksTypeOK
<1>8. held'[t] = c /\ heap'[c] = "live" /\ (\A d \in Comms : heap'[d] # "gutted")
  BY <1>2, <1>4 DEF IInv, TasksTypeOK, AllQuiet
<1>9. Memory' /\ Worked'
  BY <1>1, <1>2, <1>3, <1>4, <1>8 DEF Memory, Worked, Holds
<1> QED
  BY <1>5, <1>6, <1>7, <1>9 DEF IInv

LEMMA CreateFailsIInv ==
    ASSUME TasksAssumption, IInv, Preempts = FALSE, NEW t \in Tasks, CreateFails(t) PROVE IInv'
<1>1. /\ mon = "wait" /\ "ended" \notin bits
      /\ \A u \in Tasks : u # t => app[u] \in {"none", "last"}
  BY RunningAlone DEF CreateFails, Active
<1>2. /\ app' \in [Tasks -> AppPlaces] /\ app'[t] = "none"
      /\ \A u \in Tasks : u # t => app'[u] = app[u]
  BY Moves DEF CreateFails, IInv, AppPlaces
<1>3. /\ UNCHANGED <<mon, bits, booted, held, xMqttAppThread, heap, ends>> /\ AllQuiet
      /\ appMqttComm' = NULL
  BY DEF CreateFails, IInv, Memory
<1>4. TasksTypeOK' /\ OneApplication' /\ NothingLeftBehind' /\ Places'
  BY <1>1, <1>2, <1>3 DEF IInv, TasksTypeOK, OneApplication, NothingLeftBehind, Places, Active,
                          AllQuiet
<1>5. Memory' /\ Worked'
  BY <1>1, <1>2, <1>3 DEF Memory, Worked, Holds, AllQuiet, TasksAssumption
<1> QED
  BY <1>4, <1>5 DEF IInv

LEMMA ProcessIInv ==
    ASSUME IInv, Preempts = FALSE, NEW t \in Tasks, Process(t) PROVE IInv'
<1>1. /\ mon = "wait" /\ "ended" \notin bits /\ app[t] = "process" /\ xMqttAppThread = t
      /\ \A u \in Tasks : u # t => app[u] \in {"none", "last"}
  BY RunningAlone DEF Process, Active, IInv, OneApplication
<1>2. /\ app' \in [Tasks -> AppPlaces] /\ app'[t] = "notify"
      /\ \A u \in Tasks : u # t => app'[u] = app[u]
  BY Moves DEF Process, IInv, AppPlaces
<1>3. UNCHANGED <<mon, bits, booted, held, appMqttComm, xMqttAppThread, heap, ends>>
  BY DEF Process
<1>4. Holds({"live"})
  BY <1>1 DEF IInv, Memory
<1>5. TasksTypeOK' /\ OneApplication' /\ NothingLeftBehind' /\ Places'
  BY <1>1, <1>2, <1>3 DEF IInv, TasksTypeOK, OneApplication, NothingLeftBehind, Places, Active
<1>6. Memory' /\ Worked'
  BY <1>1, <1>2, <1>3, <1>4 DEF IInv, Memory, Worked, Holds
<1> QED
  BY <1>5, <1>6 DEF IInv

LEMMA ProcessEndsIInv ==
    ASSUME TasksAssumption, IInv, Preempts = FALSE, NEW t \in Tasks, ProcessEnds(t) PROVE IInv'
<1>1. /\ mon = "wait" /\ "ended" \notin bits /\ app[t] = "process" /\ xMqttAppThread = t
      /\ \A u \in Tasks : u # t => app[u] \in {"none", "last"}
  BY RunningAlone DEF ProcessEnds, Active, IInv, OneApplication
<1>2. /\ app' \in [Tasks -> AppPlaces] /\ app'[t] = "notify"
      /\ \A u \in Tasks : u # t => app'[u] = app[u]
  BY Moves DEF ProcessEnds, IInv, AppPlaces
<1>3. /\ UNCHANGED <<mon, bits, booted, held, appMqttComm, xMqttAppThread>>
      /\ ends' \in 0 .. MaxEnds
  BY DEF ProcessEnds, IInv, TasksTypeOK, TasksAssumption
<1>4. appMqttComm \in Comms /\ heap' = [heap EXCEPT ![appMqttComm] = "disconnected"]
  BY <1>1 DEF ProcessEnds, IInv, Memory, Holds
<1>5. TasksTypeOK'
  BY <1>2, <1>3, <1>4 DEF IInv, TasksTypeOK, HeapStates
<1>6. OneApplication' /\ NothingLeftBehind' /\ Places'
  BY <1>1, <1>2, <1>3, <1>4 DEF IInv, TasksTypeOK, OneApplication, NothingLeftBehind, Places, Active
<1>7. Holds({"disconnected"})' /\ \A c \in Comms : heap'[c] # "gutted"
  BY <1>1, <1>3, <1>4 DEF IInv, TasksTypeOK, Memory, Holds
<1>8. Memory' /\ Worked'
  BY <1>1, <1>2, <1>3, <1>7 DEF IInv, Memory, Worked, Holds
<1> QED
  BY <1>5, <1>6, <1>8 DEF IInv

LEMMA NotifyTurnIInv ==
    ASSUME IInv, Preempts = FALSE, NEW t \in Tasks, NotifyTurn(t) PROVE IInv'
<1>1. /\ mon = "wait" /\ "ended" \notin bits /\ app[t] = "notify" /\ xMqttAppThread = t
      /\ \A u \in Tasks : u # t => app[u] \in {"none", "last"}
  BY RunningAlone DEF NotifyTurn, Active, IInv, OneApplication
<1>2. /\ app' \in [Tasks -> AppPlaces] /\ app'[t] = "check"
      /\ \A u \in Tasks : u # t => app'[u] = app[u]
  BY Moves DEF NotifyTurn, IInv, AppPlaces
<1>3. /\ UNCHANGED <<mon, booted, held, appMqttComm, xMqttAppThread, heap, ends>>
      /\ bits' = bits \cup {"turn"}
  BY DEF NotifyTurn, Notify
<1>4. TasksTypeOK' /\ OneApplication' /\ NothingLeftBehind' /\ Places'
  BY <1>1, <1>2, <1>3 DEF IInv, TasksTypeOK, OneApplication, NothingLeftBehind, Places, Active
<1>5. Memory' /\ Worked'
  BY <1>1, <1>2, <1>3 DEF IInv, Memory, Worked, Holds
<1> QED
  BY <1>4, <1>5 DEF IInv

LEMMA CheckIInv ==
    ASSUME IInv, Preempts = FALSE, NEW t \in Tasks, Continue(t) \/ Break(t) PROVE IInv'
<1>1. /\ mon = "wait" /\ "ended" \notin bits /\ app[t] = "check" /\ xMqttAppThread = t
      /\ \A u \in Tasks : u # t => app[u] \in {"none", "last"}
  BY RunningAlone DEF Continue, Break, Active, IInv, OneApplication
<1>2. Holds({"live", "disconnected"})
  BY <1>1 DEF IInv, Memory
<1>3. UNCHANGED <<mon, bits, booted, appMqttComm, xMqttAppThread, heap, ends>>
  BY DEF Continue, Break
<1>4. CASE Continue(t)
  <2>1. /\ app' \in [Tasks -> AppPlaces] /\ app'[t] = "process"
        /\ \A u \in Tasks : u # t => app'[u] = app[u]
    BY <1>4, Moves DEF Continue, IInv, AppPlaces
  <2>2. held' = [held EXCEPT ![t] = appMqttComm] /\ Holds({"live"})
    BY <1>2, <1>4 DEF Continue, MayContinue, Holds
  <2>3. TasksTypeOK' /\ OneApplication' /\ NothingLeftBehind' /\ Places'
    BY <1>1, <1>3, <2>1, <2>2 DEF IInv, TasksTypeOK, OneApplication, NothingLeftBehind, Places, Active
  <2>4. held'[t] = appMqttComm
    BY <2>2 DEF IInv, TasksTypeOK
  <2>5. Memory' /\ Worked'
    BY <1>1, <1>3, <2>1, <2>2, <2>4 DEF IInv, Memory, Worked, Holds
  <2> QED
    BY <2>3, <2>5 DEF IInv
<1>5. CASE Break(t)
  <2>1. /\ app' \in [Tasks -> AppPlaces] /\ app'[t] = "end"
        /\ \A u \in Tasks : u # t => app'[u] = app[u]
    BY <1>5, Moves DEF Break, IInv, AppPlaces
  <2>2. UNCHANGED held /\ Holds({"disconnected"})
    BY <1>2, <1>5 DEF Break, MayEnd, Holds
  <2>3. TasksTypeOK' /\ OneApplication' /\ NothingLeftBehind' /\ Places'
    BY <1>1, <1>3, <2>1, <2>2 DEF IInv, TasksTypeOK, OneApplication, NothingLeftBehind, Places, Active
  <2>4. Memory' /\ Worked'
    BY <1>1, <1>3, <2>1, <2>2 DEF IInv, Memory, Worked, Holds
  <2> QED
    BY <2>3, <2>4 DEF IInv
<1> QED
  BY <1>4, <1>5

LEMMA NotifyEndIInv ==
    ASSUME IInv, Preempts = FALSE, NEW t \in Tasks, NotifyEnd(t) PROVE IInv'
<1>1. /\ mon = "wait" /\ app[t] = "end"
      /\ \A u \in Tasks : u # t => app[u] \in {"none", "last"}
  BY RunningAlone DEF NotifyEnd, Active
<1>2. /\ app' \in [Tasks -> AppPlaces] /\ app'[t] = "last"
      /\ \A u \in Tasks : u # t => app'[u] = app[u]
  BY Moves DEF NotifyEnd, IInv, AppPlaces
<1>3. /\ UNCHANGED <<mon, booted, held, appMqttComm, xMqttAppThread, heap, ends>>
      /\ bits' = bits \cup {"ended"}
  BY DEF NotifyEnd, Notify
<1>4. AllQuiet
  BY <1>1 DEF IInv, TasksTypeOK, HeapStates, NothingLeftBehind, Memory, Holds, AllQuiet
<1>5. TasksTypeOK' /\ OneApplication' /\ NothingLeftBehind' /\ Places'
  BY <1>1, <1>2, <1>3 DEF IInv, TasksTypeOK, OneApplication, NothingLeftBehind, Places, Active
<1>6. Memory' /\ Worked'
  BY <1>1, <1>2, <1>3, <1>4 DEF Memory, Worked, Holds, AllQuiet
<1> QED
  BY <1>5, <1>6 DEF IInv

LEMMA ExitIInv ==
    ASSUME IInv, Preempts = FALSE, NEW t \in Tasks, Exit(t) PROVE IInv'
<1>1. mon = "wait" /\ app[t] = "last"
  BY DEF Exit, Runs, IInv, Places, Idle
<1>2. /\ app' \in [Tasks -> AppPlaces] /\ app'[t] = "none"
      /\ \A u \in Tasks : u # t => app'[u] = app[u]
  BY Moves DEF Exit, IInv, AppPlaces
<1>3. UNCHANGED <<mon, bits, booted, held, appMqttComm, xMqttAppThread, heap, ends>>
  BY DEF Exit
<1>4. TasksTypeOK' /\ OneApplication' /\ NothingLeftBehind' /\ Places'
  BY <1>1, <1>2, <1>3 DEF IInv, TasksTypeOK, OneApplication, NothingLeftBehind, Places, Active
<1>5. Memory' /\ Worked'
  BY <1>1, <1>2, <1>3 DEF IInv, Memory, Worked, Holds, AllQuiet
<1> QED
  BY <1>4, <1>5 DEF IInv
-----------------------------------------------------------------------------
LEMMA InitIInv == ASSUME TasksAssumption, Init PROVE IInv
<1>1. Idle /\ AllQuiet /\ appMqttComm \notin Comms /\ bits = {} /\ mon = "start"
  BY DEF Init, Idle, AllQuiet, TasksAssumption
<1>2. TasksTypeOK
  <2>1. mon \in MonPlaces /\ bits \in SUBSET {"network", "turn", "ended"} /\ ends \in 0 .. MaxEnds
    BY DEF Init, MonPlaces, TasksAssumption
  <2>2. app \in [Tasks -> AppPlaces] /\ held \in [Tasks -> Comms \cup {NULL}]
    BY DEF Init, AppPlaces
  <2>3. heap \in [Comms -> HeapStates]
    BY DEF Init, HeapStates
  <2>4. booted \in BOOLEAN
    BY Zenon DEF Init
  <2>5. appMqttComm \in Comms \cup {NULL} /\ xMqttAppThread \in Tasks \cup {NULL}
    BY DEF Init
  <2> QED
    BY <2>1, <2>2, <2>3, <2>4, <2>5, Zenon DEF TasksTypeOK
<1> QED
  BY <1>1, <1>2 DEF IInv, OneApplication, NothingLeftBehind, Places, Memory, Worked, Holds, Active,
                    Idle, AllQuiet

LEMMA NextIInv ==
    ASSUME TasksAssumption, IInv, Preempts = FALSE, [Next]_vars PROVE IInv'
<1>1. CASE Boot
  BY <1>1, BootIInv
<1>2. CASE Monitor
  BY <1>2, StartIInv, NotifiedIInv, TimedOutIInv, DestroyIInv, FreeIInv, DeleteIInv, RespawnIInv
     DEF Monitor
<1>3. ASSUME NEW t \in Tasks, App(t) PROVE IInv'
  BY <1>3, CreateCommIInv, CreateFailsIInv, ProcessIInv, ProcessEndsIInv, NotifyTurnIInv, CheckIInv,
     NotifyEndIInv, ExitIInv DEF App, Advance
<1>4. CASE UNCHANGED vars
  BY <1>4 DEF vars, IInv, TasksTypeOK, OneApplication, NothingLeftBehind, Places, Memory, Worked,
              Holds, Active, Idle, AllQuiet
<1> QED
  BY <1>1, <1>2, <1>3, <1>4 DEF Next

LEMMA Inductive == ASSUME Preempts = FALSE PROVE Spec => []IInv
<1>1. Init => IInv
  BY TasksAssumption, InitIInv
<1>2. IInv /\ [Next]_vars => IInv'
  BY TasksAssumption, NextIInv
<1> QED
  BY <1>1, <1>2, PTL DEF Spec

-----------------------------------------------------------------------------
\* Every step keeps the types, the ones of a task that uses what was destroyed included.
LEMMA NextTypeOK == ASSUME TasksAssumption, TasksTypeOK, [Next]_vars PROVE TasksTypeOK'
<1>1. CASE Boot \/ UNCHANGED vars
  BY <1>1 DEF Boot, Notify, vars, TasksTypeOK
<1>2. CASE Start \/ Notified \/ Respawn
  <2>1. ASSUME CreateTask
        PROVE  app' \in [Tasks -> AppPlaces] /\ xMqttAppThread' \in Tasks \cup {NULL}
    BY <2>1 DEF CreateTask, TasksTypeOK, AppPlaces
  <2> QED
    BY <1>2, <2>1 DEF Start, Notified, Respawn, TasksTypeOK, MonPlaces
<1>3. CASE TimedOut \/ Destroy \/ Free
  BY <1>3 DEF TimedOut, Destroy, Free, TasksTypeOK, MonPlaces, HeapStates
<1>4. CASE Delete
  BY <1>4 DEF Delete, TasksTypeOK, MonPlaces, AppPlaces
<1>5. ASSUME NEW t \in Tasks, App(t) PROVE TasksTypeOK'
  <2>1. CASE CreateComm(t)
    <3>1. PICK c \in Comms : /\ heap' = [heap EXCEPT ![c] = "live"] /\ appMqttComm' = c
                             /\ held' = [held EXCEPT ![t] = c]
      BY <2>1 DEF CreateComm
    <3> QED
      BY <2>1, <3>1 DEF CreateComm, TasksTypeOK, AppPlaces, HeapStates
  <2>5. CASE CreateFails(t)
    BY <2>5 DEF CreateFails, TasksTypeOK, AppPlaces
  <2>2. CASE Process(t) \/ Continue(t) \/ Break(t) \/ Exit(t)
    BY <2>2 DEF Process, Continue, Break, Exit, TasksTypeOK, AppPlaces
  <2>3. CASE NotifyTurn(t) \/ NotifyEnd(t)
    BY <2>3 DEF NotifyTurn, NotifyEnd, Notify, TasksTypeOK, AppPlaces
  <2>4. CASE ProcessEnds(t)
    <3>1. ends' \in 0 .. MaxEnds
      BY <2>4 DEF ProcessEnds, TasksTypeOK, TasksAssumption
    <3> QED
      BY <2>4, <3>1 DEF ProcessEnds, TasksTypeOK, AppPlaces, HeapStates
  <2> QED
    BY <1>5, <2>1, <2>2, <2>3, <2>4, <2>5 DEF App, Advance
<1> QED
  BY <1>1, <1>2, <1>3, <1>4, <1>5 DEF Next, Monitor

\* The shared variables of the tasks keep their types, also when the application runs
\* while the monitor destroys what it works on.
THEOREM TasksTypeCorrect == Spec => []TasksTypeOK
<1>1. Init => TasksTypeOK
  BY TasksAssumption, InitIInv DEF IInv
<1>2. TasksTypeOK /\ [Next]_vars => TasksTypeOK'
  BY TasksAssumption, NextTypeOK
<1> QED
  BY <1>1, <1>2, PTL DEF Spec

\* At most one application task is at work, and xMqttAppThread is its handle, also
\* across ends, time-outs and failing allocations, unless a task gets the processor
\* while the monitor destroys.
THEOREM OneApplicationAtATime == ASSUME Preempts = FALSE PROVE Spec => []OneApplication
<1>1. IInv => OneApplication
  BY DEF IInv
<1> QED
  BY <1>1, Inductive, PTL

\* A restart leaves no communicator behind but those of ended sessions, unless a task
\* gets the processor while the monitor destroys.
THEOREM RestartsAreClean == ASSUME Preempts = FALSE PROVE Spec => []NothingLeftBehind
<1>1. IInv => NothingLeftBehind
  BY DEF IInv
<1> QED
  BY <1>1, Inductive, PTL
=============================================================================
