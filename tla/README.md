# A verification project for the MQTT client of uMQTT-LPC54608

The firmware connects an LPC54608 board to an MQTT broker: a FreeRTOS task runs
Microsoft's uMQTT client (`src/uMQTT`) under a small communicator
(`src/apps/mqtt`), over a plain socket or over mbedTLS. It is meant to run for
months without anyone looking at it: every failure of the network, the heap or
the broker has to end in a working connection again. The modules here model
that core in TLA+, check it with TLC on small instances, and prove with TLAPS
what holds for every instance.

Paths below are relative to the repository; `C` stands for
`src/uMQTT/src/mqtt_client.c`, `D` for `src/uMQTT/src/mqtt_codec.c`, `M` and `A`
for `src/apps/mqtt/mqtt_comm.c` and `mqtt_app.c`, `S` and `T` for
`src/uMQTT/ports/src/socketio_berkeley.c` and `tlsio_mbedtls.c`.

## 1. Inventory

| Component | State | Operations | Correct when |
|---|---|---|---|
| MQTT client (`C`) | `MQTT_CLIENT`: the XIO handle, `packetState`, `socketConnected`, `clientConnected`, `disconnect_cb`, the two keep-alive times, the codec | connect, publish, subscribe, unsubscribe, disconnect, dowork; callbacks `onOpenComplete`, `onBytesReceived`, `onIoError`, `sendComplete`, `recvCompleteCallback` | it works only on a live transport; its flags speak of the connection it has; a dead peer is noticed, a live one is not dropped; a disconnect is reported once |
| MQTT codec (`D`) | `MQTTCODEC_INSTANCE`: current packet, place in it, buffer | bytesReceived; construction of packets | every packet of a connection is delivered complete, once, in order, however the bytes are cut |
| Communicator (`M`) | `MQTT_COMMUNICATOR`: XIO handle, client, `state`, `packetId` | Create, Start_Connection, Process (a four-state machine), Publish, Subcribe, Destroy | a failure always leads back to a connection; reconnecting neither leaks nor dangles |
| Application and monitor (`A`) | two tasks, a notification | publish in callbacks; restart after 60 s without a notification | a call that does not return is ended and the session restarted |
| XIO (`xio.c`) | concrete handle and interface | create, open, close, destroy, send, dowork | forwards |
| Socket transport (`S`) | socket, `io_state`, `pending_io_list` | the same, non-blocking | order of sends kept; errors reported |
| TLS transport (`T`) | `tlsio_state`, mbedTLS context, receive ring | the same, over `S` | errors reported; handshake ends |
| Tick counter | a 32-bit millisecond count | get_current_ms | wraps |
| MQTT message, buffer, singly linked list | data | getters, append, remove | containers |
| Options, strings, vector, locks, threads, logging, time | | | utilities |
| Start-up, DHCP, GUI, drivers, FreeRTOS, lwIP, mbedTLS, emWin | | | vendor code, or runs once |

**How they interact.** `prvMqttAppTask` calls `MQTT_Comm_Process` in a loop.
In `MQTT_CONNECTED` that calls `mqtt_client_dowork`, which calls `xio_dowork`,
which sends what is pending and dispatches what has arrived: bytes go up through
`on_bytes_received` to the codec, packets to `recvCompleteCallback`, and from
there to the application, whose callbacks publish and subscribe — inside the
dispatch. Errors travel the same way: `on_io_error` closes the connection inside
the call that met it. Everything in one task is synchronous, so the difficulty
inside it is *re-entrance*: a function continues with a state that a
callback of its own has changed. Preemption is a matter of the two tasks of `A`,
which share `appMqttComm`, the task handle and a notification value: when the
application has not notified for 60 s the monitor destroys what it works on,
deletes it and creates it again. The communicator, for its part, destroys and
recreates the transport in `MQTT_ERROR` without telling the client, which keeps
the old handle and its flags until the next connect.

**What is hard here** (each is a hazard of PROJECT.json with its line): flags
that outlive what they speak of; a retry that succeeds after an attempt that
already set the error state; allocation failing in the middle of a reconnect;
errors reported as success by the TLS layer; errors raised while destroying;
endless loops in `on_io_recv`; a partial send; a peer that vanishes; a ping
outstanding across a reconnect; the clock and `packetId` passing through 0; a
connection lost inside a packet; the DISCONNECT packet queued behind others; a message that cannot be allocated in the middle of a chunk; an
mbedTLS context that no code resets; a socket that fails behind the last bytes of
a handshake; a rest of a packet left in `pending_io_list`; the monitor destroying
under a task that is not halted, its time-out meeting a notification, and its
unchecked allocations.

## 2. The modules

| Module | Models | Extends |
|---|---|---|
| `Xio` | The transport as the client meets it: states, pending list, outcomes of a send, the connection and a conformant broker behind it. One contract for both transports, told apart by `Tls` | |
| `MqttClient` | The functions of `C`, each an operator from the system state before the call to the one after it; composition is the order of the calls | `Xio` |
| `MqttComm` | The state machine: one action per non-blocking step of `MQTT_Comm_Process` and `mqtt_client_dowork`, with the application's callbacks, the network and the clock. `Spec` | `MqttClient` |
| `MqttApp` | The monitor task, fairness, recovery. A restart that goes wrong — overtaken by the task it ends, or without memory — ends the model (`undefined`). `AppSpec`, `FairAppSpec` | `MqttComm` |
| `MqttKeepAlive` | A history variable that measures how long a vanished peer goes unnoticed | `MqttComm` |
| `MqttDisconnect` | `mqtt_client_disconnect`, `MQTT_DISCONNECTED`, the end of the task's loop and the next session, with the transport that the last one leaves allocated (`abandoned`) | `MqttApp` |
| `MqttCodec` | The receive side of the codec byte by byte, and the fixed header it must invert | |
| `PacketChannel` | What the receive path promises: a FIFO channel of packets. `MqttCodec` implements it | |
| `SocketIo` | The socket transport from the inside: `socketio_send`, `_close`, `_destroy` and every turn of the loops of `socketio_dowork`, with partial sends, EAGAIN, errors, and the sends and closes its callbacks make | |
| `PacketStream` | What a socket transport promises: whole packets, in order, none twice, until an error is reported. `SocketIo` implements it | |
| `MqttTasks` | The application task and the monitor task step by step, with their notifications, failing allocations and the heap | |
| `MqttComm_proofs`, `MqttDisconnect_proofs`, `MqttKeepAlive_proofs`, `MqttCodec_proofs`, `SocketIo_proofs`, `MqttTasks_proofs` | Theorems about the module of that name | it, `TLAPS`; those about the client extend one another |
| `MqttSession_proofs` | Theorems about `MqttApp`: the restart, the session of the client, CONNECT before everything else; the lemmas about the client's functions that the disconnect and the keep-alive rest on | `MqttApp`, `MqttComm_proofs` |
| `MqttPing_proofs` | The theorem about ping timeouts, for `AppSpec` and `KeepAliveSpec` | `MqttKeepAlive_proofs` |
| `MC…` | Instances for TLC | |

`Xio` and `SocketIo` describe the same transport at two grains. `Xio` is atomic and
knows the broker: it is what the client is checked against. `SocketIo` counts the
bytes of packets: it shows that what the client hands over reaches the network as
whole packets. They meet in `OpensClean`, which is proved of `MqttComm` and which
`SocketIo!Open` takes as its guard. `MqttApp` and `MqttTasks` likewise share
the monitor: `MqttApp` restarts the detailed system as one step, `MqttTasks` shows
what that step takes, with `MQTT_Comm_Process` as one step. `MqttApp` does not claim that
the one step is all there is: wherever `Watchdog` may restart, `Overtakes` (the halted
task gets the processor inside `MQTT_Comm_Destroy`) and `CreateFails` (`MQTT_Comm_Create`
has no memory) may happen instead. Both lead to the use of freed memory, about which
nothing more can be said, so they set `undefined` and the model stays there. Every
property of `MqttApp` is therefore about the device up to that point, and `Recovers`, the
one that promises something for later, names it.

**State.** `client`, `comm` and `xio[h]` are the C structures (`xio[h].st` is
`"none"` for memory not allocated, so a use after free or a leak is visible as
a state); `link` is the connection and what the broker owes on it; `now` is the
tick counter. `pc` says where the application task is: `"loop"` between two
calls of `MQTT_Comm_Process`, `"connecting"` in the retry loop of
`MQTT_CONNECTING`, `"flush"` and `"recv"` in the two halves of `xio_dowork`,
`"hung"` in a call that does not return. The functions of `Xio` and
`MqttClient` take and return the record `State` of the five; an action ends in
`Become(s, place)`. A nested callback is a nested operator: for example
`Dispatch` of a CONNACK runs `MqttAppConnectCallback`, which publishes, whose
send may fail, which over TLS closes the connection, after which the subscribe
and the assignment of `clientConnected` still happen.

**Faults.** The environment chooses the outcome of every open, send, allocation
and recv; each that is not `"ok"` spends one of `MaxFaults`, and `FaultKinds`
says which may happen in a run:
`open` (the socket cannot be connected), `tlsFail` (handshake rejected), `stall`
(handshake never ends), `noMem` (an allocation during connect or reconnect),
`reset`, `silent` (a FIN, which `socketio_dowork` does not report, or a peer
that vanished), `refuse` (CONNACK with an error code), `queued`/`dropped`/`fail`
(the outcomes of a send), `noPacket` (the codec cannot allocate), `noMessage` (no memory
for a received message or the return codes of a SUBACK: `C:676`, `C:687`, `C:834`),
`badPacket` (bytes the codec rejects), `split` (a recv that ends inside a packet).

**Defects.** An operator whose comment begins with `Defect:` is not part of
a specification: it is a wrong version of the definition after it, against which
a property was tested.

## 3. What is checked

Bounds common to the runs: two addresses (at most one transport is allocated at
a time — `OneTransport` — so two are enough for a freed address to be handed out
again, or not; in the runs of `MqttDisconnect` every session that ends keeps one, so the
second has the other and a third finds no memory); `PacketIdMod` 2 or 3, so `packetId` wraps within a session.

| Run | Instance | What it shows |
|---|---|---|
| `comm_plain` | plain socket, any three faults of twelve kinds, two pending sends, with the monitor; the application may end its sessions with `mqtt_client_disconnect`, whose DISCONNECT is sent at once, queued or failing | No use of a freed transport, no leak within a session, nothing pending when a transport is opened, `clientConnected` never speaks of an earlier connection; the callback of a disconnect is called at most once, `MQTT_DISCONNECTED` is reported on a closed connection only |
| `comm_tls` | TLS, any three faults of all fourteen, with the monitor | The same, but for the types; no handshake on a used TLS context (the retry loop of `M:219` retries with the same handle, but never after a handshake); a communicator in `MQTT_CONNECTED` has an open transport to work on; a successful `mqtt_client_connect` has sent CONNECT; no other packet is the first of a connection |
| `recovery_tls` | TLS, two faults the client can notice, fair scheduling, the clock up to the first PINGREQ | `Recovers`: the device ends up connected and accepted, and stays so, unless a restart goes wrong |
| `keep_alive` | a clock of 12 ticks that wraps for ever, keep-alive 3, response time 1, plain socket, any two faults of `open`, `noMem`, `silent`, `refuse`, `split` | A silent peer is noticed within one interval and one response time (one more interval if the ping goes out at tick 0); a timeout is raised only for an unanswered ping of the same connection |
| `disconnect_queued` | one send that is queued, fair scheduling | **finding** |
| `codec` | digits to the base 3, lengths at the edges of one, two and three digits, recv of up to 4 bytes, one failed allocation, connections lost between packets | `DeliversPackets`: the codec implements `PacketChannel`, liveness included; `KeepsOrder`: its safety part, which is proved; `BoundaryIsClean`: a codec between two packets carries nothing over; `DigitsFit`: no digit of a length is written behind `storeRemainLen[4]` (`D:543`, which does not check) |
| `connect_sends_plain` | plain socket, one failed open | **finding**, below |
| `spurious_timeout` | keep-alive with one reset | **finding** |
| `codec_reset` | a connection lost inside a packet | **finding** |
| `socket` | packets of one and of three bytes, three in the life of a handle, a user who ignores errors, closes, or closes and drains | `HandsOverWholePackets`: the transport implements `PacketStream`, that is, the network never sees a part of a packet without the rest of it next, unless an error was reported; `QueueMoves`: nothing stays in `pending_io_list` of an open socket for ever |
| `tasks` | three task control blocks, three addresses for communicators, failing allocations, one session the application ends itself; a halted task does not run while it is destroyed (`Preempts = FALSE`) | One application task at a time, on a communicator that is alive; what the monitor destroys is what hangs; a restart leaves nothing behind; `KeepsWorking`: no hang is for ever |
| `task_halted` | the same without failing allocations, `Preempts = TRUE` | **finding** |

*Why the bounds are enough.* The state of one connection cycle depends on the
earlier ones only through the flags of the client, the handle, `timeSincePing`
and the codec's place; three faults cover a failure on top of a failure on top of
a reconnect. In `keep_alive` the modulus exceeds twice the sum of the intervals, so
a difference of ticks is never ambiguous, as with 2^32 ms against 30 s. The
codec's arithmetic is uniform in the radix; the boundaries (`Radix^k - 1`,
`Radix^k`) are among the lengths. A packet of three bytes can be cut
twice (in the send and in a flush) and two more can wait behind it, which is all the
list's code distinguishes. In `tasks` one control block or address is in
use, one belongs to the task that is ending or to what an ended session left
behind, and one is for the next. The addresses of `comm_plain` are only compared, so
it is checked up to their permutations. `LastTick = 0` stops the clock in the
runs that are not about time; in `recovery_tls` it runs until a first PINGREQ is due.

*Fairness* (`MqttApp!Fairness`, `MqttCodec!Spec`). The application task has no
blocking call besides those modelled as `"connecting"` and `"hung"`, and FreeRTOS
runs it: weak fairness of each of its steps. `recv` returns what has arrived or
the error in some turn of the loop, and the retry loop makes an attempt at least
once before the monitor's 60 s are over: strong fairness of `Recv`, `RecvFails`
and `TryConnect`. The monitor's wait ends: weak fairness of `Watchdog`. A task whose loop
has ended is created again: weak fairness of `SessionEnds`. None of these steps is
required of a device that has used freed memory. `SocketIo` is
called in a loop and its loops end (weak fairness); EAGAIN is not for ever (strong
fairness of the three outcomes that take the head off the list). In `MqttTasks` both tasks
run when they can, whether `MQTT_Comm_Process` returns is left open, and memory for a
task is not missing for ever (strong fairness of a successful `Respawn`). Nothing
is assumed of the environment except that its faults are finite; `Recovers` is
therefore a statement about the time after the last one.

### Findings

1. **A connect that sends nothing** (plain socket). The retry loop at `M:219` may
   fail once — which sets `MQTT_ERROR` — and then succeed. The next
   `MQTT_Comm_Process` destroys that connection and makes a new transport
   without the client being told; `socketConnected` stays true, so the following
   `mqtt_client_connect` returns 0 although `onOpenComplete` (`C:358`) closes
   the new connection instead of sending CONNECT. `M:222` shows that the symptom
   was met. Over TLS the error raised by `xio_destroy` happens to clear the
   flag, and `ConnectSends` holds (`comm_tls`).
2. **A timeout for a ping never sent.** `timeSincePing` survives a reconnect
   (`C:1241`): the new session is closed for the ping of the old one.
3. **A codec out of step.** Nothing resets the codec when a connection is closed:
   if that happens inside a packet, the start of the next connection is taken
   for its rest.
4. **A task that is not halted.** The monitor prints "MQTT task halted" and calls
   `MQTT_Comm_Destroy` before it deletes the task (`A:141`). Destroying closes
   the socket, which waits for lwIP's task. A task in the endless loop of
   `on_io_recv` is ready all that time and has the monitor's priority, so it gets
   the processor and goes on with a client and a transport that are being freed. A
   task in the five seconds of `vTaskDelay` of the retry loop (`M:220`) leaves them alone
   as long as its delay does not end meanwhile. `Preempts = FALSE` describes the case in
   which no task gets the processor; nothing in the code ensures it.
5. **A DISCONNECT that is never sent.** `mqtt_client_disconnect` forgets the handle
   (`C:1204`) whether the packet was sent or queued. If the socket takes only a part of
   it, the rest waits in `pending_io_list`, but `mqtt_client_dowork` does nothing without
   a handle: the packet is not sent, the connection stays open, the callback is never
   called, and `MQTT_Comm_Process` goes on in `MQTT_CONNECTED`. `C:1184` promises
   that the packet is sent.

Where a property fails for one of these reasons, the passing runs keep it in the
instance in which it should hold, and name the restriction: `ConnectSends` and
`ConnectedHasTransport` over TLS, `PingTimeoutIsReal` over a plain socket that
takes every packet and is not reset,
`DeliversPackets` and `DigitsFit` with connections lost between packets, `tasks` without
`Preempts`. `CallbackOnce` is restricted to a plain socket: over TLS the close
notification that `xio_destroy` tries to send on the closed socket fails, which
`on_io_error` reports to the client, and `disconnect_cb`, never cleared, is called again
(`C:66`). It does not promise a call: finding 5 is why there may be none. `MqttComm` itself models all of these behaviours (including a codec out
of step, `RecvOutOfStep`), so the safety properties hold in their presence.

Two more disagreements are states of `MqttTasks` and no finding, because no text
of the repository contradicts them. `xTaskCreate` and `MQTT_Comm_Create` may fail; the
monitor then holds the address of a freed communicator or of a task that has deleted
itself and destroys or deletes it once more (`mon = "undefined"`, where the model
ends; `CreateFails` in `MqttApp`). And a session ended with `mqtt_client_disconnect`
leaves the loop (`A:109`) before `MQTT_Comm_Process` could free it: communicator, client
and transport stay allocated (`ProcessEnds` in `MqttTasks`, `SessionEnds` in
`MqttDisconnect`). `NothingLeftBehind` excepts exactly that one, and
`OneTransportASession` the transports of ended sessions. The case `MQTT_DISCONNECTED` of `MQTT_Comm_Process` would
free everything, but it runs only if the state changes after the loop has read it, and
then the loop reads `state` from the freed communicator (`ProcessDisconnected`, where
the model ends).

`Recovers` excepts a restart that goes wrong, as said above, and is restricted to
`NoticedTlsFaults`. When `BUFFER_pre_build` fails (`D:586`) the codec rejects every byte
of every later connection, so the device never recovers; the fault `noPacket`, which
includes it, is left out. Without CONNACK there is no
keep-alive (`C:1231`), so a broker that falls silent before it answers is waited
for without limit; and over a plain socket finding 1 leaves a communicator in
`MQTT_CONNECTED` without a connection.

## 4. What is proved

All theorems hold for **every** value of the constants that satisfies the named
assumptions (`XioAssumption`, `ClientAssumption`, `CommAssumption`,
`SocketAssumption`, `TasksAssumption`, `CodecAssumption`). What a theorem assumes
beyond them stands in its `ASSUME` and is named here.

**The communicator** (`MqttComm_proofs`), for any addresses, either transport, any
bound on pending sends, any number and selection of faults, any clock and
`packetId` width:

- `TypeCorrect`: `Spec => []TypeOK`;
- `HandleSafe`: `Spec => []NoDanglingHandle`, no use of a transport after it was freed;
- `NoLeak`: `Spec => []OneTransport`;
- `NothingOfAnEarlierConnection`: `Spec => []OpensClean`.

None of the last three is inductive. `NoDanglingHandle` speaks of the places where
the handle is used; to reach them one must know what happens to it in between.
The invariant `IInv` adds: *exactly* the communicator's transport is
allocated (`Live`); the client's handle is that one or NULL at every place
except in the window between its replacement in `MQTT_ERROR` and
`mqtt_client_connect`, where it is stale and unused (`Reconnecting`); inside that
window the transport is as `xio_create` made it (`Untouched`); and inside a dowork the
communicator is not in `MQTT_CONNECTING`, so that the window is not entered from there.

The argument follows the calls. A state is `Sound` if it is well-typed, `Live` and
the client's handle is NULL or the communicator's. One lemma per function of the
client says that it leads from a sound state to a sound one with the same transport
(`Keeps`), whatever its sends and callbacks do: from the leaves (`ShutKeeps`,
`FailPendingKeeps`) through `CloseConnectionKeeps`, `XioSendKeeps` and
`CommPublishKeeps` to `RecvCompleteKeeps`. `DiscardEmpties` shows that
destroying frees everything although it calls back into the client,
`XioCreateLive` that creating, or failing to, restores `Live`, `ConnectSound`
that a connect ends the stale window, `ConnectFails` that one that fails has not
touched the transport. One lemma per action then preserves `IInv`.

**With the monitor** (`MqttSession_proofs`): `RestartSafe`, the same four properties for
`AppSpec`. The restart is the one step that also leaves `"hung"` and
`"connecting"`; `DiscardUntouched` covers the second. The steps that end the model change
no variable but `undefined` (`DeviceSteps`, `AppSteps`), so an invariant of
`AppNext` is one of `AppSpec`.

**The session** (`MqttSession_proofs`), for `AppSpec`, any faults and any clock:

- `CurrentSession`: `[]SessionIsCurrent`, over either transport;
- `NoIdleConnected`: `[]ConnectedHasTransport`, over TLS;
- `ConnectIsSent`: `ConnectSends`, over TLS;
- `ConnectFirst`: `ConnectIsFirst`, over either transport.

Over a plain socket `ConnectedHasTransport` and `ConnectSends` are false, for the reason of the finding at `C:358`: a
reconnect frees the transport without telling the client, whose `socketConnected`
makes `onOpenComplete` close the new one instead of sending CONNECT.

The flags of the client are set and cleared in callbacks, nested in sends nested in
callbacks, so the proof again follows the calls. Four relations between the state
before and after say what any of them may do: `Wanes` (a session may only end; when it
does, both flags and the handle go together; a transport is not opened, and what the
broker has accepted stands), `Quiet` (nothing is reported as a disconnection that
nobody asked for), `Reported` (the communicator keeps its state only if the transport
stays open), and their conjunction `Tells`. They are transitive; one lemma per function
shows that they hold of it, except for `mqtt_client_connect` and the dispatch of
CONNACK, which begin a session and have lemmas of their own (`ConnectTells`,
`OnConnAckTells`). The inductive invariant `SessionInv` adds to `IInv`, for the state
`s` at place `p` with packets `c` still to be dispatched:

- a session belongs to the connection behind the handle, except in the window in
  which the transport is replaced (`OnlySession`);
- over TLS a client that believes in its socket is on a completed handshake and an
  unclosed handle (`Held`), so that freeing the transport calls it back and ends the
  session (`DiscardEndsSession`), which is what `NoIdleConnected` rests on;
- one exception: a CONNACK whose application callback has lost the connection sets
  `clientConnected` again (over TLS), with packets left to dispatch; the step after
  the last of them does not return;
- CONNACK is the first packet of a chunk, on an open transport whose broker sent it
  (`ConnAckFirst`): this is what makes the flag it sets current.

`ConnectFirst` has no hypothesis, and covers the connections on which CONNECT is never
sent: those of the finding at `C:358`, and those for which it could not be built
(`C:367`), which `onOpenComplete` only logs. A broker closes a connection
that begins with another packet (`Delivered` in `Xio`), so the property says that this
never happens: an open connection is reset by `LinkFault` alone. Its invariant `GreetInv`
adds to `SessionInv` (`Greeting`) that, as long as the broker has not seen CONNECT, it
has accepted and owes nothing, what is pending begins with CONNECT, and the packets left
to dispatch are none that the client answers. Then `OnlySession` says
that there is no session, so keep-alive and the application send nothing either. Two
more relations follow the calls: `Courteous`, now a part of `Wanes` (a broker that was
asked stays so, and no call has its connection reset), and `HangsUp` (closing a transport
leaves the connection as it is or ends it, and keeps or empties what is pending). TLC
checked `Greeting` as an invariant of the instances `comm_plain` and `comm_tls` before it
was proved.

**Disconnecting** (`MqttDisconnect_proofs`), for `DisconnectSpec`:

- `DisconnectSafe`: the type invariant, `NoDanglingHandle`, `OpensClean` and
  `OneTransportASession`, over either transport;
  `Disconnect` keeps a state `Sound`, and what the next session begins with is as
  `MQTT_Comm_Create` makes it (`AbandonEmpties`, `SessionRenewed`), at an address that is
  not in use: the step relation demands that of every transport made later, because an
  abandoned one stays allocated;
- `SessionsAreCurrent`: `[]SessionIsCurrent`, over a plain socket;
- `CalledOnce`: `[]CallbackOnce`, and `ClosedWhenReported`: `[]DisconnectedIsClosed`,
  over a plain socket (`~Tls`) and for *every* selection of faults. From the call on, a client with a callback registered or a
  DISCONNECT on its way has no handle and its task stays in the loop
  (`NothingToClose`), so it does nothing more (`LeavingIdle`); before the call every
  step is `Quiet`, and the call itself closes at most once (`ClosesOnce`).

**The socket transport** (`SocketIo_proofs`): `SocketTypeCorrect`, and
`StreamImplemented`, `Spec => HandsOverWholePackets`: initial states map to initial
states and every step to a step of `PacketStream` or a stutter. The invariant says
that the pending list is a sequence of rests, each beginning where the chunk before it
ended or at the first byte of a later packet, the first of them following the last
chunk on the wire, as long as no error was reported.

**The two tasks** (`MqttTasks_proofs`), for any number of tasks and addresses and any
failing allocations: `TasksTypeCorrect`, and, assuming `Preempts = FALSE`,
`OneApplicationAtATime` and `RestartsAreClean`. The code does not ensure that assumption
(finding 4): the two say what holds of the order of time-outs, notifications, ends and
failed creations, as long as no application task gets the processor inside
`MQTT_Comm_Destroy`. The invariant relates the monitor's place, the pending notification,
the place of the one active task and what the heap holds at `appMqttComm`; for instance,
a pending "ended" excludes an active task. What `Preempts = FALSE` itself decides — that
nobody works on what the monitor destroys — is not claimed as a theorem.

**The keep-alive** (`MqttKeepAlive_proofs`), for `KeepAliveSpec`: `SilenceIsNoticed`,
`[]SilenceNoticed`, and `SessionInTime`, the invariant it follows from. The assumptions:

- a plain socket (`~Tls`). Over TLS a call may hang, and then only the monitor acts;
- `KeepAlive > 0`, since 0 switches the keep-alive off, and `Interval < TickMod`: in
  the code an interval is a `uint16_t` of seconds, at most 65 535 000 ms, and the counter
  has 2^32;
- PINGREQ can be built (`"noPacket" \notin FaultKinds`). If the codec's allocation fails
  for ever, `C:1252` tries again in every turn and the silence is never noticed.

Everything else may fail, in any number, and the counter may wrap anywhere. The
difficulty is arithmetic on a circle: `timeSincePing` and `packetSendTimeMs` are
compared with the clock modulo its period, and the value 0 of the first also means "no
ping". `Elapsed` is the unsigned difference; `KeepAliveDue` turns the code's
conditions in whole seconds into conditions in ticks (`SecondsReached`). `InTime` says how
the two times and the length `q` of the silence are related: the last send is at most an
interval old and an outstanding ping is no younger than it; and either nothing was sent
since the silence began, or the ping sent then went out at tick 0 and is taken for none,
or a ping is being waited for, at most two intervals into the silence. The lemmas
`InTimeSent`, `InTimeAnswered`, `InTimePinged` and `InTimeTick` show that a send, an
answer, a ping and a tick keep it; `InTimeTick` needs that the check was made since the
last tick (`Checked`), which is the fact that `pc = "loop" /\ ran` stands for.

The invariant `KInv` adds to `SessionInv`: nobody has asked for a disconnection and no
call hangs (`Unasked`); a connection has a transport and does not outlive its
replacement (`Linked`); when the silence counts, nothing received earlier is left to
dispatch (`Counted`), so no send of a callback falls into it; and a session on a
connection is `InTime` (`Alive`). One lemma per function says what it leaves of the
times (`Kept`, `Sent`, `Ended`), one per action that it keeps `KInv`. TLC checked the
invariant first, with all faults but `noPacket`, one or two of them, and the pairs of
interval and period 2/5, 1/4, 3/5, 4/9, on up to five million states.

**The ping timeouts** (`MqttPing_proofs`): `PingTimeouts`, `[]PingTimeoutIsReal`, for
`AppSpec` and `KeepAliveSpec`, and `PingsInSession`, the invariant it follows from, for any
interval, clock and number of faults. The assumptions: a plain socket (`~Tls`), and
`FaultKinds \subseteq CalmFaults`, which excludes what loses a packet of the client
(`queued`, `dropped`, `fail`, `noPacket`), what ends a connection behind its back
(`reset`) and what breaks a packet for it (`badPacket`). None can be admitted: TLC refutes
the property with each of the six (with `queued` when a peer also falls silent or `recv`
cuts a packet), and over TLS with `noMem`. The reason is always the one
of finding 2, at `C:1241`: nothing but a PINGRESP, a timeout or the monitor's restart
clears `timeSincePing`, so whatever else ends the session leaves it to the next one.

So the proof must show that nothing else ends a session while a ping is waited for, and
this includes the sessions that follow a failed open (finding 1), a refusal, or a
connection lost inside a packet, after which the codec garbles what it reads (finding
3). The invariant `PInv` adds to `SessionInv`, besides `Unasked` and `Linked` of the
keep-alive:

- nothing is pending, and a connection has seen CONNECT and is behind the open transport
  of the communicator (`Calm`): it follows that every send succeeds;
- a client in use that believes in its session has a connection and a handle;
- once the CONNACK of a connection is received the codec is in step with it, and no
  second CONNACK, refusal or unreadable packet follows: a garbled stream never becomes a
  session, because the CONNACK was garbled as well;
- `timeSincePing` is set only within a session, on the connection the ping was sent on,
  with the communicator in `MQTT_CONNECTED`;
- the subscribe with packet identifier 0 reports an error although nothing failed. It
  makes the loop reconnect; but the client has sent in the same tick, so that no ping is
  due before (`JustSent`).

Two relations describe the calls: `Goes`, what a packet that the transport takes at once
changes, and `Closes`, what close_connection leaves. TLC found the parts of the invariant
true before they were proved.

**The codec** (`MqttCodec_proofs`), for any radix, any set of packets, any way in which
`recv` cuts the stream and any allocations that fail:

- `LengthDecodes`: summing the digits that `constructFixedHeader` writes gives the length
  back, for lengths of one to three digits, and only the last digit ends it;
- `CodecTypes`: `[]CodecTypeOK`, also for a codec out of step;
- and, where connections are lost between packets only (`~AnyReset`; `codec_reset` shows
  that the condition is needed): `CleanBoundary`, `[]BoundaryIsClean`;
  `DigitsStored`, `[]DigitsFit`; `PrefixDispatched`, `[]OnlySentPackets`; and `ChannelImplemented`, `Spec => KeepsOrder`:
  every step of the codec is one of `PacketChannel` or a stutter.

The invariant `CodecInv` must say where in the stream the codec stands. The bytes under
way are described by what they are the encoding of, without recursion: a function `st`
gives, for every `k`, the stream from packet `k` on, `st[k] = Encode(sent[k]) \o
st[k + 1]` (`Streams`). Either the codec is new and the bytes left are `st[Len(got) + 1]`,
or it is at a `Place` inside the next packet: so many bytes of the header or of the
body are in its fields, and the rest of them is what comes next; or an allocation has
failed, and it is `Broken` and dispatches nothing until the end. `LengthByte` and
`BodyByte` are the heart of the proof: a byte leads from one place to the next, to a
complete packet, or to `Broken`.

**Only model-checked.** All liveness (`Recovers`, `KeepsWorking`, `QueueMoves`, the
fairness half of `DeliversPackets`), which is out of the prover's reach, and what a
recursive definition computes for every input. Of the safety properties that a passing run
checks, `UsesLiveCommunicator` and `DestroysWhatHangs` are checked only, on the instance
without preemption, which is most of what makes them true; all others are theorems.

## 5. What is not modelled, and why

- *The inside of the TLS transport.* Its control appears in `Xio` and `MqttComm`
  where the client meets it: the endless loops of `on_io_recv`, errors that are
  reported and then counted as success, the late failure of a handshake, bytes
  lost for want of memory, the close notification of destroy, the TLS context. The
  records and the receive ring themselves, between mbedTLS and the socket, are not
  modelled: what they carry is decided inside mbedTLS.
- *What follows a failure inside `MQTT_Comm_Create`* (NULL, or for a plain socket, `M:155`,
  a communicator whose client has been freed): `MqttApp` ends there. `mqttmessage_create`
  failing for a message of the application (a publish that does not happen), options,
  `mqtt_client_unsubscribe`, tracing.
- *What a fifth digit of a length overwrites* (`D:543`; `remainLenIndex` itself): the codec
  is then `"UNDEFINED"` and takes no further byte. A conformant broker sends at
  most four; a codec out of step (finding 3) may meet five.
- *Message contents*: topics, payloads, the layout of packets after the fixed
  header, and with it the packet identifiers in flight.
- *What a garbled codec dispatches* is a nondeterministic choice in `MqttComm`
  (`Garbled`), with the one assumption that a payload does not contain the bytes
  of a CONNACK.
- Vendor code (FreeRTOS, lwIP, mbedTLS, emWin, CMSIS, drivers), start-up and the GUI.
  It is more than 95 % of the lines under `src/`, so the modelled lines, which are most
  of the repository's own control code, are a small part of the whole.

## 6. Plan

1. *Done:* `Xio`, `MqttClient`, `MqttComm`, `MqttApp`, `MqttKeepAlive`,
   `MqttDisconnect`, `MqttCodec` with `PacketChannel`; the handle invariant proved.
2. *Done:* `SocketIo` with `PacketStream`, and the proof that it implements it.
3. *Done:* `MqttTasks`, its invariants proved; `IInv` for `AppSpec`.
4. `TlsIo`: the receive ring and `on_io_recv`'s loops over `PacketStream`.
5. `MqttPackets`: construction and parsing of CONNECT, PUBLISH, SUBSCRIBE and the
   acknowledgements against a reference layout, with the flags of `C:634`, and the
   bounds of `buffer.c`; on top of it QoS 1 and 2 exchanges with packet identifiers.
6. *Done:* the session of the client, CONNECT as the first packet, `mqtt_client_disconnect`, the keep-alive against
   the clock, the ping timeouts, and the codec, proved.
