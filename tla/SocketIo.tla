------------------------------- MODULE SocketIo -------------------------------
(***************************************************************************)
(* The socket transport of socketio_berkeley.c: its state, its list of     *)
(* pending sends and the loops of socketio_dowork, over a non-blocking     *)
(* lwIP socket and under a user that follows mqtt_client.c or              *)
(* tlsio_mbedtls.c.                                                        *)
(*                                                                         *)
(* A call of socketio_dowork is several actions, one for each turn of its  *)
(* loops, because the callbacks of a turn send and close on the same       *)
(* handle; pc is the place in it.  Packets are numbered as they are sent.  *)
(***************************************************************************)
EXTENDS Naturals, Sequences

CONSTANTS
    Sizes,       \* the sizes of packets
    MaxPackets,  \* bound on the packets sent in the life of a handle
    Reactions    \* what the user may do when an error is indicated

ASSUME SocketAssumption ==
    /\ Sizes \subseteq Nat \ {0}
    /\ MaxPackets \in Nat
    /\ Reactions \subseteq {"ignore", "close", "drain"}

VARIABLES
    io,       \* io_state
    sock,     \* the socket is not INVALID_SOCKET
    pending,  \* pending_io_list: what is left of each packet
    pc,       \* "idle", or the loop of socketio_dowork: "flush", "recv"
    next,     \* the number of the next packet
    wire,     \* the last chunk handed to the network on this connection
    told      \* a send has failed or an error was indicated on it

vars == <<io, sock, pending, pc, next, wire, told>>

\* What this transport implements.
Stream == INSTANCE PacketStream WITH wire <- wire, told <- told

Chunk      == Stream!Chunk
Whole(n)   == [packet |-> next, from |-> 1, to |-> n, size |-> n]
Cut(c, n)  == [c EXCEPT !.to = c.from + n - 1]
Rest(c, n) == [c EXCEPT !.from = c.from + n]
Length(c)  == c.to - c.from + 1

Init ==
    /\ io = "CLOSED" /\ sock = FALSE /\ pending = <<>> /\ pc = "idle"
    /\ next = 1 /\ wire = Stream!NoChunk /\ told = FALSE

-----------------------------------------------------------------------------
(***************************************************************************)
(* Opening, closing, destroying.  Destroying frees what is pending,        *)
(* closing does not; users who close without a socketio_dowork after it    *)
(* (tlsio_mbedtls_close, MQTT_ERROR in mqtt_comm.c) destroy the handle     *)
(* before they open another, so a handle is opened with nothing pending.   *)
(***************************************************************************)
Open ==
    /\ pc = "idle" /\ io = "CLOSED" /\ pending = <<>>
    /\ io' = "OPEN" /\ sock' = TRUE
    /\ wire' = Stream!NoChunk /\ told' = FALSE
    /\ UNCHANGED <<pending, pc, next>>

\* Defect: a close that is begun and never completed.
StillClosing == io' = "CLOSING" /\ sock' = FALSE /\ UNCHANGED <<pending, told>>

\* socketio_close
Shut == io' = "CLOSED" /\ sock' = FALSE /\ UNCHANGED <<pending, told>>

(***************************************************************************)
(* socketio_close, then socketio_dowork, as in close_connection: every     *)
(* pending send fails on INVALID_SOCKET, and each failure sets             *)
(* IO_STATE_ERROR, also that of a closed socket.                           *)
(***************************************************************************)
ShutAndDrain ==
    /\ sock' = FALSE /\ pending' = <<>>
    /\ io' = (IF pending' = pending THEN "CLOSED" ELSE "ERROR")
    /\ told' = (told \/ pending' # pending)

\* Called from outside, or from on_bytes_received.
Close ==
    /\ pc \in {"idle", "recv"}
    /\ Shut \/ ShutAndDrain
    /\ UNCHANGED <<pc, next, wire>>

\* socketio_destroy and the socketio_create after it
Recreate ==
    /\ pc = "idle"
    /\ io' = "CLOSED" /\ sock' = FALSE /\ pending' = <<>>
    /\ UNCHANGED <<pc, next, wire, told>>
-----------------------------------------------------------------------------
(***************************************************************************)
(* socketio_send, called from outside or from on_bytes_received.  A send   *)
(* that returns a failure tells the user; what the user does is up to it.  *)
(***************************************************************************)
Sending(n) ==
    /\ pc \in {"idle", "recv"} /\ io = "OPEN" /\ next <= MaxPackets /\ n \in Sizes
    /\ next' = next + 1
    /\ UNCHANGED <<io, sock, pc>>

\* Behind a pending send, all of it is queued.
SendBehind(n) ==
    /\ Sending(n) /\ pending # <<>>
    /\ pending' = Append(pending, Whole(n))
    /\ UNCHANGED <<wire, told>>

SendAll(n) ==
    /\ Sending(n) /\ pending = <<>>
    /\ wire' = Whole(n)
    /\ UNCHANGED <<pending, told>>

\* The socket takes a part, the rest is queued.
SendPart(n) ==
    /\ Sending(n) /\ pending = <<>>
    /\ \E k \in 1 .. n - 1 : wire' = Cut(Whole(n), k) /\ pending' = <<Rest(Whole(n), k)>>
    /\ UNCHANGED told

\* EAGAIN: nothing is sent, nothing is queued and success is returned.
SendDropped(n) ==
    /\ Sending(n) /\ pending = <<>>
    /\ UNCHANGED <<pending, wire, told>>

\* The socket fails, or there is no memory for what has to be queued.
SendFails(n) ==
    /\ Sending(n)
    /\ \/ UNCHANGED wire
       \/ pending = <<>> /\ \E k \in 1 .. n - 1 : wire' = Cut(Whole(n), k)
    /\ told' = TRUE
    /\ UNCHANGED pending
-----------------------------------------------------------------------------
(***************************************************************************)
(* socketio_dowork                                                         *)
(***************************************************************************)
\* Defect: a call that only receives.
OnlyReceives ==
    /\ pc = "idle"
    /\ pc' = "recv"
    /\ UNCHANGED <<io, sock, pending, next, wire, told>>

DoWork ==
    /\ pc = "idle"
    /\ pc' = "flush"
    /\ UNCHANGED <<io, sock, pending, next, wire, told>>

Flushing == pc = "flush" /\ pending # <<>>

\* The first loop is left; only an open socket goes on to the second.
LeaveFlush == pc' = IF io = "OPEN" THEN "recv" ELSE "idle"

FlushAll ==
    /\ Flushing /\ sock
    /\ wire' = Head(pending)
    /\ pending' = Tail(pending)
    /\ UNCHANGED <<io, sock, pc, next, told>>

\* Defect: what is left of a pending send is not moved to its front.
FlushPartUnmoved ==
    /\ Flushing /\ sock
    /\ \E k \in 1 .. Length(Head(pending)) - 1 : wire' = Cut(Head(pending), k)
    /\ LeaveFlush
    /\ UNCHANGED <<io, sock, pending, next, told>>

FlushPart ==
    /\ Flushing /\ sock
    /\ \E k \in 1 .. Length(Head(pending)) - 1 :
          /\ wire' = Cut(Head(pending), k)
          /\ pending' = <<Rest(Head(pending), k)>> \o Tail(pending)
    /\ LeaveFlush
    /\ UNCHANGED <<io, sock, next, told>>

\* EAGAIN: the rest waits for the next call.
FlushWaits ==
    /\ Flushing /\ sock
    /\ LeaveFlush
    /\ UNCHANGED <<io, sock, pending, next, wire, told>>

FlushEnds ==
    /\ pc = "flush" /\ pending = <<>>
    /\ LeaveFlush
    /\ UNCHANGED <<io, sock, pending, next, wire, told>>

(***************************************************************************)
(* indicate_error in state st with q pending, as the user handles it: it   *)
(* closes only a connection it has not closed already.                     *)
(***************************************************************************)
IndicateError(st, q) ==
    /\ told' = TRUE
    /\ \/ /\ "ignore" \in Reactions \/ ~sock
          /\ io' = st /\ sock' = sock /\ pending' = q
       \/ /\ "close" \in Reactions /\ sock
          /\ io' = "CLOSED" /\ sock' = FALSE /\ pending' = q
       \/ /\ "drain" \in Reactions /\ sock
          /\ io' = (IF q = <<>> THEN "CLOSED" ELSE "ERROR")
          /\ sock' = FALSE /\ pending' = <<>>

\* The send is given up, the loop goes on with the next.
FlushFails ==
    /\ Flushing
    /\ IndicateError("ERROR", Tail(pending))
    /\ UNCHANGED <<pc, next, wire>>

\* Nothing (more) to receive, the peer has closed, or the user has.
RecvEnds ==
    /\ pc = "recv"
    /\ pc' = "idle"
    /\ UNCHANGED <<io, sock, pending, next, wire, told>>

RecvFails ==
    /\ pc = "recv" /\ io = "OPEN"
    /\ IndicateError(io, pending)
    /\ pc' = "idle"
    /\ UNCHANGED <<next, wire>>
-----------------------------------------------------------------------------
Send == \E n \in Sizes : \/ SendBehind(n) \/ SendAll(n) \/ SendPart(n)
                         \/ SendDropped(n) \/ SendFails(n)

Next ==
    \/ Open \/ Close \/ Recreate \/ Send
    \/ DoWork \/ FlushAll \/ FlushPart \/ FlushWaits \/ FlushEnds \/ FlushFails
    \/ RecvEnds \/ RecvFails

Spec == Init /\ [][Next]_vars

(***************************************************************************)
(* The task calls socketio_dowork again and again, a call ends, and the    *)
(* network, as long as it does not fail, takes bytes at some time.         *)
(***************************************************************************)
Fairness ==
    /\ WF_vars(DoWork) /\ WF_vars(FlushEnds) /\ WF_vars(RecvEnds)
    /\ WF_vars(Flushing /\ (FlushAll \/ FlushPart \/ FlushWaits \/ FlushFails))
    /\ SF_vars(FlushAll \/ FlushPart \/ FlushFails)

FairSpec == Spec /\ Fairness
-----------------------------------------------------------------------------
SocketTypeOK ==
    /\ io \in {"CLOSED", "OPEN", "ERROR"}
    /\ sock \in BOOLEAN
    /\ pending \in Seq(Chunk)
    /\ pc \in {"idle", "flush", "recv"}
    /\ next \in Nat \ {0}
    /\ wire \in Chunk
    /\ told \in BOOLEAN

\* However sends are cut, queued and refused, and whatever the callbacks do in
\* between, the peer never sees a packet with a hole, a packet twice or two packets
\* mixed, unless the user has been told that the connection failed.
HandsOverWholePackets == Stream!Spec

\* What is pending on an open socket is handed to the network at last, whatever
\* is sent behind it, or the connection ends: no packet is stuck in the list.
Queued(p) == \E i \in DOMAIN pending : pending[i].packet = p
QueueMoves == \A p \in 1 .. MaxPackets :
                 (Queued(p) /\ io = "OPEN") ~> (~Queued(p) \/ io # "OPEN")
=============================================================================
