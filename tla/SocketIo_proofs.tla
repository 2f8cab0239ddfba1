--------------------------- MODULE SocketIo_proofs ---------------------------
(***************************************************************************)
(* SocketIo implements PacketStream: for all packet sizes, any number of   *)
(* packets and any reaction of the user to errors, what the network is     *)
(* handed on a connection is whole packets in order until the user has     *)
(* been told of an error.                                                  *)
(***************************************************************************)
EXTENDS SocketIo, TLAPS

\* What is left of a packet reaches to its end, and it is not empty.
Remainder(c) == c.from \in 1 .. c.to /\ c.to = c.size /\ c.packet \in 1 .. next - 1

\* The list holds whole packets in the order of their sending, but for the first.
InOrder ==
    /\ \A i \in DOMAIN pending : Remainder(pending[i])
    /\ \A i, j \in DOMAIN pending : i < j => pending[i].packet < pending[j].packet
    /\ \A i \in DOMAIN pending : i # 1 => pending[i].from = 1

\* The list goes on where the network stopped.
Joined ==
    IF pending = <<>> THEN Stream!Complete(wire) ELSE Stream!Follows(wire, Head(pending))

IInv ==
    /\ SocketTypeOK
    /\ InOrder
    /\ wire.packet < next
    /\ io = "OPEN" => sock
    /\ sock /\ ~told => Joined

\* A queue that loses its first element keeps its order.
LEMMA TailOrdered ==
    ASSUME SocketTypeOK, InOrder, pending # <<>>
    PROVE  /\ Tail(pending) \in Seq(Chunk)
           /\ \A i \in DOMAIN Tail(pending) :
                 i + 1 \in DOMAIN pending /\ Tail(pending)[i] = pending[i + 1]
           /\ Head(pending) = pending[1] /\ 1 \in DOMAIN pending
           /\ Head(pending) \in Chunk
           /\ Tail(pending) # <<>> => 2 \in DOMAIN pending /\ Head(Tail(pending)) = pending[2]
BY DEF SocketTypeOK

\* The two parts of a chunk that is cut.
LEMMA CutChunk ==
    ASSUME NEW c \in Chunk, c.from \in 1 .. c.to, NEW k \in 1 .. Length(c) - 1
    PROVE  /\ Cut(c, k) \in Chunk /\ Rest(c, k) \in Chunk
           /\ Cut(c, k).packet = c.packet /\ Rest(c, k).packet = c.packet
           /\ Cut(c, k).size = c.size /\ Rest(c, k).size = c.size
           /\ Cut(c, k).from = c.from /\ Cut(c, k).to = c.from + k - 1
           /\ Rest(c, k).from = c.from + k /\ Rest(c, k).to = c.to
           /\ Rest(c, k).from \in 1 .. Rest(c, k).to
BY DEF Cut, Rest, Length, Chunk, Stream!Chunk

\* A packet is a chunk, and so are its parts.
LEMMA WholeChunk ==
    ASSUME SocketTypeOK, SocketAssumption, NEW n \in Sizes
    PROVE  /\ n \in Nat \ {0} /\ Whole(n) \in Chunk
           /\ Whole(n).packet = next /\ Whole(n).from = 1 /\ Whole(n).to = n /\ Whole(n).size = n
           /\ Whole(n).from \in 1 .. Whole(n).to /\ Length(Whole(n)) = n
BY DEF SocketTypeOK, SocketAssumption, Whole, Length, Chunk, Stream!Chunk

LEMMA EmptyQueue == <<>> \in Seq(Chunk) /\ DOMAIN <<>> = {}
OBVIOUS

\* The invariant holds of the transport socketio_create makes.
LEMMA InitIInv == Init => IInv
<1> SUFFICES ASSUME Init PROVE IInv
  OBVIOUS
<1>1. wire \in Chunk /\ wire.packet = 0 /\ Stream!Complete(wire)
  BY DEF Init, Chunk, Stream!Chunk, Stream!NoChunk, Stream!Complete
<1>2. pending = <<>> /\ pending \in Seq(Chunk) /\ DOMAIN pending = {}
  BY EmptyQueue DEF Init
<1>3. SocketTypeOK
  <2>1. pending \in Seq(Chunk) /\ wire \in Chunk
    BY <1>1, <1>2
  <2>2. io = "CLOSED" /\ sock = FALSE /\ pc = "idle" /\ next = 1 /\ told = FALSE
    BY DEF Init
  <2>3. io \in {"CLOSED", "OPEN", "ERROR"} /\ pc \in {"idle", "flush", "recv"} /\ next \in Nat \ {0}
    BY <2>2
  <2>4. sock \in BOOLEAN /\ told \in BOOLEAN
    BY <2>2, Zenon
  <2> QED
    BY <2>1, <2>3, <2>4, Zenon DEF SocketTypeOK
<1>4. InOrder
  BY <1>2 DEF InOrder
<1>5. Joined /\ wire.packet < next /\ io # "OPEN"
  BY <1>1, <1>2 DEF Init, Joined
<1> QED
  BY <1>3, <1>4, <1>5 DEF IInv

LEMMA OpenIInv == ASSUME IInv, Open PROVE IInv'
<1>1. wire' \in Chunk /\ wire'.packet = 0 /\ Stream!Complete(wire)'
  BY DEF Open, Chunk, Stream!Chunk, Stream!NoChunk, Stream!Complete
<1>2. pending = <<>> /\ UNCHANGED <<pending, pc, next>> /\ io' = "OPEN" /\ sock' = TRUE /\ told' = FALSE
  BY DEF Open
<1>3. SocketTypeOK'
  BY <1>1, <1>2 DEF IInv, SocketTypeOK
<1>4. InOrder'
  BY <1>2 DEF IInv, InOrder, Remainder
<1>5. Joined' /\ wire'.packet < next'
  BY <1>1, <1>2 DEF IInv, SocketTypeOK, Joined
<1> QED
  BY <1>2, <1>3, <1>4, <1>5 DEF IInv

LEMMA CloseIInv == ASSUME IInv, Close PROVE IInv'
<1>1. CASE Shut
  BY <1>1 DEF IInv, Close, Shut, SocketTypeOK, InOrder, Joined, Remainder
<1>2. CASE ShutAndDrain
  <2>1. /\ sock' = FALSE /\ pending' = <<>> /\ io' \in {"CLOSED", "ERROR"} /\ told' \in BOOLEAN
        /\ pending' \in Seq(Chunk) /\ DOMAIN pending' = {}
    BY <1>2, EmptyQueue DEF ShutAndDrain
  <2>2. UNCHANGED <<pc, next, wire>>
    BY DEF Close
  <2> QED
    BY <2>1, <2>2 DEF IInv, SocketTypeOK, InOrder
<1> QED
  BY <1>1, <1>2 DEF Close

LEMMA RecreateIInv == ASSUME IInv, Recreate PROVE IInv'
<1>1. /\ sock' = FALSE /\ pending' \in Seq(Chunk) /\ DOMAIN pending' = {} /\ io' = "CLOSED"
      /\ UNCHANGED <<pc, next, wire, told>>
  BY EmptyQueue DEF Recreate
<1> QED
  BY <1>1 DEF IInv, SocketTypeOK, InOrder

LEMMA SendBehindIInv ==
    ASSUME IInv, SocketAssumption, NEW n \in Sizes, SendBehind(n) PROVE IInv'
<1> DEFINE c == Whole(n)
<1>1. n \in Nat \ {0} /\ c \in Chunk
  BY WholeChunk DEF IInv
<1>2. c.packet = next /\ c.from = 1 /\ c.to = n /\ c.size = n
  BY WholeChunk DEF IInv
<1>3. pending' = Append(pending, c) /\ pending # <<>> /\ next' = next + 1
  BY DEF SendBehind, Sending
<1>4. UNCHANGED <<io, sock, pc, wire, told>>
  BY DEF SendBehind, Sending
<1> HIDE DEF c
<1>5. SocketTypeOK'
  BY <1>1, <1>3, <1>4 DEF IInv, SocketTypeOK
<1>6. /\ DOMAIN pending' = DOMAIN pending \cup {Len(pending) + 1}
      /\ \A i \in DOMAIN pending : pending'[i] = pending[i]
      /\ pending'[Len(pending) + 1] = c
      /\ Head(pending') = Head(pending)
      /\ pending' # <<>>
  BY <1>1, <1>3 DEF IInv, SocketTypeOK
<1>7. \A i \in DOMAIN pending : i \in 1 .. Len(pending) /\ pending[i] \in Chunk
  BY DEF IInv, SocketTypeOK
<1>8. InOrder'
  <2>1. next \in Nat \ {0} /\ next' = next + 1
    BY <1>3 DEF IInv, SocketTypeOK
  <2>2. (\A i \in DOMAIN pending : Remainder(pending[i]))'
    BY <1>1, <1>2, <1>6, <2>1 DEF IInv, InOrder, Remainder
  <2>3. \A i \in DOMAIN pending : pending[i].packet < c.packet /\ i < Len(pending) + 1
    BY <1>2, <1>7, <2>1 DEF IInv, InOrder, Remainder
  <2>4. \A i, j \in DOMAIN pending' : i < j => pending'[i].packet < pending'[j].packet
    BY <1>6, <1>7, <2>3 DEF IInv, InOrder
  <2>5. \A i \in DOMAIN pending' : i # 1 => pending'[i].from = 1
    BY <1>2, <1>6 DEF IInv, InOrder
  <2> QED
    BY <2>2, <2>4, <2>5 DEF InOrder
<1>9. (sock /\ ~told => Joined)'
  BY <1>3, <1>4, <1>6 DEF IInv, Joined
<1> QED
  BY <1>3, <1>4, <1>5, <1>8, <1>9 DEF IInv, SocketTypeOK, Chunk, Stream!Chunk

\* A send with an empty list leaves it empty, or with the rest of the packet.
LEMMA DirectSendIInv ==
    ASSUME IInv, SocketAssumption, NEW n \in Sizes,
           SendAll(n) \/ SendPart(n) \/ SendDropped(n) \/ SendFails(n)
    PROVE  IInv'
<1>0. n \in Nat \ {0} /\ Whole(n) \in Chunk
  BY WholeChunk DEF IInv
<1>1. CASE SendAll(n)
  BY <1>0, <1>1 DEF IInv, SendAll, Sending, SocketTypeOK, InOrder, Joined, Remainder,
                    Whole, Chunk, Stream!Chunk, Stream!Complete
<1>2. CASE SendPart(n)
  <2>1. PICK k \in 1 .. n - 1 : wire' = Cut(Whole(n), k) /\ pending' = <<Rest(Whole(n), k)>>
    BY <1>2 DEF SendPart
  <2>2. Cut(Whole(n), k) \in Chunk /\ Rest(Whole(n), k) \in Chunk
    BY WholeChunk, CutChunk DEF IInv
  <2> DEFINE w == Cut(Whole(n), k)
             r == Rest(Whole(n), k)
  <2>3. /\ w.packet = next /\ w.to = k /\ w.size = n
        /\ r.packet = next /\ r.from = k + 1 /\ r.to = n /\ r.size = n
    BY <1>0, WholeChunk, CutChunk DEF IInv
  <2> HIDE DEF w, r
  <2>4. pending' \in Seq(Chunk) /\ Head(pending') = r /\ DOMAIN pending' = {1} /\ pending'[1] = r
    BY <2>1, <2>2 DEF w, r
  <2>5. /\ UNCHANGED <<io, sock, pc, told>> /\ next' = next + 1 /\ wire' = w
        /\ pending' # <<>>
    BY <1>2, <2>1 DEF SendPart, Sending, w
  <2>6. SocketTypeOK'
    BY <2>2, <2>4, <2>5 DEF IInv, SocketTypeOK, w
  <2>7. InOrder'
    BY <1>0, <2>3, <2>4, <2>5 DEF IInv, SocketTypeOK, InOrder, Remainder
  <2>8. Joined'
    BY <2>3, <2>4, <2>5 DEF Joined, Stream!Follows, Stream!Continues
  <2> QED
    BY <2>3, <2>5, <2>6, <2>7, <2>8 DEF IInv, SocketTypeOK
<1>3. CASE SendDropped(n)
  BY <1>3 DEF IInv, SendDropped, Sending, SocketTypeOK, InOrder, Joined, Remainder,
              Chunk, Stream!Chunk, Stream!Complete
<1>4. CASE SendFails(n)
  <2>1. wire' \in Chunk /\ wire'.packet < next'
    <3>1. CASE wire' = wire
      BY <1>4, <3>1 DEF IInv, SendFails, Sending, SocketTypeOK, Chunk, Stream!Chunk
    <3>2. ASSUME NEW k \in 1 .. n - 1, wire' = Cut(Whole(n), k)
          PROVE  wire' \in Chunk /\ wire'.packet < next'
      <4>1. Cut(Whole(n), k) \in Chunk
        BY WholeChunk, CutChunk DEF IInv
      <4>2. Cut(Whole(n), k).packet = next /\ next' = next + 1
        BY <1>4, WholeChunk, CutChunk DEF IInv, SendFails, Sending
      <4> QED
        BY <3>2, <4>1, <4>2 DEF IInv, SocketTypeOK
    <3> QED
      BY <1>4, <3>1, <3>2 DEF SendFails
  <2>2. told' = TRUE /\ next' = next + 1 /\ UNCHANGED <<io, sock, pc, pending>>
    BY <1>4 DEF SendFails, Sending
  <2>3. InOrder'
    BY <2>2 DEF IInv, SocketTypeOK, InOrder, Remainder
  <2> QED
    BY <2>1, <2>2, <2>3 DEF IInv, SocketTypeOK
<1> QED
  BY <1>1, <1>2, <1>3, <1>4

LEMMA LoopIInv ==
    ASSUME IInv, DoWork \/ FlushWaits \/ FlushEnds \/ RecvEnds PROVE IInv'
<1>1. UNCHANGED <<io, sock, pending, next, wire, told>> /\ pc' \in {"idle", "flush", "recv"}
  BY DEF DoWork, FlushWaits, FlushEnds, RecvEnds, LeaveFlush
<1> QED
  BY <1>1 DEF IInv, SocketTypeOK, InOrder, Joined, Remainder

LEMMA FlushAllIInv == ASSUME IInv, FlushAll PROVE IInv'
<1> DEFINE c == Head(pending)
           t == Tail(pending)
<1>1. pending # <<>> /\ wire' = c /\ pending' = t /\ UNCHANGED <<io, sock, pc, next, told>>
  BY DEF FlushAll, Flushing
<1>2. /\ t \in Seq(Chunk) /\ c \in Chunk /\ c = pending[1] /\ 1 \in DOMAIN pending
      /\ \A i \in DOMAIN t : i + 1 \in DOMAIN pending /\ t[i] = pending[i + 1]
      /\ t # <<>> => 2 \in DOMAIN pending /\ Head(t) = pending[2]
  BY <1>1, TailOrdered DEF IInv
<1>3. \A i \in DOMAIN t : i \in Nat /\ i >= 1
  BY <1>2
<1> HIDE DEF c, t
<1>4. SocketTypeOK'
  BY <1>1, <1>2 DEF IInv, SocketTypeOK
<1>5. InOrder'
  BY <1>1, <1>2, <1>3 DEF IInv, InOrder, Remainder
<1>6. Joined'
  BY <1>1, <1>2 DEF IInv, InOrder, Remainder, Joined, Stream!Complete, Stream!Follows, Stream!Begins
<1>7. wire'.packet < next'
  BY <1>1, <1>2 DEF IInv, InOrder, Remainder, SocketTypeOK
<1> QED
  BY <1>1, <1>4, <1>5, <1>6, <1>7 DEF IInv

LEMMA FlushPartIInv == ASSUME IInv, FlushPart PROVE IInv'
<1> DEFINE c == Head(pending)
           t == Tail(pending)
<1>1. pending # <<>> /\ UNCHANGED <<io, sock, next, told>> /\ pc' \in {"idle", "recv"}
  BY DEF FlushPart, Flushing, LeaveFlush
<1>2. PICK k \in 1 .. Length(c) - 1 : wire' = Cut(c, k) /\ pending' = <<Rest(c, k)>> \o t
  BY DEF FlushPart
<1>3. /\ t \in Seq(Chunk) /\ c \in Chunk /\ c = pending[1] /\ 1 \in DOMAIN pending
      /\ \A i \in DOMAIN t : i + 1 \in DOMAIN pending /\ t[i] = pending[i + 1]
  BY <1>1, TailOrdered DEF IInv
<1> DEFINE w == Cut(c, k)
           r == Rest(c, k)
<1>4. c.from \in 1 .. c.to /\ c.to = c.size /\ c.packet \in 1 .. next - 1
  BY <1>3 DEF IInv, InOrder, Remainder
<1> HIDE DEF c, t
<1>5. /\ w \in Chunk /\ r \in Chunk
      /\ w.packet = c.packet /\ w.to = c.from + k - 1 /\ w.size = c.size
      /\ r.packet = c.packet /\ r.from = c.from + k /\ r.to = c.to /\ r.size = c.size
      /\ r.from \in 1 .. r.to
  BY <1>3, <1>4, CutChunk
<1>5a. wire' = w /\ pending' = <<r>> \o t
  BY <1>2
<1> HIDE DEF w, r
<1>6. /\ pending' \in Seq(Chunk) /\ pending' # <<>> /\ Head(pending') = r /\ pending'[1] = r
      /\ \A i \in DOMAIN pending' : i # 1 => i - 1 \in DOMAIN t /\ pending'[i] = t[i - 1]
      /\ \A i \in DOMAIN pending' : i \in Nat /\ i >= 1
  BY <1>3, <1>5, <1>5a
<1>7. \A i \in DOMAIN pending' : i # 1 => i \in DOMAIN pending /\ pending'[i] = pending[i]
  BY <1>3, <1>6
<1>8. SocketTypeOK'
  BY <1>1, <1>5, <1>5a, <1>6 DEF IInv, SocketTypeOK
<1>9. InOrder'
  <2>1. \A i \in DOMAIN pending' : Remainder(pending'[i])
    BY <1>1, <1>4, <1>5, <1>6, <1>7 DEF IInv, InOrder, Remainder
  <2>2. \A i \in DOMAIN pending' : i # 1 => pending'[i].from = 1
    BY <1>7 DEF IInv, InOrder
  <2>3. \A i, j \in DOMAIN pending' : i < j => pending'[i].packet < pending'[j].packet
    <3> TAKE i, j \in DOMAIN pending'
    <3> HAVE i < j
    <3>1. j # 1
      BY <1>6
    <3>2. CASE i = 1
      BY <1>3, <1>5, <1>6, <1>7, <3>1, <3>2 DEF IInv, InOrder
    <3>3. CASE i # 1
      BY <1>7, <3>1, <3>3 DEF IInv, InOrder
    <3> QED
      BY <3>2, <3>3
  <2> QED
    BY <1>1, <2>1, <2>2, <2>3 DEF InOrder, Remainder
<1>10. Joined'
  BY <1>3, <1>4, <1>5, <1>5a, <1>6 DEF Joined, Stream!Follows, Stream!Continues, Chunk, Stream!Chunk
<1>11. wire'.packet < next'
  BY <1>1, <1>4, <1>5, <1>5a DEF IInv, SocketTypeOK
<1> QED
  BY <1>1, <1>8, <1>9, <1>10, <1>11 DEF IInv

\* Whatever the user does about an error, it has been told.
LEMMA IndicateErrorIInv ==
    ASSUME IInv, NEW st \in {"OPEN", "ERROR"}, NEW q \in Seq(Chunk), IndicateError(st, q),
           UNCHANGED <<next, wire>>, pc' \in {"idle", "flush", "recv"},
           st = "OPEN" => io = "OPEN",
           \A i \in DOMAIN q : Remainder(q[i]),
           \A i, j \in DOMAIN q : i < j => q[i].packet < q[j].packet,
           \A i \in DOMAIN q : i # 1 => q[i].from = 1
    PROVE  IInv'
<1>1. told' = TRUE /\ (pending' = q \/ pending' = <<>>) /\ (io' = "OPEN" => sock')
      /\ sock' \in BOOLEAN /\ io' \in {"CLOSED", "OPEN", "ERROR"}
  BY DEF IndicateError, IInv, SocketTypeOK
<1>2. pending' \in Seq(Chunk) /\ InOrder'
  <2>1. CASE pending' = q
    BY <2>1 DEF InOrder, Remainder
  <2>2. CASE pending' = <<>>
    BY <2>2, EmptyQueue DEF InOrder
  <2> QED
    BY <1>1, <2>1, <2>2
<1> QED
  BY <1>1, <1>2 DEF IInv, SocketTypeOK

LEMMA FlushFailsIInv == ASSUME IInv, FlushFails PROVE IInv'
<1> DEFINE t == Tail(pending)
<1>1. pending # <<>>
  BY DEF FlushFails, Flushing
<1>2. /\ t \in Seq(Chunk)
      /\ \A i \in DOMAIN t : i + 1 \in DOMAIN pending /\ t[i] = pending[i + 1]
  BY <1>1, TailOrdered DEF IInv
<1>3. \A i \in DOMAIN t : i \in Nat /\ i >= 1
  BY <1>2
<1>4. IndicateError("ERROR", t) /\ UNCHANGED <<next, wire>> /\ pc' \in {"idle", "flush", "recv"}
  BY DEF FlushFails, IInv, SocketTypeOK
<1> HIDE DEF t
<1>5. \A i \in DOMAIN t : Remainder(t[i])
  BY <1>2 DEF IInv, InOrder
<1>6. \A i, j \in DOMAIN t : i < j => t[i].packet < t[j].packet
  <2> TAKE i, j \in DOMAIN t
  <2> HAVE i < j
  <2>1. /\ i + 1 \in DOMAIN pending /\ t[i] = pending[i + 1]
        /\ j + 1 \in DOMAIN pending /\ t[j] = pending[j + 1] /\ i + 1 < j + 1
    BY <1>2, <1>3
  <2> QED
    BY <2>1 DEF IInv, InOrder
<1>7. \A i \in DOMAIN t : i # 1 => t[i].from = 1
  <2> TAKE i \in DOMAIN t
  <2>1. i + 1 \in DOMAIN pending /\ t[i] = pending[i + 1] /\ i + 1 # 1
    BY <1>2, <1>3
  <2> QED
    BY <2>1 DEF IInv, InOrder
<1> QED
  BY <1>2, <1>4, <1>5, <1>6, <1>7, IndicateErrorIInv

LEMMA RecvFailsIInv == ASSUME IInv, RecvFails PROVE IInv'
<1>1. /\ io = "OPEN" /\ IndicateError("OPEN", pending) /\ UNCHANGED <<next, wire>>
      /\ pc' \in {"idle", "flush", "recv"}
  BY DEF RecvFails
<1>2. pending \in Seq(Chunk)
  BY DEF IInv, SocketTypeOK
<1>3. /\ \A i \in DOMAIN pending : Remainder(pending[i])
      /\ \A i, j \in DOMAIN pending : i < j => pending[i].packet < pending[j].packet
      /\ \A i \in DOMAIN pending : i # 1 => pending[i].from = 1
  BY DEF IInv, InOrder
<1> QED
  BY <1>1, <1>2, <1>3, IndicateErrorIInv

LEMMA NextIInv == ASSUME IInv, SocketAssumption, [Next]_vars PROVE IInv'
<1>1. CASE Open
  BY <1>1, OpenIInv
<1>2. CASE Close
  BY <1>2, CloseIInv
<1>3. CASE Recreate
  BY <1>3, RecreateIInv
<1>4. CASE Send
  <2>1. PICK n \in Sizes : \/ SendBehind(n) \/ SendAll(n) \/ SendPart(n)
                           \/ SendDropped(n) \/ SendFails(n)
    BY <1>4 DEF Send
  <2> QED
    BY <2>1, SendBehindIInv, DirectSendIInv
<1>5. CASE DoWork \/ FlushWaits \/ FlushEnds \/ RecvEnds
  BY <1>5, LoopIInv
<1>6. CASE FlushAll
  BY <1>6, FlushAllIInv
<1>7. CASE FlushPart
  BY <1>7, FlushPartIInv
<1>8. CASE FlushFails
  BY <1>8, FlushFailsIInv
<1>9. CASE RecvFails
  BY <1>9, RecvFailsIInv
<1>10. CASE UNCHANGED vars
  BY <1>10 DEF vars, IInv, SocketTypeOK, InOrder, Joined, Remainder
<1> QED
  BY <1>1, <1>2, <1>3, <1>4, <1>5, <1>6, <1>7, <1>8, <1>9, <1>10 DEF Next

LEMMA Inductive == Spec => []IInv
<1>1. Init => IInv
  BY InitIInv
<1>2. IInv /\ [Next]_vars => IInv'
  BY SocketAssumption, NextIInv
<1> QED
  BY <1>1, <1>2, PTL DEF Spec

\* The transport's variables keep their types; its list holds chunks of packets.
THEOREM SocketTypeCorrect == Spec => []SocketTypeOK
<1>1. IInv => SocketTypeOK
  BY DEF IInv
<1> QED
  BY <1>1, Inductive, PTL
-----------------------------------------------------------------------------
(***************************************************************************)
(* Every step that hands something to the network, seen from outside.      *)
(***************************************************************************)

LEMMA SendStep ==
    ASSUME IInv, SocketAssumption, NEW n \in Sizes,
           \/ SendBehind(n) \/ SendAll(n) \/ SendPart(n) \/ SendDropped(n) \/ SendFails(n)
    PROVE  [Stream!Next]_<<wire, told>>
<1>0. n \in Nat \ {0} /\ Whole(n) \in Chunk
  BY WholeChunk DEF IInv
<1>1. ASSUME pending = <<>>, io = "OPEN", NEW d \in Chunk, d.packet = next, d.from = 1
      PROVE  told \/ Stream!Follows(wire, d)
  BY <1>1 DEF IInv, SocketTypeOK, Joined, Stream!Follows, Stream!Begins
<1>2. CASE SendBehind(n) \/ SendDropped(n)
  BY <1>2 DEF SendBehind, SendDropped
<1>3. CASE SendAll(n)
  <2>1. pending = <<>> /\ io = "OPEN" /\ wire' = Whole(n) /\ told' = told
    BY <1>3 DEF SendAll, Sending
  <2>2. told \/ Stream!Follows(wire, Whole(n))
    BY <1>0, <1>1, <2>1 DEF Whole
  <2> QED
    BY <1>0, <2>1, <2>2 DEF IInv, SocketTypeOK, Stream!Next, Stream!Deliver, Stream!Undefined, Chunk
<1>4. ASSUME NEW k \in 1 .. n - 1, pending = <<>>, io = "OPEN", wire' = Cut(Whole(n), k)
      PROVE  wire' \in Chunk /\ (told \/ Stream!Follows(wire, wire'))
  <2>1. Cut(Whole(n), k) \in Chunk
    BY WholeChunk, CutChunk DEF IInv
  <2>2. Cut(Whole(n), k).packet = next /\ Cut(Whole(n), k).from = 1
    BY WholeChunk, CutChunk DEF IInv
  <2> QED
    BY <1>1, <1>4, <2>1, <2>2
<1>5. CASE SendPart(n)
  <2>1. pending = <<>> /\ io = "OPEN" /\ told' = told
    BY <1>5 DEF SendPart, Sending
  <2>2. PICK k \in 1 .. n - 1 : wire' = Cut(Whole(n), k)
    BY <1>5 DEF SendPart
  <2>3. wire' \in Chunk /\ (told \/ Stream!Follows(wire, wire'))
    BY <1>4, <2>1, <2>2
  <2> QED
    BY <2>1, <2>3 DEF IInv, SocketTypeOK, Stream!Next, Stream!Deliver, Stream!Undefined, Chunk
<1>6. CASE SendFails(n)
  <2>1. io = "OPEN" /\ told' = TRUE
    BY <1>6 DEF SendFails, Sending
  <2>2. CASE wire' = wire
    BY <2>1, <2>2 DEF Stream!Next, Stream!Report
  <2>3. CASE wire' # wire
    <3>1. PICK k \in 1 .. n - 1 : pending = <<>> /\ wire' = Cut(Whole(n), k)
      BY <1>6, <2>3 DEF SendFails
    <3>2. wire' \in Chunk /\ (told \/ Stream!Follows(wire, wire'))
      BY <1>4, <2>1, <3>1
    <3> QED
      BY <2>1, <3>2 DEF IInv, SocketTypeOK, Stream!Next, Stream!Report, Stream!Undefined, Chunk
  <2> QED
    BY <2>2, <2>3
<1> QED
  BY <1>2, <1>3, <1>5, <1>6

LEMMA FlushStep ==
    ASSUME IInv, FlushAll \/ FlushPart
    PROVE  [Stream!Next]_<<wire, told>>
<1> DEFINE c == Head(pending)
<1>1. pending # <<>> /\ sock /\ told' = told
  BY DEF FlushAll, FlushPart, Flushing
<1>2. c \in Chunk /\ c = pending[1] /\ 1 \in DOMAIN pending
  BY <1>1, TailOrdered DEF IInv
<1>3. told \/ Stream!Follows(wire, c)
  BY <1>1 DEF IInv, Joined
<1>4. c.from \in 1 .. c.to
  BY <1>2 DEF IInv, InOrder, Remainder
<1> HIDE DEF c
<1>5. wire' \in Chunk /\ wire'.packet = c.packet /\ wire'.size = c.size /\ wire'.from = c.from
  <2>1. CASE FlushAll
    BY <1>2, <2>1 DEF FlushAll, c
  <2>2. CASE FlushPart
    <3>1. PICK k \in 1 .. Length(c) - 1 : wire' = Cut(c, k)
      BY <2>2 DEF FlushPart, c
    <3> QED
      BY <1>2, <1>4, <3>1, CutChunk
  <2> QED
    BY <2>1, <2>2
<1>6. told \/ Stream!Follows(wire, wire')
  BY <1>3, <1>5 DEF Stream!Follows, Stream!Continues, Stream!Begins
<1> QED
  BY <1>1, <1>5, <1>6 DEF IInv, SocketTypeOK, Stream!Next, Stream!Deliver, Stream!Undefined, Chunk

LEMMA NextStep == ASSUME IInv, SocketAssumption, [Next]_vars PROVE [Stream!Next]_<<wire, told>>
<1>1. CASE Open
  BY <1>1 DEF Open, Stream!Next, Stream!NewConnection
<1>2. CASE Close
  <2>1. UNCHANGED wire /\ (told' = told \/ told' = TRUE)
    BY <1>2 DEF Close, Shut, ShutAndDrain, IInv, SocketTypeOK
  <2> QED
    BY <2>1 DEF Stream!Next, Stream!Report
<1>3. CASE Send
  BY <1>3, SendStep DEF Send
<1>4. CASE FlushAll \/ FlushPart
  BY <1>4, FlushStep
<1>5. CASE FlushFails \/ RecvFails
  BY <1>5 DEF FlushFails, RecvFails, IndicateError, Stream!Next, Stream!Report
<1>6. CASE Recreate \/ DoWork \/ FlushWaits \/ FlushEnds \/ RecvEnds \/ UNCHANGED vars
  BY <1>6 DEF Recreate, DoWork, FlushWaits, FlushEnds, RecvEnds, vars
<1> QED
  BY <1>1, <1>2, <1>3, <1>4, <1>5, <1>6 DEF Next

\* However sends are cut, queued and refused, and whatever the callbacks do in
\* between, the network is handed whole packets in order, unless the user has been
\* told: the socket transport implements the packet stream.
THEOREM StreamImplemented == Spec => HandsOverWholePackets
<1>1. Init => Stream!Init
  BY DEF Init, Stream!Init
<1>2. IInv /\ [Next]_vars => [Stream!Next]_<<wire, told>>
  BY SocketAssumption, NextStep
<1> QED
  BY <1>1, <1>2, Inductive, PTL DEF Spec, HandsOverWholePackets, Stream!Spec
=============================================================================
