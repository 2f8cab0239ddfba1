------------------------------ MODULE MqttCodec ------------------------------
(***************************************************************************)
(* mqtt_codec.c, the receive side: mqtt_codec_bytesReceived assembles      *)
(* packets from the bytes of one recv after the other, keeping its place   *)
(* in MQTTCODEC_INSTANCE; and constructFixedHeader, the encoding it must   *)
(* be the inverse of.  The codec lives as long as the client: it is not    *)
(* told of the end of a connection.                                        *)
(***************************************************************************)
EXTENDS Naturals, Sequences

CONSTANTS
    Radix,        \* NEXT_128_CHUNK: 128; a byte from Radix up announces another
    FlagMod,      \* the flags are the low half of the first byte: 16
    PINGRESP,     \* PINGRESP_TYPE
    Headers,      \* the first bytes the broker sends
    Lengths,      \* the remaining lengths of its packets
    ChunkSize,    \* RECEIVE_BYTES_VALUE: the bytes of one recv, 64
    MaxPackets,   \* bound on the packets of a connection
    MaxResets,    \* bound on the connections lost
    AnyReset,     \* a connection may be lost inside a packet
    MaxMemFaults  \* bound on the failures of BUFFER_new and BUFFER_pre_build

Byte == 0 .. 2 * Radix - 1

ASSUME CodecAssumption ==
    /\ Radix \in Nat \ {0, 1}
    /\ FlagMod \in 1 .. Radix
    /\ Headers \subseteq Byte
    /\ PINGRESP \in Byte /\ PINGRESP % FlagMod = 0
    /\ Lengths \subseteq 1 .. Radix * Radix * Radix - 1
    /\ ChunkSize \in Nat \ {0}
    /\ {MaxPackets, MaxResets, MaxMemFaults} \subseteq Nat
    /\ AnyReset \in BOOLEAN

\* Values of CONTROL_PACKET_TYPE that are no byte of the wire.
UNKNOWN_TYPE      == 2 * Radix
PACKET_TYPE_ERROR == 2 * Radix + 1

(***************************************************************************)
(* MQTTCODEC_INSTANCE.  storeRemainLen: its first remainLenIndex bytes;    *)
(* size: the length of headerData, 0 if it is NULL; built: its memory was  *)
(* allocated; data: the bufferOffset bytes stored.  "UNDEFINED": a digit   *)
(* was written behind storeRemainLen, over remainLenIndex.                 *)
(***************************************************************************)
Codec == [currPacket : Byte \cup {UNKNOWN_TYPE, PACKET_TYPE_ERROR},
          codecState : {"FIXED_HEADER", "VAR_HEADER", "PAYLOAD", "UNDEFINED"},
          headerFlags : 0 .. FlagMod - 1,
          storeRemainLen : Seq(Byte),
          size : Nat, built : BOOLEAN, data : Seq(Byte)]

\* mqtt_codec_create
NewCodec == [currPacket |-> UNKNOWN_TYPE, codecState |-> "FIXED_HEADER", headerFlags |-> 0,
             storeRemainLen |-> <<>>, size |-> 0, built |-> TRUE, data |-> <<>>]

PacketType(b) == b - (b % FlagMod)
\* Defect: the packet type is left in the flags.
Unmasked(b)   == b
FlagValue(b)  == b % FlagMod

-----------------------------------------------------------------------------
\* constructFixedHeader: the remaining length, least significant digit first, in the
\* at most four bytes of remainSize.
EncodeLength(n) ==
    LET more(d) == Radix + (d % Radix)
        n1 == n \div Radix
        n2 == n1 \div Radix
        n3 == n2 \div Radix
    IN  IF n1 = 0 THEN <<n>>
        ELSE IF n2 = 0 THEN <<more(n), n1>>
        ELSE IF n3 = 0 THEN <<more(n), more(n1), n2>>
        ELSE <<more(n), more(n1), more(n2), n3>>

Encode(p) == <<p.type + p.flags>> \o EncodeLength(Len(p.body)) \o p.body

\* The bytes of a body; its contents do not matter, their order does.
Body(n) == [i \in 1 .. n |-> i % Radix]

Packets ==
    {p \in [type : {PacketType(b) : b \in Headers}, flags : {FlagValue(b) : b \in Headers},
            body : {Body(n) : n \in Lengths \cup {0}}] :
        /\ p.type + p.flags \in Headers
        /\ p.body = <<>> <=> p.type = PINGRESP}

-----------------------------------------------------------------------------
\* prepareheaderDataInfo: the digits are summed up when the last one is there.
\* storeRemainLen has room for four, and nothing keeps a fifth out of it.
RoomForDigits == 4

Digit(digits, i) == IF i <= Len(digits) THEN digits[i] % Radix ELSE 0
TotalLen(digits) ==
    Digit(digits, 1) + Radix * (Digit(digits, 2) + Radix *
        (Digit(digits, 3) + Radix * Digit(digits, 4)))

LastDigit(b) == b < Radix

\* Four digits are one too many; mem is what BUFFER_new and BUFFER_pre_build do.
LengthFails(c, b, mem) ==
    LET digits == Append(c.storeRemainLen, b)
    IN  /\ LastDigit(b) /\ Len(digits) <= RoomForDigits
        /\ Len(digits) > 3 \/ (TotalLen(digits) > 0 /\ mem # "ok")

\* Defect: the index of the digits is not reset behind the last one.
IndexKept(c, b, mem) ==
    LET digits == Append(c.storeRemainLen, b)
    IN  IF Len(digits) > RoomForDigits THEN [c EXCEPT !.codecState = "UNDEFINED"]
        ELSE IF ~LastDigit(b) THEN [c EXCEPT !.storeRemainLen = digits]
        ELSE [c EXCEPT !.codecState = "VAR_HEADER", !.storeRemainLen = digits,
                       !.size = TotalLen(digits), !.data = <<>>]

PrepareHeaderDataInfo(c, b, mem) ==
    LET digits == Append(c.storeRemainLen, b)
        total  == TotalLen(digits)
        ready  == [c EXCEPT !.codecState = "VAR_HEADER", !.storeRemainLen = <<>>]
    IN  IF Len(digits) > RoomForDigits THEN [c EXCEPT !.codecState = "UNDEFINED"]
        ELSE IF ~LastDigit(b) THEN [c EXCEPT !.storeRemainLen = digits]
        ELSE IF total = 0 THEN ready
        ELSE [ready EXCEPT !.size = IF mem = "noBuffer" THEN 0 ELSE total,
                           !.built = mem # "noMemory", !.data = <<>>]

\* The result of one byte: the codec, the packets completed, success or failure.
Went(c)   == [codec |-> c, packets |-> <<>>, failed |-> FALSE]
Failed(c) == [codec |-> [c EXCEPT !.currPacket = PACKET_TYPE_ERROR],
              packets |-> <<>>, failed |-> TRUE]

\* Defect: headerData is not set to NULL.
BufferKept(c) ==
    [codec |-> [NewCodec EXCEPT !.size = c.size, !.data = c.data],
     packets |-> <<[type |-> c.currPacket, flags |-> c.headerFlags, body |-> c.data]>>,
     failed |-> FALSE]

\* Defect: packetComplete is called only if it is NULL, that is, never.
Undispatched(c) == [codec |-> NewCodec, packets |-> <<>>, failed |-> FALSE]

CompletePacketData(c) ==
    [codec |-> [c EXCEPT !.currPacket = UNKNOWN_TYPE, !.codecState = "FIXED_HEADER",
                         !.headerFlags = 0, !.size = 0, !.built = TRUE, !.data = <<>>],
     packets |-> <<[type |-> c.currPacket, flags |-> c.headerFlags, body |-> c.data]>>,
     failed |-> FALSE]

\* The loop body of mqtt_codec_bytesReceived.
ByteReceived(c, b, mem) ==
    CASE c.codecState = "FIXED_HEADER" /\ c.currPacket = UNKNOWN_TYPE ->
           Went([c EXCEPT !.currPacket = PacketType(b), !.headerFlags = FlagValue(b)])
      [] c.codecState = "FIXED_HEADER" /\ c.currPacket # UNKNOWN_TYPE ->
           LET prepared == PrepareHeaderDataInfo(c, b, mem)
           IN  IF LengthFails(c, b, mem) THEN Failed(prepared)
               ELSE IF c.currPacket = PINGRESP /\ prepared.codecState # "UNDEFINED"
               THEN CompletePacketData(prepared)
               ELSE Went(prepared)
      [] c.codecState = "VAR_HEADER" /\ c.size = 0 ->
           Went([c EXCEPT !.codecState = "PAYLOAD"])
      [] c.codecState = "VAR_HEADER" /\ c.size > 0 ->
           LET stored == [c EXCEPT !.data = Append(@, b)]
           IN  IF ~c.built THEN Failed(c)
               ELSE IF Len(stored.data) >= c.size THEN CompletePacketData(stored)
               ELSE Went(stored)
      [] c.codecState = "PAYLOAD" -> Failed(c)

-----------------------------------------------------------------------------
VARIABLES
    codec,      \* MQTTCODEC_INSTANCE
    wire,       \* bytes sent by the broker and not yet received
    chunk,      \* bytes of the current mqtt_codec_bytesReceived still to be taken
    sent, got,  \* history: the packets sent and dispatched on this connection
    resets, memFaults

vars == <<codec, wire, chunk, sent, got, resets, memFaults>>

Init ==
    /\ codec = NewCodec
    /\ wire = <<>> /\ chunk = <<>> /\ sent = <<>> /\ got = <<>>
    /\ resets = 0 /\ memFaults = 0

BrokerSends ==
    /\ Len(sent) < MaxPackets
    /\ \E p \in Packets : sent' = Append(sent, p) /\ wire' = wire \o Encode(p)
    /\ UNCHANGED <<codec, chunk, got, resets, memFaults>>

\* socketio_dowork or decode_ssl_received_bytes hands over what recv returned.
Receive ==
    /\ chunk = <<>> /\ wire # <<>>
    /\ \E n \in 1 .. ChunkSize :
          /\ n <= Len(wire)
          /\ chunk' = SubSeq(wire, 1, n)
          /\ wire' = SubSeq(wire, n + 1, Len(wire))
    /\ UNCHANGED <<codec, sent, got, resets, memFaults>>

\* onBytesReceived closes the connection when mqtt_codec_bytesReceived fails.
TakeByte ==
    /\ chunk # <<>> /\ codec.codecState # "UNDEFINED"
    /\ \E mem \in {"ok", "noBuffer", "noMemory"} :
          LET r == ByteReceived(codec, Head(chunk), mem)
          IN  /\ mem # "ok" => memFaults < MaxMemFaults
              /\ memFaults' = IF mem = "ok" THEN memFaults ELSE memFaults + 1
              /\ codec' = r.codec
              /\ IF r.failed
                 THEN chunk' = <<>> /\ wire' = <<>> /\ sent' = <<>> /\ got' = <<>>
                 ELSE /\ chunk' = Tail(chunk)
                      /\ got' = got \o r.packets
                      /\ UNCHANGED <<wire, sent>>
    /\ UNCHANGED resets

AtBoundary == codec.codecState = "FIXED_HEADER" /\ codec.currPacket = UNKNOWN_TYPE

\* The connection is lost and a new one made; the codec is not touched.
Reset ==
    /\ chunk = <<>> /\ resets < MaxResets
    /\ AnyReset \/ AtBoundary
    /\ wire' = <<>> /\ sent' = <<>> /\ got' = <<>>
    /\ resets' = resets + 1
    /\ UNCHANGED <<codec, chunk, memFaults>>

Next == BrokerSends \/ Receive \/ TakeByte \/ Reset

Spec == Init /\ [][Next]_vars /\ WF_vars(Receive) /\ WF_vars(TakeByte)

-----------------------------------------------------------------------------
CodecTypeOK ==
    /\ codec \in Codec
    /\ wire \in Seq(Byte) /\ chunk \in Seq(Byte)
    /\ resets \in 0 .. MaxResets /\ memFaults \in 0 .. MaxMemFaults

Channel == INSTANCE PacketChannel WITH sent <- sent, got <- got

\* SRS_MQTT_CODEC_07_033, 07_034: however recv cuts the bytes, every packet of the
\* connection reaches the client complete, once and in order, and does so in the end.
DeliversPackets == Channel!Spec

\* The safety part of it: nothing is dispatched but the next packet that was sent.
KeepsOrder == Channel!InOrder

\* A state predicate that follows: what was dispatched is a prefix of what was sent.
OnlySentPackets ==
    Len(got) <= Len(sent) /\ \A i \in DOMAIN got : got[i] = sent[i]

\* Nothing is written behind the four bytes of storeRemainLen: no digit of a packet is
\* left over for the next one, whatever failed in between.
DigitsFit == codec.codecState # "UNDEFINED"

\* A codec between two packets carries nothing over into the next one: no digit of a
\* length, no buffer, no flags.
BoundaryIsClean == AtBoundary => codec = NewCodec
=============================================================================
