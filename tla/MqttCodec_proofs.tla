-------------------------- MODULE MqttCodec_proofs --------------------------
(***************************************************************************)
(* The receive side of the codec delivers, for every radix, every set of   *)
(* packets and every way of cutting the stream, exactly the packets that   *)
(* were sent, in order: proved from the fact that decoding a length        *)
(* inverts its encoding, and from an invariant that relates the place of   *)
(* the codec in a packet to what is still under way.                       *)
(***************************************************************************)
EXTENDS MqttCodec, Integers, SequenceTheorems, TLAPS

(***************************************************************************)
(* Digits.                                                                 *)
(***************************************************************************)

\* What the proofs use of the assumption on the constants.
LEMMA Constants ==
    /\ Radix \in Nat \ {0, 1} /\ FlagMod \in Nat \ {0} /\ FlagMod <= Radix
    /\ PINGRESP \in Byte
    /\ MaxResets \in Nat /\ MaxMemFaults \in Nat
BY CodecAssumption DEF Byte

\* Division with remainder, as constructFixedHeader takes a length apart.
LEMMA DivMod ==
    ASSUME NEW n \in Nat, NEW d \in Nat \ {0}
    PROVE  /\ n \div d \in Nat /\ n % d \in Nat /\ n % d < d
           /\ (n % d) + d * (n \div d) = n
           /\ n \div d = 0 <=> n < d
<1> DEFINE m == d * (n \div d)
<1>1. n \div d \in Nat
  BY SMT
<1>2. n % d \in 0 .. d - 1
  BY SMT
<1>3. n % d = n - m
  BY SMT
<1>4. m \in Nat
  BY <1>1
<1>5. n \div d = 0 <=> n < d
  BY SMT
<1> QED
  BY <1>1, <1>2, <1>3, <1>4, <1>5

\* What "encodeByte & 127" leaves of a digit with or without the mark of another.
LEMMA DigitOf ==
    ASSUME NEW d \in Nat, d < Radix
    PROVE  d % Radix = d /\ (Radix + d) % Radix = d
BY Constants, SMT

\* A quotient is smaller than a power of the radix if its dividend is smaller than
\* the next one.
LEMMA QuotientBound ==
    ASSUME NEW r \in Nat, NEW q \in Nat
    PROVE  /\ r + Radix * q < Radix * Radix => q < Radix
           /\ r + Radix * q < Radix * Radix * Radix => q < Radix * Radix
<1>1. r + Radix * q < Radix * Radix => q < Radix
  BY Constants, SMT
<1>2. r + Radix * q < Radix * Radix * Radix => q < Radix * Radix
  BY Constants, SMT
<1> QED
  BY <1>1, <1>2

\* prepareheaderDataInfo computes from the digits that constructFixedHeader writes
\* the length they stand for, and only the last of them ends the length.
THEOREM LengthDecodes ==
    ASSUME NEW n \in Nat, n < Radix * Radix * Radix
    PROVE  /\ EncodeLength(n) \in Seq(Byte)
           /\ Len(EncodeLength(n)) \in 1 .. 3
           /\ \A i \in 1 .. Len(EncodeLength(n)) :
                 LastDigit(EncodeLength(n)[i]) <=> i = Len(EncodeLength(n))
           /\ TotalLen(EncodeLength(n)) = n
<1> DEFINE n1 == n \div Radix  n2 == n1 \div Radix  n3 == n2 \div Radix
           a == n % Radix      b == n1 % Radix      e == EncodeLength(n)
<1>1. Radix \in Nat \ {0} /\ 2 <= Radix
  BY Constants
<1>2. n1 \in Nat /\ a \in Nat /\ a < Radix /\ a + Radix * n1 = n /\ (n1 = 0 <=> n < Radix)
  BY <1>1, DivMod
<1>3. n2 \in Nat /\ b \in Nat /\ b < Radix /\ b + Radix * n2 = n1 /\ (n2 = 0 <=> n1 < Radix)
  BY <1>1, <1>2, DivMod
<1>4. n3 = 0 /\ n2 < Radix
  <2>1. n1 < Radix * Radix
    BY <1>2, QuotientBound
  <2>2. n2 < Radix
    BY <1>3, <2>1, QuotientBound
  <2> QED
    BY <1>1, <1>3, <2>2, DivMod
<1>5. CASE n1 = 0
  <2>1. e = <<n>> /\ n < Radix
    BY <1>2, <1>5 DEF EncodeLength
  <2>2. n % Radix = n
    BY <2>1, DigitOf
  <2>3. TotalLen(e) = n
    BY <2>1, <2>2, <1>1 DEF TotalLen, Digit
  <2> QED
    BY <2>1, <2>3, <1>1 DEF Byte, LastDigit
<1>6. CASE n1 # 0 /\ n2 = 0
  <2>1. e = <<Radix + a, n1>> /\ n1 < Radix
    BY <1>3, <1>6 DEF EncodeLength
  <2>2. (Radix + a) % Radix = a /\ n1 % Radix = n1
    BY <1>2, <2>1, DigitOf
  <2>3. TotalLen(e) = n
    <3>1. Digit(e, 1) = a /\ Digit(e, 2) = n1 /\ Digit(e, 3) = 0 /\ Digit(e, 4) = 0
      BY <2>1, <2>2 DEF Digit
    <3>2. Radix * 0 = 0 /\ n1 + 0 = n1
      BY <1>1, <1>2
    <3>3. TotalLen(e) = a + Radix * n1
      BY <3>1, <3>2 DEF TotalLen
    <3> QED
      BY <3>3, <1>2
  <2> QED
    BY <2>1, <2>3, <1>1, <1>2 DEF Byte, LastDigit
<1>7. CASE n1 # 0 /\ n2 # 0
  <2>1. e = <<Radix + a, Radix + b, n2>>
    BY <1>4, <1>7 DEF EncodeLength
  <2>2. (Radix + a) % Radix = a /\ (Radix + b) % Radix = b /\ n2 % Radix = n2
    BY <1>2, <1>3, <1>4, DigitOf
  <2>3. TotalLen(e) = n
    <3>1. Digit(e, 1) = a /\ Digit(e, 2) = b /\ Digit(e, 3) = n2 /\ Digit(e, 4) = 0
      BY <2>1, <2>2 DEF Digit
    <3>2. Radix * 0 = 0 /\ n2 + 0 = n2
      BY <1>1, <1>3
    <3>3. TotalLen(e) = a + Radix * (b + Radix * n2)
      BY <3>1, <3>2 DEF TotalLen
    <3> QED
      BY <3>3, <1>2, <1>3
  <2> QED
    BY <2>1, <2>3, <1>1, <1>2, <1>3, <1>4 DEF Byte, LastDigit
<1> QED
  BY <1>5, <1>6, <1>7

-----------------------------------------------------------------------------
(***************************************************************************)
(* Sequences.                                                              *)
(***************************************************************************)

\* Taking the first element off a sequence.
LEMMA HeadTail ==
    ASSUME NEW S, NEW s \in Seq(S), s # <<>>
    PROVE  /\ Head(s) = s[1] /\ Head(s) \in S
           /\ Tail(s) \in Seq(S) /\ Len(s) = Len(Tail(s)) + 1
           /\ \A t \in Seq(S) : Head(s \o t) = Head(s) /\ Tail(s \o t) = Tail(s) \o t
<1>1. Head(s) \in S /\ Tail(s) \in Seq(S) /\ Len(Tail(s)) = Len(s) - 1
      /\ \A i \in 1 .. Len(Tail(s)) : Tail(s)[i] = s[i + 1]
  BY HeadTailProperties
<1>2. Len(s) \in Nat /\ Len(s) # 0
  BY SMT
<1>3. Head(s) = s[1]
  BY SMT
<1>4. ASSUME NEW t \in Seq(S)
      PROVE  Head(s \o t) = Head(s) /\ Tail(s \o t) = Tail(s) \o t
  <2> DEFINE u == s \o t  v == Tail(s) \o t
  <2>1. u \in Seq(S) /\ Len(u) = Len(s) + Len(t)
        /\ \A i \in 1 .. Len(s) + Len(t) : u[i] = IF i <= Len(s) THEN s[i] ELSE t[i - Len(s)]
    BY <1>4, ConcatProperties
  <2>2. v \in Seq(S) /\ Len(v) = Len(Tail(s)) + Len(t)
        /\ \A i \in 1 .. Len(Tail(s)) + Len(t) :
              v[i] = IF i <= Len(Tail(s)) THEN Tail(s)[i] ELSE t[i - Len(Tail(s))]
    BY <1>1, <1>4, ConcatProperties
  <2>3. Len(t) \in Nat
    BY <1>4, LenProperties
  <2> HIDE DEF u, v
  <2>4. u # <<>>
    BY <2>1, <2>3, <1>2, EmptySeq
  <2>5. Head(u) = u[1]
    BY <2>1, <2>4
  <2>6. u[1] = s[1]
    BY <2>1, <2>3, <1>2
  <2>7. Tail(u) \in Seq(S) /\ Len(Tail(u)) = Len(u) - 1
        /\ \A i \in 1 .. Len(Tail(u)) : Tail(u)[i] = u[i + 1]
    BY <2>1, <2>4, HeadTailProperties
  <2>8. Len(Tail(u)) = Len(v)
    BY <2>1, <2>2, <2>3, <2>7, <1>1, <1>2
  <2>9. ASSUME NEW i \in 1 .. Len(Tail(u))
        PROVE  Tail(u)[i] = v[i]
    <3> DEFINE n == Len(Tail(s))
    <3>1. n \in Nat /\ Len(s) = n + 1 /\ Len(Tail(u)) = n + Len(t) /\ i \in 1 .. n + Len(t)
      BY <2>1, <2>3, <2>7, <1>1, <1>2
    <3>2. Tail(u)[i] = u[i + 1] /\ i + 1 \in 1 .. Len(s) + Len(t)
      BY <2>3, <2>7, <3>1
    <3>3. CASE i <= n
      <4>1. u[i + 1] = s[i + 1] /\ v[i] = Tail(s)[i] /\ i \in 1 .. n
        BY <2>1, <2>2, <2>3, <3>1, <3>2, <3>3
      <4>2. Tail(s)[i] = s[i + 1]
        BY <1>1, <4>1
      <4> QED
        BY <3>2, <4>1, <4>2
    <3>4. CASE ~(i <= n)
      <4>1. ~(i + 1 <= Len(s)) /\ i + 1 - Len(s) = i - n
        BY <3>1, <3>4
      <4>2. u[i + 1] = t[i - n]
        BY <2>1, <3>2, <4>1
      <4>3. v[i] = t[i - n]
        BY <2>2, <3>1, <3>4
      <4> QED
        BY <3>2, <4>2, <4>3
    <3> QED
      BY <3>3, <3>4
  <2>10. Tail(u) = v
    BY <2>2, <2>7, <2>8, <2>9, SeqEqual
  <2> QED
    BY <2>5, <2>6, <2>10, <1>3 DEF u, v
<1> QED
  BY <1>1, <1>2, <1>3, <1>4

\* An element moved from one part of a sequence to the other leaves the whole alone.
LEMMA MoveElement ==
    ASSUME NEW S, NEW s \in Seq(S), NEW t \in Seq(S), t # <<>>
    PROVE  /\ Append(s, Head(t)) \in Seq(S)
           /\ Append(s, Head(t)) \o Tail(t) = s \o t
           /\ (s \o t)[Len(s) + 1] = Head(t)
<1> DEFINE h == Head(t)  r == Tail(t)
<1>1. h \in S /\ r \in Seq(S) /\ h = t[1] /\ Len(t) = Len(r) + 1
  BY HeadTail
<1>2. \A i \in 1 .. Len(r) : r[i] = t[i + 1]
  BY HeadTailProperties
<1>3. Len(s) \in Nat /\ Len(t) \in Nat /\ Len(r) \in Nat
  BY <1>1, LenProperties
<1> DEFINE a == Append(s, h)
<1> HIDE DEF h, r
<1>4. a \in Seq(S) /\ Len(a) = Len(s) + 1 /\ (\A i \in 1 .. Len(s) : a[i] = s[i])
      /\ a[Len(s) + 1] = h
  BY <1>1, AppendProperties
<1> DEFINE u == a \o r  v == s \o t
<1> HIDE DEF a
<1>5. u \in Seq(S) /\ Len(u) = Len(a) + Len(r)
      /\ \A i \in 1 .. Len(a) + Len(r) : u[i] = IF i <= Len(a) THEN a[i] ELSE r[i - Len(a)]
  BY <1>1, <1>4, ConcatProperties
<1>6. v \in Seq(S) /\ Len(v) = Len(s) + Len(t)
      /\ \A i \in 1 .. Len(s) + Len(t) : v[i] = IF i <= Len(s) THEN s[i] ELSE t[i - Len(s)]
  BY ConcatProperties
<1> HIDE DEF u, v
<1>7. Len(u) = Len(v)
  BY <1>1, <1>3, <1>4, <1>5, <1>6
<1>8. ASSUME NEW i \in 1 .. Len(u)
      PROVE  u[i] = v[i]
  <2>1. CASE i <= Len(s)
    BY <2>1, <1>3, <1>4, <1>5, <1>6, <1>7
  <2>2. CASE i = Len(s) + 1
    BY <2>2, <1>1, <1>3, <1>4, <1>5, <1>6, <1>7
  <2>3. CASE i > Len(s) + 1
    <3>1. u[i] = r[i - (Len(s) + 1)]
      BY <2>3, <1>3, <1>4, <1>5
    <3>2. i - (Len(s) + 1) \in 1 .. Len(r)
      BY <2>3, <1>1, <1>3, <1>4, <1>5
    <3>3. r[i - (Len(s) + 1)] = t[i - (Len(s) + 1) + 1]
      BY <3>2, <1>2
    <3>4. v[i] = t[i - Len(s)]
      BY <2>3, <1>3, <1>6, <1>7
    <3>5. i - (Len(s) + 1) + 1 = i - Len(s)
      BY <1>3
    <3> QED
      BY <3>1, <3>3, <3>4, <3>5
  <2> QED
    BY <2>1, <2>2, <2>3, <1>3
<1>9. u = v
  BY <1>5, <1>6, <1>7, <1>8, SeqEqual
<1>10. v[Len(s) + 1] = h
  BY <1>1, <1>3, <1>6
<1> QED
  BY <1>4, <1>9, <1>10 DEF a, u, v, h, r

\* A recv takes bytes off the front of what is under way, and none is lost.
LEMMA CutSeq ==
    ASSUME NEW S, NEW s \in Seq(S), NEW n \in 1 .. Len(s)
    PROVE  /\ SubSeq(s, 1, n) \in Seq(S) /\ SubSeq(s, n + 1, Len(s)) \in Seq(S)
           /\ SubSeq(s, 1, n) \o SubSeq(s, n + 1, Len(s)) = s
<1>1. Len(s) \in Nat /\ \A i \in 1 .. Len(s) : s[i] \in S
  BY LenProperties, ElementOfSeq
<1>2. SubSeq(s, 1, n) \in Seq(S) /\ SubSeq(s, n + 1, Len(s)) \in Seq(S)
  BY <1>1, SubSeqProperties
<1>3. 1 \in 1 .. Len(s) + 1 /\ n \in 1 - 1 .. Len(s) /\ Len(s) \in n .. Len(s)
  BY <1>1
<1>4. SubSeq(s, 1, n) \o SubSeq(s, n + 1, Len(s)) = SubSeq(s, 1, Len(s))
  BY <1>3, ConcatAdjacentSubSeq
<1>5. SubSeq(s, 1, Len(s)) = s
  BY SubSeqFull
<1> QED
  BY <1>2, <1>4, <1>5

-----------------------------------------------------------------------------
(***************************************************************************)
(* Packets and their bytes.                                                *)
(***************************************************************************)

\* A body of n bytes is a sequence of that length.
LEMMA BodyIsSeq ==
    ASSUME NEW n \in Nat
    PROVE  Body(n) \in Seq(Byte) /\ Len(Body(n)) = n
<1>1. \A i \in 1 .. n : i % Radix \in Byte
  BY Constants, SMT DEF Byte
<1>2. Body(n) \in [1 .. n -> Byte]
  BY <1>1 DEF Body
<1>3. Body(n) \in Seq(Byte)
  BY <1>2
<1>4. DOMAIN Body(n) = 1 .. n
  BY DEF Body
<1>5. Len(Body(n)) \in Nat /\ DOMAIN Body(n) = 1 .. Len(Body(n))
  BY <1>3, LenProperties
<1> HIDE DEF Body
<1> QED
  BY <1>3, <1>4, <1>5

\* The low part of a byte is what is added to a byte without one.
LEMMA LowPart ==
    ASSUME NEW n \in Nat, NEW d \in Nat \ {0}, NEW f \in 0 .. d - 1
    PROVE  ((n - (n % d)) + f) % d = f
<1>1. n % d \in Nat /\ n \div d \in Nat /\ (n % d) + d * (n \div d) = n
  BY DivMod
<1>2. d * (n \div d) \in Nat
  BY <1>1
<1>3. n - (n % d) = d * (n \div d)
  BY <1>1, <1>2
<1>4. \A q \in Nat : (d * q + f) % d = f
  BY SMT
<1> QED
  BY <1>1, <1>3, <1>4

\* processControlPacketType takes the first byte apart as the sender put it together.
LEMMA FirstByte ==
    ASSUME NEW b \in Byte, NEW f \in 0 .. FlagMod - 1
    PROVE  /\ PacketType(b) \in Byte /\ FlagValue(b) \in 0 .. FlagMod - 1
           /\ FlagValue(PacketType(b) + f) = f
           /\ PacketType(PacketType(b) + f) = PacketType(b)
<1>1. b \in Nat /\ f \in Nat /\ f < FlagMod /\ FlagMod \in Nat \ {0}
  BY Constants DEF Byte
<1>2. b % FlagMod \in Nat /\ b % FlagMod < FlagMod /\ b % FlagMod <= b
  <2>1. b % FlagMod \in Nat /\ b % FlagMod < FlagMod /\ b \div FlagMod \in Nat
        /\ (b % FlagMod) + FlagMod * (b \div FlagMod) = b
    BY <1>1, DivMod
  <2>2. FlagMod * (b \div FlagMod) \in Nat
    BY <2>1, <1>1
  <2> QED
    BY <2>1, <2>2, <1>1
<1>3. ((b - (b % FlagMod)) + f) % FlagMod = f
  BY <1>1, LowPart
<1>4. PacketType(b) \in Byte /\ FlagValue(b) \in 0 .. FlagMod - 1
  BY <1>1, <1>2, Constants DEF PacketType, FlagValue, Byte
<1>5. FlagValue(PacketType(b) + f) = f
  BY <1>3 DEF PacketType, FlagValue
<1>6. PacketType(PacketType(b) + f) = PacketType(b)
  <2> DEFINE x == b - (b % FlagMod)
  <2>1. PacketType(x + f) = (x + f) - f
    BY <1>3 DEF PacketType
  <2>2. x \in Int
    BY <1>1, <1>2
  <2>3. (x + f) - f = x
    BY <2>2, <1>1
  <2> QED
    BY <2>1, <2>3 DEF PacketType
<1> QED
  BY <1>4, <1>5, <1>6

\* What the proofs use of a packet of the broker.
LEMMA PacketFields ==
    ASSUME NEW p \in Packets
    PROVE  /\ p = [type |-> p.type, flags |-> p.flags, body |-> p.body]
           /\ p.type \in Byte /\ p.flags \in 0 .. FlagMod - 1
           /\ p.type + p.flags \in Byte
           /\ PacketType(p.type + p.flags) = p.type /\ FlagValue(p.type + p.flags) = p.flags
           /\ p.body \in Seq(Byte)
           /\ Len(p.body) \in Nat /\ Len(p.body) < Radix * Radix * Radix
           /\ p.body = <<>> <=> p.type = PINGRESP
<1>1. p \in [type : {PacketType(b) : b \in Headers}, flags : {FlagValue(b) : b \in Headers},
             body : {Body(n) : n \in Lengths \cup {0}}]
      /\ p.type + p.flags \in Headers
      /\ (p.body = <<>> <=> p.type = PINGRESP)
  BY DEF Packets
<1>2. PICK b \in Headers : p.type = PacketType(b)
  BY <1>1
<1>3. PICK c \in Headers : p.flags = FlagValue(c)
  BY <1>1
<1>4. PICK n \in Lengths \cup {0} : p.body = Body(n)
  BY <1>1
<1>5. b \in Byte /\ c \in Byte /\ p.type + p.flags \in Byte
  BY <1>1, CodecAssumption
<1>6. p.flags \in 0 .. FlagMod - 1
  BY <1>3, <1>5, Constants, FirstByte
<1>7. PacketType(b) \in Byte /\ FlagValue(PacketType(b) + p.flags) = p.flags
      /\ PacketType(PacketType(b) + p.flags) = PacketType(b)
  BY <1>5, <1>6, FirstByte
<1>8. n \in Nat /\ n < Radix * Radix * Radix
  <2>1. Radix * Radix * Radix \in Nat /\ 0 < Radix * Radix * Radix
    BY Constants, SMT
  <2>2. n \in 1 .. Radix * Radix * Radix - 1 \/ n = 0
    BY CodecAssumption
  <2> QED
    BY <2>1, <2>2
<1>9. p.body \in Seq(Byte) /\ Len(p.body) = n
  BY <1>4, <1>8, BodyIsSeq
<1>10. p = [type |-> p.type, flags |-> p.flags, body |-> p.body]
  BY <1>1
<1> QED
  BY <1>1, <1>2, <1>5, <1>6, <1>7, <1>8, <1>9, <1>10

\* The bytes of a packet: the first, the length and the body.
LEMMA EncodeParts ==
    ASSUME NEW p \in Packets
    PROVE  /\ EncodeLength(Len(p.body)) \in Seq(Byte)
           /\ EncodeLength(Len(p.body)) # <<>>
           /\ Encode(p) \in Seq(Byte) /\ Encode(p) # <<>>
           /\ Head(Encode(p)) = p.type + p.flags
           /\ Tail(Encode(p)) = EncodeLength(Len(p.body)) \o p.body
<1> DEFINE h == <<p.type + p.flags>>  e == EncodeLength(Len(p.body))
<1>1. p.type + p.flags \in Byte /\ p.body \in Seq(Byte)
  BY PacketFields
<1>2. e \in Seq(Byte) /\ Len(e) \in 1 .. 3
  BY PacketFields, LengthDecodes
<1>3. h \in Seq(Byte) /\ h # <<>> /\ Head(h) = p.type + p.flags /\ Tail(h) = <<>>
  BY <1>1
<1> DEFINE t == e \o p.body
<1> HIDE DEF h, e
<1>4. t \in Seq(Byte)
  BY <1>1, <1>2, ConcatProperties
<1>5. Encode(p) = h \o t
  <2>1. Encode(p) = (h \o e) \o p.body
    BY DEF Encode, h, e
  <2>2. \A x \in Seq(Byte) : (h \o e) \o x = h \o (e \o x)
    BY <1>2, <1>3, ConcatAssociative
  <2>3. (h \o e) \o p.body = h \o (e \o p.body)
    BY <1>1, <2>2
  <2> QED
    BY <2>1, <2>3
<1> HIDE DEF t
<1>6. Head(h \o t) = Head(h) /\ Tail(h \o t) = Tail(h) \o t
  BY <1>3, <1>4, HeadTail
<1>7. <<>> \o t = t
  BY <1>4, ConcatEmptySeq
<1>8. h \o t \in Seq(Byte) /\ Len(h \o t) = Len(h) + Len(t) /\ Len(h) \in Nat \ {0}
      /\ Len(t) \in Nat
  BY <1>3, <1>4, ConcatProperties, LenProperties, EmptySeq
<1>9. h \o t # <<>>
  BY <1>8, EmptySeq
<1>10. e # <<>>
  BY <1>2, EmptySeq
<1> QED
  BY <1>2, <1>3, <1>5, <1>6, <1>7, <1>8, <1>9, <1>10 DEF e, t

-----------------------------------------------------------------------------
(***************************************************************************)
(* Types.                                                                  *)
(***************************************************************************)

\* The sum of any digits is a number.
LEMMA TotalLenType ==
    ASSUME NEW digits \in Seq(Byte)
    PROVE  TotalLen(digits) \in Nat
<1>1. ASSUME NEW i \in 1 .. 4
      PROVE  Digit(digits, i) \in Nat
  <2>1. CASE i <= Len(digits)
    <3>1. Len(digits) \in Nat
      BY LenProperties
    <3>2. i \in 1 .. Len(digits)
      BY <2>1, <3>1
    <3>3. digits[i] \in Nat
      BY <3>2, ElementOfSeq, Constants DEF Byte
    <3>4. digits[i] % Radix \in Nat
      BY <3>3, Constants, DivMod
    <3> QED
      BY <2>1, <3>4 DEF Digit
  <2>2. CASE ~(i <= Len(digits))
    BY <2>2 DEF Digit
  <2> QED
    BY <2>1, <2>2
<1>2. Digit(digits, 1) \in Nat /\ Digit(digits, 2) \in Nat
      /\ Digit(digits, 3) \in Nat /\ Digit(digits, 4) \in Nat
  BY <1>1
<1>3. \A x, y \in Nat : x + Radix * y \in Nat
  BY Constants
<1> QED
  BY <1>2, <1>3 DEF TotalLen

\* Every byte leaves the codec in a state of its type, whatever state it was in.
LEMMA ByteReceivedType ==
    ASSUME NEW c \in Codec, NEW b \in Byte, NEW mem \in {"ok", "noBuffer", "noMemory"},
           c.codecState # "UNDEFINED"
    PROVE  ByteReceived(c, b, mem).codec \in Codec
<1> DEFINE digits == Append(c.storeRemainLen, b)  total == TotalLen(digits)
           prepared == PrepareHeaderDataInfo(c, b, mem)
           stored == [c EXCEPT !.data = Append(@, b)]
           r == ByteReceived(c, b, mem)
<1>1. /\ c.currPacket \in Byte \cup {UNKNOWN_TYPE, PACKET_TYPE_ERROR}
      /\ c.codecState \in {"FIXED_HEADER", "VAR_HEADER", "PAYLOAD"}
      /\ c.headerFlags \in 0 .. FlagMod - 1 /\ c.storeRemainLen \in Seq(Byte)
      /\ c.size \in Nat /\ c.built \in BOOLEAN /\ c.data \in Seq(Byte)
  BY DEF Codec
<1>2. digits \in Seq(Byte) /\ Append(c.data, b) \in Seq(Byte) /\ <<>> \in Seq(Byte)
  BY <1>1, AppendProperties, EmptySeq
<1>3. total \in Nat
  BY <1>2, TotalLenType
<1>4. 0 \in 0 .. FlagMod - 1
  BY Constants
<1>5. ASSUME NEW d \in Codec
      PROVE  /\ Went(d).codec \in Codec
             /\ Failed(d).codec \in Codec
             /\ CompletePacketData(d).codec \in Codec
  BY <1>2, <1>4 DEF Went, Failed, CompletePacketData, Codec
<1> HIDE DEF digits, total
<1>6. prepared \in Codec
  <2> DEFINE room == Len(digits) <= RoomForDigits
  <2>0. Len(digits) \in Nat /\ RoomForDigits \in Nat
    BY <1>2, LenProperties DEF RoomForDigits
  <2>1. CASE room /\ ~LastDigit(b)
    <3>1. prepared = [c EXCEPT !.storeRemainLen = digits]
      BY <2>0, <2>1 DEF PrepareHeaderDataInfo, digits
    <3> QED
      BY <3>1, <1>2 DEF Codec
  <2>2. CASE room /\ LastDigit(b) /\ total = 0
    <3>1. prepared = [c EXCEPT !.codecState = "VAR_HEADER", !.storeRemainLen = <<>>]
      BY <2>0, <2>2 DEF PrepareHeaderDataInfo, digits, total
    <3> QED
      BY <3>1, <1>2 DEF Codec
  <2>3. CASE room /\ LastDigit(b) /\ total # 0
    <3> DEFINE size == IF mem = "noBuffer" THEN 0 ELSE total
    <3>1. prepared = [[c EXCEPT !.codecState = "VAR_HEADER", !.storeRemainLen = <<>>]
                         EXCEPT !.size = size, !.built = mem # "noMemory", !.data = <<>>]
      BY <2>0, <2>3 DEF PrepareHeaderDataInfo, digits, total
    <3>2. size \in Nat /\ (mem # "noMemory") \in BOOLEAN
      BY <1>3
    <3> HIDE DEF size
    <3> QED
      BY <3>1, <3>2, <1>2 DEF Codec
  <2>4. CASE ~room
    <3>1. prepared = [c EXCEPT !.codecState = "UNDEFINED"]
      BY <2>0, <2>4 DEF PrepareHeaderDataInfo, digits
    <3> QED
      BY <3>1 DEF Codec
  <2> QED
    BY <2>1, <2>2, <2>3, <2>4
<1>7. stored \in Codec
  BY <1>2 DEF Codec
<1>8. CASE c.codecState = "FIXED_HEADER" /\ c.currPacket = UNKNOWN_TYPE
  <2>1. r = Went([c EXCEPT !.currPacket = PacketType(b), !.headerFlags = FlagValue(b)])
    BY <1>8 DEF ByteReceived
  <2>2. PacketType(b) \in Byte /\ FlagValue(b) \in 0 .. FlagMod - 1
    BY <1>4, FirstByte
  <2>3. [c EXCEPT !.currPacket = PacketType(b), !.headerFlags = FlagValue(b)] \in Codec
    BY <2>2 DEF Codec
  <2> QED
    BY <2>1, <2>3, <1>5
<1>9. CASE c.codecState = "FIXED_HEADER" /\ c.currPacket # UNKNOWN_TYPE
  <2>1. r = IF LengthFails(c, b, mem) THEN Failed(prepared)
            ELSE IF c.currPacket = PINGRESP /\ prepared.codecState # "UNDEFINED"
            THEN CompletePacketData(prepared)
            ELSE Went(prepared)
    BY <1>9 DEF ByteReceived
  <2> HIDE DEF r, prepared
  <2>2. r \in {Failed(prepared), CompletePacketData(prepared), Went(prepared)}
    BY <2>1
  <2> QED
    BY <2>2, <1>5, <1>6 DEF r
<1>10. CASE c.codecState = "VAR_HEADER" /\ c.size = 0
  <2>1. r = Went([c EXCEPT !.codecState = "PAYLOAD"])
    BY <1>10 DEF ByteReceived
  <2>2. [c EXCEPT !.codecState = "PAYLOAD"] \in Codec
    BY DEF Codec
  <2> QED
    BY <2>1, <2>2, <1>5
<1>11. CASE c.codecState = "VAR_HEADER" /\ c.size > 0
  <2>1. r = IF ~c.built THEN Failed(c)
            ELSE IF Len(stored.data) >= c.size THEN CompletePacketData(stored)
            ELSE Went(stored)
    BY <1>1, <1>11 DEF ByteReceived
  <2> HIDE DEF r, stored
  <2>2. r \in {Failed(c), CompletePacketData(stored), Went(stored)}
    BY <2>1
  <2> QED
    BY <2>2, <1>5, <1>7 DEF r
<1>12. CASE c.codecState = "PAYLOAD"
  <2>1. r = Failed(c)
    BY <1>12 DEF ByteReceived
  <2> QED
    BY <2>1, <1>5
<1> QED
  BY <1>1, <1>8, <1>9, <1>10, <1>11, <1>12

\* MQTTCODEC_INSTANCE keeps its type on any stream of bytes, in step or not, however
\* connections are lost and allocations fail.
THEOREM CodecTypes == Spec => []CodecTypeOK
<1>1. Init => CodecTypeOK
  <2>1. 0 \in 0 .. FlagMod - 1 /\ 0 \in 0 .. MaxResets /\ 0 \in 0 .. MaxMemFaults
    BY Constants
  <2>2. <<>> \in Seq(Byte)
    BY EmptySeq
  <2> QED
    BY <2>1, <2>2 DEF Init, CodecTypeOK, Codec, NewCodec
<1>2. CodecTypeOK /\ [Next]_vars => CodecTypeOK'
  <2> SUFFICES ASSUME CodecTypeOK, [Next]_vars
               PROVE  CodecTypeOK'
    OBVIOUS
  <2>0. codec \in Codec /\ wire \in Seq(Byte) /\ chunk \in Seq(Byte)
        /\ resets \in 0 .. MaxResets /\ memFaults \in 0 .. MaxMemFaults /\ <<>> \in Seq(Byte)
    BY EmptySeq DEF CodecTypeOK
  <2>1. CASE BrokerSends
    <3>1. PICK p \in Packets : wire' = wire \o Encode(p)
      BY <2>1 DEF BrokerSends
    <3>2. wire' \in Seq(Byte)
      BY <2>0, <3>1, EncodeParts, ConcatProperties
    <3> QED
      BY <2>0, <2>1, <3>2 DEF BrokerSends, CodecTypeOK
  <2>2. CASE Receive
    <3>1. PICK n \in 1 .. ChunkSize :
             /\ n <= Len(wire)
             /\ chunk' = SubSeq(wire, 1, n) /\ wire' = SubSeq(wire, n + 1, Len(wire))
      BY <2>2 DEF Receive
    <3>2. n \in 1 .. Len(wire)
      BY <2>0, <3>1, LenProperties
    <3>3. chunk' \in Seq(Byte) /\ wire' \in Seq(Byte)
      BY <2>0, <3>1, <3>2, CutSeq
    <3> QED
      BY <2>0, <2>2, <3>3 DEF Receive, CodecTypeOK
  <2>3. CASE TakeByte
    <3>1. PICK mem \in {"ok", "noBuffer", "noMemory"} :
             LET r == ByteReceived(codec, Head(chunk), mem)
             IN  /\ mem # "ok" => memFaults < MaxMemFaults
                 /\ memFaults' = IF mem = "ok" THEN memFaults ELSE memFaults + 1
                 /\ codec' = r.codec
                 /\ IF r.failed THEN chunk' = <<>> /\ wire' = <<>>
                    ELSE chunk' = Tail(chunk) /\ wire' = wire
      BY <2>3 DEF TakeByte
    <3>2. chunk # <<>> /\ resets' = resets /\ codec.codecState # "UNDEFINED"
      BY <2>3 DEF TakeByte
    <3>3. Head(chunk) \in Byte /\ Tail(chunk) \in Seq(Byte)
      BY <2>0, <3>2, HeadTail
    <3>4. codec' \in Codec
      BY <2>0, <3>1, <3>2, <3>3, ByteReceivedType
    <3>5. memFaults' \in 0 .. MaxMemFaults
      BY <2>0, <3>1, Constants
    <3>6. chunk' \in Seq(Byte) /\ wire' \in Seq(Byte)
      BY <2>0, <3>1, <3>3
    <3> QED
      BY <2>0, <3>2, <3>4, <3>5, <3>6 DEF CodecTypeOK
  <2>4. CASE Reset
    <3>1. resets' \in 0 .. MaxResets
      BY <2>0, <2>4, Constants DEF Reset
    <3> QED
      BY <2>0, <2>4, <3>1 DEF Reset, CodecTypeOK
  <2>5. CASE UNCHANGED vars
    BY <2>5 DEF vars, CodecTypeOK
  <2> QED
    BY <2>1, <2>2, <2>3, <2>4, <2>5 DEF Next
<1> QED
  BY <1>1, <1>2, PTL DEF Spec

-----------------------------------------------------------------------------
(***************************************************************************)
(* The place of the codec in a packet.                                     *)
(***************************************************************************)

\* The codec has the first byte and the given digits of the length of packet p.
HeaderRead(p, digits) ==
    [currPacket |-> p.type, codecState |-> "FIXED_HEADER", headerFlags |-> p.flags,
     storeRemainLen |-> digits, size |-> 0, built |-> TRUE, data |-> <<>>]

\* It has the header and the given bytes of the body.
BodyRead(p, bytes) ==
    [currPacket |-> p.type, codecState |-> "VAR_HEADER", headerFlags |-> p.flags,
     storeRemainLen |-> <<>>, size |-> Len(p.body), built |-> TRUE, data |-> bytes]

\* An allocation has failed: the codec fails at the next byte or the one after, and
\* never completes a packet again.
Broken(c) ==
    /\ c.currPacket = PACKET_TYPE_ERROR
    /\ \/ c.codecState = "PAYLOAD"
       \/ c.codecState = "VAR_HEADER" /\ (c.size = 0 \/ ~c.built)

Mem == {"ok", "noBuffer", "noMemory"}

Completed(p) == [codec |-> NewCodec, packets |-> <<p>>, failed |-> FALSE]

\* A broken codec dispatches nothing and stays broken.
LEMMA BrokenByte ==
    ASSUME NEW c \in Codec, NEW b \in Byte, NEW mem \in Mem, Broken(c)
    PROVE  /\ Broken(ByteReceived(c, b, mem).codec)
           /\ ByteReceived(c, b, mem).packets = <<>>
<1> DEFINE r == ByteReceived(c, b, mem)
<1>1. CASE c.codecState = "VAR_HEADER" /\ c.size = 0
  <2>1. r = Went([c EXCEPT !.codecState = "PAYLOAD"])
    BY <1>1 DEF ByteReceived
  <2>2. Broken([c EXCEPT !.codecState = "PAYLOAD"])
    BY DEF Broken, Codec
  <2> QED
    BY <2>1, <2>2 DEF Went
<1>2. CASE c.codecState = "VAR_HEADER" /\ c.size # 0 /\ ~c.built
  <2>1. c.size > 0
    BY <1>2 DEF Codec
  <2>2. r = Failed(c)
    BY <1>2, <2>1 DEF ByteReceived
  <2>3. Broken([c EXCEPT !.currPacket = PACKET_TYPE_ERROR])
    BY <1>2 DEF Broken, Codec
  <2> QED
    BY <2>2, <2>3 DEF Failed
<1>3. CASE c.codecState = "PAYLOAD"
  <2>1. r = Failed(c)
    BY <1>3 DEF ByteReceived
  <2>2. Broken([c EXCEPT !.currPacket = PACKET_TYPE_ERROR])
    BY <1>3 DEF Broken, Codec
  <2> QED
    BY <2>1, <2>2 DEF Failed
<1> QED
  BY <1>1, <1>2, <1>3 DEF Broken

\* The first byte of a packet.
LEMMA HeaderByte ==
    ASSUME NEW p \in Packets, NEW mem \in Mem
    PROVE  ByteReceived(NewCodec, p.type + p.flags, mem) = Went(HeaderRead(p, <<>>))
<1> DEFINE b == p.type + p.flags
<1>1. PacketType(b) = p.type /\ FlagValue(b) = p.flags
  BY PacketFields
<1>2. NewCodec.codecState = "FIXED_HEADER" /\ NewCodec.currPacket = UNKNOWN_TYPE
  BY DEF NewCodec
<1>3. ByteReceived(NewCodec, b, mem)
        = Went([NewCodec EXCEPT !.currPacket = PacketType(b), !.headerFlags = FlagValue(b)])
  BY <1>2 DEF ByteReceived
<1>4. [NewCodec EXCEPT !.currPacket = PacketType(b), !.headerFlags = FlagValue(b)]
        = HeaderRead(p, <<>>)
  <2> DEFINE c == NewCodec
  <2>1. c = [currPacket |-> UNKNOWN_TYPE, codecState |-> "FIXED_HEADER", headerFlags |-> 0,
             storeRemainLen |-> <<>>, size |-> 0, built |-> TRUE, data |-> <<>>]
    BY DEF NewCodec
  <2> DEFINE d == [c EXCEPT !.currPacket = p.type, !.headerFlags = p.flags]
  <2>2. d = [c EXCEPT !.currPacket = p.type, !.headerFlags = p.flags]
    OBVIOUS
  <2> HIDE DEF c, d
  <2>3. d = HeaderRead(p, <<>>)
    BY <2>1, <2>2 DEF HeaderRead
  <2> QED
    BY <1>1, <2>3 DEF c, d
<1> QED
  BY <1>3, <1>4

\* A digit of the length; the last one ends the header, or the packet if it has no
\* body, or breaks the codec if there is no memory for the body.
LEMMA LengthByte ==
    ASSUME NEW p \in Packets, NEW mem \in Mem,
           NEW done \in Seq(Byte), NEW left \in Seq(Byte), left # <<>>,
           EncodeLength(Len(p.body)) = done \o left
    PROVE  LET r == ByteReceived(HeaderRead(p, done), Head(left), mem)
           IN  IF Tail(left) # <<>>
               THEN r = Went(HeaderRead(p, Append(done, Head(left))))
               ELSE IF p.body = <<>> THEN r = Completed(p)
               ELSE \/ r = Went(BodyRead(p, <<>>))
                    \/ r.failed /\ Broken(r.codec) /\ r.packets = <<>>
<1> DEFINE c == HeaderRead(p, done)  b == Head(left)  rest == Tail(left)
           n == Len(p.body)  e == EncodeLength(n)
           digits == Append(done, b)
           prepared == PrepareHeaderDataInfo(c, b, mem)
           r == ByteReceived(c, b, mem)
<1>1. b \in Byte /\ rest \in Seq(Byte) /\ Len(left) = Len(rest) + 1
  BY HeadTail
<1>2. /\ p = [type |-> p.type, flags |-> p.flags, body |-> p.body]
      /\ p.type \in Byte /\ p.body \in Seq(Byte) /\ n \in Nat
      /\ n < Radix * Radix * Radix
      /\ p.body = <<>> <=> p.type = PINGRESP
  BY PacketFields
<1>3. /\ Len(e) \in 1 .. 3 /\ TotalLen(e) = n
      /\ \A i \in 1 .. Len(e) : LastDigit(e[i]) <=> i = Len(e)
  BY <1>2, LengthDecodes
<1>4. Len(done) \in Nat /\ Len(rest) \in Nat /\ Len(e) = Len(done) + Len(left)
  BY <1>1, LenProperties, ConcatProperties
<1>5. e[Len(done) + 1] = b /\ digits \in Seq(Byte) /\ digits \o rest = e
      /\ Len(digits) = Len(done) + 1
  BY <1>1, MoveElement, AppendProperties
<1> HIDE DEF e, digits, b, rest, n
<1>6. LastDigit(b) <=> rest = <<>>
  <2>1. Len(done) + 1 \in 1 .. Len(e) /\ (Len(done) + 1 = Len(e) <=> Len(rest) = 0)
    BY <1>1, <1>4
  <2>2. Len(rest) = 0 <=> rest = <<>>
    BY <1>1, EmptySeq
  <2> QED
    BY <1>3, <1>5, <2>1, <2>2
<1>7. n = 0 <=> p.body = <<>>
  BY <1>2, EmptySeq DEF n
<1>8. r = IF LengthFails(c, b, mem) THEN Failed(prepared)
          ELSE IF p.type = PINGRESP /\ prepared.codecState # "UNDEFINED"
          THEN CompletePacketData(prepared)
          ELSE Went(prepared)
  <2>1. c.codecState = "FIXED_HEADER" /\ c.currPacket = p.type /\ p.type # UNKNOWN_TYPE
    BY <1>2 DEF HeaderRead, UNKNOWN_TYPE, Byte
  <2> QED
    BY <2>1 DEF ByteReceived
<1>9. c.storeRemainLen = done
  BY DEF HeaderRead
<1>14. Len(digits) <= RoomForDigits /\ ~(Len(digits) > RoomForDigits)
  BY <1>1, <1>3, <1>4, <1>5 DEF RoomForDigits
<1>13. c = [currPacket |-> p.type, codecState |-> "FIXED_HEADER", headerFlags |-> p.flags,
           storeRemainLen |-> done, size |-> 0, built |-> TRUE, data |-> <<>>]
  BY DEF HeaderRead
<1> HIDE DEF c, r
<1>10. CASE rest # <<>>
  <2>1. ~LengthFails(c, b, mem)
    BY <1>6, <1>10 DEF LengthFails
  <2>2. p.type # PINGRESP
    <3>1. SUFFICES ASSUME n = 0
                   PROVE  FALSE
      BY <1>2, <1>7
    <3>2. e = <<0>>
      BY <3>1, Constants, DivMod DEF EncodeLength, e
    <3>3. Len(left) # 0 /\ Len(rest) # 0
      BY <1>1, <1>4, <1>10, EmptySeq
    <3> QED
      BY <1>1, <1>4, <3>2, <3>3
  <2>3. prepared = HeaderRead(p, digits)
    <3>1. prepared = [c EXCEPT !.storeRemainLen = digits]
      BY <1>6, <1>9, <1>10, <1>14 DEF PrepareHeaderDataInfo, digits
    <3> HIDE DEF prepared
    <3> QED
      BY <1>13, <3>1 DEF HeaderRead
  <2>4. r = Went(HeaderRead(p, digits))
    BY <1>8, <2>1, <2>2, <2>3
  <2> QED
    BY <1>10, <2>4 DEF c, r, digits, b, rest
<1>11. CASE rest = <<>>
  <2>1. digits = e
    BY <1>5, <1>11, ConcatEmptySeq
  <2>2. TotalLen(digits) = n /\ Len(digits) \in 1 .. 3
    BY <1>3, <2>1
  <2>3. LengthFails(c, b, mem) <=> n > 0 /\ mem # "ok"
    <3>1. LengthFails(c, b, mem) <=> (Len(digits) > 3 \/ (n > 0 /\ mem # "ok"))
      BY <1>6, <1>9, <1>11, <1>14, <2>2 DEF LengthFails, digits
    <3>2. ~(Len(digits) > 3)
      BY <1>5, <2>2
    <3> QED
      BY <3>1, <3>2, Zenon
  <2> DEFINE ready == [c EXCEPT !.codecState = "VAR_HEADER", !.storeRemainLen = <<>>]
  <2>4. prepared = IF n = 0 THEN ready
                   ELSE [ready EXCEPT !.size = IF mem = "noBuffer" THEN 0 ELSE n,
                                      !.built = mem # "noMemory", !.data = <<>>]
    BY <1>6, <1>9, <1>11, <1>14, <2>2 DEF PrepareHeaderDataInfo, digits
  <2>5. ready = [currPacket |-> p.type, codecState |-> "VAR_HEADER", headerFlags |-> p.flags,
                 storeRemainLen |-> <<>>, size |-> 0, built |-> TRUE, data |-> <<>>]
    <3>1. ready = [c EXCEPT !.codecState = "VAR_HEADER", !.storeRemainLen = <<>>]
      OBVIOUS
    <3> HIDE DEF ready
    <3> QED
      BY <3>1, <1>13
  <2> HIDE DEF ready, prepared
  <2>6. CASE n = 0
    <3>1. r = CompletePacketData(ready)
      <4>1. ready.codecState # "UNDEFINED"
        BY <2>5
      <4> QED
        BY <1>2, <1>7, <1>8, <2>3, <2>4, <2>6, <4>1
    <3>2. CompletePacketData(ready).codec = NewCodec
      BY <2>5 DEF CompletePacketData, NewCodec
    <3>3. CompletePacketData(ready).packets = <<p>>
      BY <1>2, <1>7, <2>5, <2>6 DEF CompletePacketData
    <3>4. CompletePacketData(ready) = Completed(p)
      BY <3>2, <3>3 DEF CompletePacketData, Completed
    <3> QED
      BY <1>7, <1>11, <2>6, <3>1, <3>4 DEF c, r, rest, b
  <2>7. CASE n # 0 /\ mem = "ok"
    <3>1. r = Went(prepared)
      BY <1>2, <1>7, <1>8, <2>3, <2>7
    <3>2. prepared = [ready EXCEPT !.size = n, !.built = TRUE, !.data = <<>>]
      BY <2>4, <2>7
    <3>3. prepared = BodyRead(p, <<>>)
      BY <2>5, <3>2 DEF BodyRead, n
    <3> QED
      BY <1>7, <1>11, <2>7, <3>1, <3>3 DEF c, r, rest, b
  <2>8. CASE n # 0 /\ mem # "ok"
    <3> DEFINE broken == [prepared EXCEPT !.currPacket = PACKET_TYPE_ERROR]
    <3>1. r = Failed(prepared)
      BY <1>2, <1>8, <2>3, <2>8 DEF n
    <3>2. r.failed /\ r.packets = <<>> /\ r.codec = broken
      BY <3>1 DEF Failed
    <3>3. prepared = [ready EXCEPT !.size = IF mem = "noBuffer" THEN 0 ELSE n,
                                   !.built = mem # "noMemory", !.data = <<>>]
      BY <2>4, <2>8
    <3>4. broken.currPacket = PACKET_TYPE_ERROR /\ broken.codecState = "VAR_HEADER"
          /\ broken.size = (IF mem = "noBuffer" THEN 0 ELSE n)
          /\ broken.built = (mem # "noMemory")
      BY <2>5, <3>3
    <3>5. Broken(broken)
      BY <2>8, <3>4 DEF Broken, Mem
    <3> QED
      BY <1>7, <1>11, <2>8, <3>2, <3>5 DEF c, r, rest, b
  <2> QED
    BY <2>6, <2>7, <2>8
<1> QED
  BY <1>10, <1>11

\* A byte of the body; the last one completes the packet.
LEMMA BodyByte ==
    ASSUME NEW p \in Packets, NEW mem \in Mem,
           NEW done \in Seq(Byte), NEW left \in Seq(Byte), left # <<>>,
           p.body = done \o left
    PROVE  ByteReceived(BodyRead(p, done), Head(left), mem)
             = IF Tail(left) # <<>> THEN Went(BodyRead(p, Append(done, Head(left))))
               ELSE Completed(p)
<1> DEFINE c == BodyRead(p, done)  b == Head(left)  rest == Tail(left)
           n == Len(p.body)  bytes == Append(done, b)
           stored == [c EXCEPT !.data = Append(@, b)]
           r == ByteReceived(c, b, mem)
<1>1. b \in Byte /\ rest \in Seq(Byte) /\ Len(left) = Len(rest) + 1
  BY HeadTail
<1>2. bytes \in Seq(Byte) /\ bytes \o rest = p.body /\ Len(bytes) = Len(done) + 1
  BY <1>1, MoveElement, AppendProperties
<1>3. Len(done) \in Nat /\ Len(rest) \in Nat /\ n = Len(done) + Len(left)
  BY <1>1, LenProperties, ConcatProperties
<1>4. Len(rest) = 0 <=> rest = <<>>
  BY <1>1, EmptySeq
<1>5. p = [type |-> p.type, flags |-> p.flags, body |-> p.body]
  BY PacketFields
<1>6. stored = BodyRead(p, bytes)
  <2>1. c = [currPacket |-> p.type, codecState |-> "VAR_HEADER", headerFlags |-> p.flags,
             storeRemainLen |-> <<>>, size |-> n, built |-> TRUE, data |-> done]
    BY DEF BodyRead
  <2>2. stored = [c EXCEPT !.data = bytes]
    BY <2>1
  <2> HIDE DEF c, n, stored, bytes
  <2> QED
    BY <2>1, <2>2 DEF BodyRead, n
<1>7. r = IF Len(bytes) >= n THEN CompletePacketData(BodyRead(p, bytes))
          ELSE Went(BodyRead(p, bytes))
  <2>1. c.codecState = "VAR_HEADER" /\ c.size = n /\ c.built /\ n > 0
    BY <1>1, <1>3 DEF BodyRead
  <2>2. r = IF Len(stored.data) >= c.size THEN CompletePacketData(stored) ELSE Went(stored)
    BY <2>1 DEF ByteReceived
  <2>3. stored.data = bytes
    BY <1>6 DEF BodyRead
  <2> HIDE DEF r, stored, c, bytes
  <2> QED
    BY <1>6, <2>1, <2>2, <2>3
<1> HIDE DEF r, rest, bytes, b, n
<1>8. CASE rest # <<>>
  <2>1. ~(Len(bytes) >= n)
    BY <1>1, <1>2, <1>3, <1>4, <1>8
  <2> QED
    BY <1>7, <1>8, <2>1 DEF r, rest, bytes, b
<1>9. CASE rest = <<>>
  <2>1. Len(bytes) >= n
    BY <1>1, <1>2, <1>3, <1>4, <1>9
  <2>2. bytes = p.body
    BY <1>2, <1>9, ConcatEmptySeq
  <2>3. CompletePacketData(BodyRead(p, bytes)).codec = NewCodec
    BY DEF CompletePacketData, BodyRead, NewCodec
  <2>4. CompletePacketData(BodyRead(p, bytes)).packets = <<p>>
    BY <1>5, <2>2 DEF CompletePacketData, BodyRead
  <2>5. CompletePacketData(BodyRead(p, bytes)) = Completed(p)
    BY <2>3, <2>4 DEF CompletePacketData, Completed
  <2> QED
    BY <1>7, <1>9, <2>1, <2>5 DEF r, rest, b
<1> QED
  BY <1>8, <1>9

\* The codec c is inside packet p, whose bytes left are still to come.
Place(c, p, left) ==
    \/ \E done, more \in Seq(Byte) :
          /\ more # <<>> /\ EncodeLength(Len(p.body)) = done \o more
          /\ c = HeaderRead(p, done) /\ left = more \o p.body
    \/ \E done \in Seq(Byte) :
          /\ left # <<>> /\ p.body = done \o left
          /\ c = BodyRead(p, done)

\* One byte inside a packet: the codec goes on in it, completes it or breaks.
LEMMA PlaceByte ==
    ASSUME NEW p \in Packets, NEW mem \in Mem, NEW left \in Seq(Byte),
           NEW c, (c = NewCodec /\ left = Encode(p)) \/ Place(c, p, left)
    PROVE  LET r == ByteReceived(c, Head(left), mem)
           IN  /\ left # <<>> /\ Tail(left) \in Seq(Byte)
               /\ \/ ~r.failed /\ r.packets = <<>> /\ Place(r.codec, p, Tail(left))
                  \/ Tail(left) = <<>> /\ r = Completed(p)
                  \/ r.failed /\ Broken(r.codec)
<1> DEFINE e == EncodeLength(Len(p.body))
<1>1. /\ e \in Seq(Byte) /\ e # <<>> /\ p.body \in Seq(Byte) /\ <<>> \in Seq(Byte)
      /\ Encode(p) # <<>> /\ Head(Encode(p)) = p.type + p.flags
      /\ Tail(Encode(p)) = e \o p.body
  BY EncodeParts, PacketFields, EmptySeq
<1>2. CASE c = NewCodec /\ left = Encode(p)
  <2> DEFINE r == ByteReceived(c, Head(left), mem)
  <2>1. r = Went(HeaderRead(p, <<>>))
    BY <1>1, <1>2, HeaderByte
  <2>2. <<>> \o e = e
    BY <1>1, ConcatEmptySeq
  <2> HIDE DEF e, r
  <2>3. Place(HeaderRead(p, <<>>), p, Tail(left))
    BY <1>1, <1>2, <2>2 DEF Place, e
  <2>4. left # <<>> /\ Tail(left) \in Seq(Byte)
    BY <1>1, <1>2, HeadTail
  <2>5. ~r.failed /\ r.packets = <<>> /\ r.codec = HeaderRead(p, <<>>)
    BY <2>1 DEF Went
  <2> QED
    BY <2>3, <2>4, <2>5 DEF r
<1>3. ASSUME NEW done \in Seq(Byte), NEW more \in Seq(Byte),
             more # <<>>, e = done \o more, c = HeaderRead(p, done), left = more \o p.body
      PROVE  LET r == ByteReceived(c, Head(left), mem)
             IN  /\ left # <<>> /\ Tail(left) \in Seq(Byte)
                 /\ \/ ~r.failed /\ r.packets = <<>> /\ Place(r.codec, p, Tail(left))
                    \/ Tail(left) = <<>> /\ r = Completed(p)
                    \/ r.failed /\ Broken(r.codec)
  <2> DEFINE b == Head(more)  rest == Tail(more)
             r == ByteReceived(c, Head(left), mem)
             s == ByteReceived(HeaderRead(p, done), b, mem)
  <2>1. rest \in Seq(Byte) /\ b \in Byte /\ Head(left) = b /\ Tail(left) = rest \o p.body
    BY <1>1, <1>3, HeadTail
  <2>2. r = s
    BY <1>3, <2>1
  <2>3. left # <<>>
    BY <1>1, <1>3, ConcatEqualIffEmpty
  <2>4. Tail(left) \in Seq(Byte)
    BY <2>3, HeadTail
  <2>5. IF rest # <<>> THEN s = Went(HeaderRead(p, Append(done, b)))
        ELSE IF p.body = <<>> THEN s = Completed(p)
        ELSE s = Went(BodyRead(p, <<>>)) \/ (s.failed /\ Broken(s.codec) /\ s.packets = <<>>)
    BY <1>3, LengthByte
  <2>6. Append(done, b) \in Seq(Byte) /\ Append(done, b) \o rest = e
    BY <1>3, MoveElement
  <2> HIDE DEF b, rest, r, s, e
  <2>7. CASE rest # <<>>
    <3>1. Place(HeaderRead(p, Append(done, b)), p, Tail(left))
      BY <2>1, <2>6, <2>7 DEF Place, e
    <3>2. ~r.failed /\ r.packets = <<>> /\ r.codec = HeaderRead(p, Append(done, b))
      BY <2>2, <2>5, <2>7 DEF Went
    <3> QED
      BY <2>3, <2>4, <3>1, <3>2 DEF r
  <2>8. CASE rest = <<>> /\ p.body = <<>>
    <3>1. Tail(left) = <<>>
      BY <1>1, <2>1, <2>8, ConcatEmptySeq
    <3>2. r = Completed(p)
      BY <2>2, <2>5, <2>8
    <3> QED
      BY <2>3, <2>4, <3>1, <3>2 DEF r
  <2>9. CASE rest = <<>> /\ p.body # <<>> /\ s = Went(BodyRead(p, <<>>))
    <3>1. Tail(left) = p.body /\ p.body = <<>> \o p.body
      BY <1>1, <2>1, <2>9, ConcatEmptySeq
    <3>2. Place(BodyRead(p, <<>>), p, Tail(left))
      BY <1>1, <2>9, <3>1 DEF Place
    <3>3. ~r.failed /\ r.packets = <<>> /\ r.codec = BodyRead(p, <<>>)
      BY <2>2, <2>9 DEF Went
    <3> QED
      BY <2>3, <2>4, <3>2, <3>3 DEF r
  <2>10. CASE s.failed /\ Broken(s.codec)
    BY <2>2, <2>3, <2>4, <2>10 DEF r
  <2> QED
    BY <2>5, <2>7, <2>8, <2>9, <2>10
<1>4. ASSUME NEW done \in Seq(Byte),
             left # <<>>, p.body = done \o left, c = BodyRead(p, done)
      PROVE  LET r == ByteReceived(c, Head(left), mem)
             IN  /\ left # <<>> /\ Tail(left) \in Seq(Byte)
                 /\ \/ ~r.failed /\ r.packets = <<>> /\ Place(r.codec, p, Tail(left))
                    \/ Tail(left) = <<>> /\ r = Completed(p)
                    \/ r.failed /\ Broken(r.codec)
  <2> DEFINE b == Head(left)  r == ByteReceived(c, b, mem)
  <2>1. Tail(left) \in Seq(Byte) /\ b \in Byte
    BY <1>4, HeadTail
  <2>2. Append(done, b) \in Seq(Byte) /\ Append(done, b) \o Tail(left) = p.body
    BY <1>4, MoveElement
  <2>3. r = IF Tail(left) # <<>> THEN Went(BodyRead(p, Append(done, b))) ELSE Completed(p)
    BY <1>4, BodyByte
  <2> HIDE DEF b, r
  <2>4. CASE Tail(left) # <<>>
    <3>1. Place(BodyRead(p, Append(done, b)), p, Tail(left))
      BY <2>2, <2>4 DEF Place
    <3>2. ~r.failed /\ r.packets = <<>> /\ r.codec = BodyRead(p, Append(done, b))
      BY <2>3, <2>4 DEF Went
    <3> QED
      BY <1>4, <2>1, <3>1, <3>2 DEF r, b
  <2>5. CASE Tail(left) = <<>>
    BY <1>4, <2>1, <2>3, <2>5 DEF r, b
  <2> QED
    BY <2>4, <2>5
<1>5. CASE Place(c, p, left)
  BY <1>3, <1>4, <1>5 DEF Place
<1> QED
  BY <1>2, <1>5

-----------------------------------------------------------------------------
(***************************************************************************)
(* The place of the codec in the stream.                                   *)
(***************************************************************************)

\* st[k] is the encoding of the packets s from the k-th on, up to the empty stream
\* after the last one.
Streams(s, st) ==
    /\ st \in [1 .. Len(s) + 1 -> Seq(Byte)]
    /\ st[Len(s) + 1] = <<>>
    /\ \A k \in 1 .. Len(s) : st[k] = Encode(s[k]) \o st[k + 1]

\* Of the packets s the codec c has completed m, and rest is the stream still to come.
At(c, s, m, rest) ==
    \E st : /\ Streams(s, st)
            /\ \/ c = NewCodec /\ rest = st[m + 1]
               \/ /\ m < Len(s)
                  /\ \E left \in Seq(Byte) :
                        Place(c, s[m + 1], left) /\ rest = left \o st[m + 2]

\* A new connection.
LEMMA AtStart == At(NewCodec, <<>>, 0, <<>>)
<1> DEFINE st == [k \in 1 .. 1 |-> <<>>]
<1>1. <<>> \in Seq(Byte) /\ Len(<<>>) = 0
  BY EmptySeq
<1>2. st \in [1 .. 1 -> Seq(Byte)] /\ st[1] = <<>>
  BY <1>1
<1> HIDE DEF st
<1>3. Streams(<<>>, st)
  BY <1>1, <1>2 DEF Streams
<1>4. st[0 + 1] = <<>>
  BY <1>2
<1> QED
  BY <1>3, <1>4 DEF At

\* A packet that the broker sends comes after everything that is under way.
LEMMA AtSend ==
    ASSUME NEW s \in Seq(Packets), NEW p \in Packets, NEW m \in 0 .. Len(s),
           NEW c, NEW rest \in Seq(Byte), At(c, s, m, rest)
    PROVE  At(c, Append(s, p), m, rest \o Encode(p))
<1> DEFINE n == Len(s)  t == Append(s, p)  e == Encode(p)
<1>1. n \in Nat /\ t \in Seq(Packets) /\ Len(t) = n + 1 /\ t[n + 1] = p
      /\ \A k \in 1 .. n : t[k] = s[k]
  BY AppendProperties, LenProperties
<1>2. e \in Seq(Byte) /\ <<>> \in Seq(Byte)
  BY EncodeParts, EmptySeq
<1>3. PICK st : /\ Streams(s, st)
                /\ \/ c = NewCodec /\ rest = st[m + 1]
                   \/ /\ m < Len(s)
                      /\ \E left \in Seq(Byte) :
                            Place(c, s[m + 1], left) /\ rest = left \o st[m + 2]
  BY DEF At
<1>4. /\ \A k \in 1 .. n + 1 : st[k] \in Seq(Byte)
      /\ st[n + 1] = <<>> /\ \A k \in 1 .. n : st[k] = Encode(s[k]) \o st[k + 1]
  BY <1>3 DEF Streams
<1> DEFINE u == [k \in 1 .. n + 2 |-> IF k = n + 2 THEN <<>> ELSE st[k] \o e]
<1> HIDE DEF e, t, n
<1>12. \A x, y \in Seq(Byte) : (x \o y) \o e = x \o (y \o e)
  BY <1>2, ConcatAssociative
<1>5. \A k \in 1 .. n + 1 : u[k] = st[k] \o e /\ u[k] \in Seq(Byte)
  <2>1. \A x \in Seq(Byte) : x \o e \in Seq(Byte)
    BY <1>2, ConcatProperties
  <2>2. ASSUME NEW k \in 1 .. n + 1
        PROVE  u[k] = st[k] \o e
    BY <1>1
  <2> QED
    BY <1>4, <2>1, <2>2
<1>6. u[n + 2] = <<>> /\ u \in [1 .. n + 2 -> Seq(Byte)]
  <2>1. u[n + 2] = <<>>
    BY <1>1
  <2>2. \A k \in 1 .. n + 2 : k = n + 2 \/ k \in 1 .. n + 1
    BY <1>1
  <2> HIDE DEF u
  <2>3. \A k \in 1 .. n + 2 : u[k] \in Seq(Byte)
    BY <1>2, <1>5, <2>1, <2>2
  <2> QED
    BY <2>1, <2>3 DEF u
<1> HIDE DEF u
<1>7. ASSUME NEW k \in 1 .. n + 1
      PROVE  u[k] = Encode(t[k]) \o u[k + 1]
  <2>1. CASE k = n + 1
    <3>1. u[k] = e
      BY <1>1, <1>2, <1>4, <1>5, <2>1, ConcatEmptySeq
    <3>2. u[k + 1] = <<>>
      BY <1>1, <1>6, <2>1
    <3> QED
      BY <1>1, <1>2, <2>1, <3>1, <3>2, ConcatEmptySeq DEF e
  <2>2. CASE k \in 1 .. n
    <3>1. k + 1 \in 1 .. n + 1 /\ s[k] \in Packets
      BY <1>1, <2>2, ElementOfSeq DEF n
    <3>2. Encode(s[k]) \in Seq(Byte) /\ st[k + 1] \in Seq(Byte)
      BY <1>4, <3>1, EncodeParts
    <3>3. u[k] = (Encode(s[k]) \o st[k + 1]) \o e /\ u[k + 1] = st[k + 1] \o e
      BY <1>4, <1>5, <2>2, <3>1
    <3>4. (Encode(s[k]) \o st[k + 1]) \o e = Encode(s[k]) \o (st[k + 1] \o e)
      BY <1>12, <3>2
    <3> QED
      BY <1>1, <2>2, <3>3, <3>4
  <2> QED
    BY <1>1, <2>1, <2>2
<1>8. Streams(t, u)
  <2>1. Len(t) + 1 = n + 2
    BY <1>1
  <2> QED
    BY <1>1, <1>6, <1>7, <2>1 DEF Streams
<1>9. m \in 0 .. n
  BY DEF n
<1>10. CASE c = NewCodec /\ rest = st[m + 1]
  <2>1. m + 1 \in 1 .. n + 1
    BY <1>1, <1>9
  <2>2. rest \o e = u[m + 1]
    BY <1>5, <1>10, <2>1
  <2> QED
    BY <1>8, <1>10, <2>2 DEF At, t, e
<1>11. ASSUME m < Len(s), NEW left \in Seq(Byte),
              Place(c, s[m + 1], left), rest = left \o st[m + 2]
       PROVE  At(c, t, m, rest \o e)
  <2>1. m < n /\ m + 2 \in 1 .. n + 1 /\ m + 1 \in 1 .. n /\ m < Len(t)
    BY <1>1, <1>9, <1>11 DEF n
  <2>2. st[m + 2] \in Seq(Byte) /\ u[m + 2] = st[m + 2] \o e
    BY <1>4, <1>5, <2>1
  <2>3. (left \o st[m + 2]) \o e = left \o (st[m + 2] \o e)
    BY <1>11, <1>12, <2>2
  <2>4. rest \o e = left \o u[m + 2]
    BY <1>11, <2>2, <2>3
  <2>5. Place(c, t[m + 1], left)
    BY <1>1, <1>11, <2>1
  <2> QED
    BY <1>8, <2>1, <2>4, <2>5 DEF At
<1> QED
  BY <1>3, <1>10, <1>11 DEF t, e

\* mqtt_codec_bytesReceived takes one byte of the stream.
LEMMA AtByte ==
    ASSUME NEW s \in Seq(Packets), NEW m \in 0 .. Len(s), NEW mem \in Mem,
           NEW c, NEW rest \in Seq(Byte), rest # <<>>, At(c, s, m, rest)
    PROVE  LET r == ByteReceived(c, Head(rest), mem)
           IN  \/ ~r.failed /\ r.packets = <<>> /\ At(r.codec, s, m, Tail(rest))
               \/ /\ ~r.failed /\ m < Len(s) /\ r.packets = <<s[m + 1]>>
                  /\ At(r.codec, s, m + 1, Tail(rest))
               \/ r.failed /\ Broken(r.codec)
<1> DEFINE n == Len(s)
<1>1. PICK st : /\ Streams(s, st)
                /\ \/ c = NewCodec /\ rest = st[m + 1]
                   \/ /\ m < Len(s)
                      /\ \E left \in Seq(Byte) :
                            Place(c, s[m + 1], left) /\ rest = left \o st[m + 2]
  BY DEF At
<1>2. /\ \A k \in 1 .. n + 1 : st[k] \in Seq(Byte)
      /\ st[n + 1] = <<>> /\ \A k \in 1 .. n : st[k] = Encode(s[k]) \o st[k + 1]
  BY <1>1 DEF Streams
<1>3. n \in Nat
  BY LenProperties
<1>4. m < n
  <2>1. CASE m = n
    BY <1>1, <1>2, <1>3, <2>1
  <2> QED
    BY <1>3, <2>1
<1>5. m + 1 \in 1 .. n /\ m + 2 \in 1 .. n + 1 /\ (m + 1) + 1 = m + 2
  BY <1>3, <1>4
<1> DEFINE p == s[m + 1]  after == st[m + 2]
<1>6. p \in Packets /\ after \in Seq(Byte) /\ Encode(p) \in Seq(Byte)
  BY <1>2, <1>5, ElementOfSeq, EncodeParts
<1>7. \E left \in Seq(Byte) : /\ (c = NewCodec /\ left = Encode(p)) \/ Place(c, p, left)
                              /\ rest = left \o after
  <2>1. CASE c = NewCodec /\ rest = st[m + 1]
    BY <1>2, <1>5, <1>6, <2>1
  <2> QED
    BY <1>1, <2>1
<1>8. PICK left \in Seq(Byte) : /\ (c = NewCodec /\ left = Encode(p)) \/ Place(c, p, left)
                                /\ rest = left \o after
  BY <1>7
<1> DEFINE r == ByteReceived(c, Head(left), mem)
<1> HIDE DEF n, p, after
<1>9. /\ left # <<>> /\ Tail(left) \in Seq(Byte)
      /\ \/ ~r.failed /\ r.packets = <<>> /\ Place(r.codec, p, Tail(left))
         \/ Tail(left) = <<>> /\ r = Completed(p)
         \/ r.failed /\ Broken(r.codec)
  BY <1>6, <1>8, PlaceByte
<1>10. Head(rest) = Head(left) /\ Tail(rest) = Tail(left) \o after
  BY <1>6, <1>8, <1>9, HeadTail
<1> HIDE DEF r
<1>11. CASE ~r.failed /\ r.packets = <<>> /\ Place(r.codec, p, Tail(left))
  <2>1. At(r.codec, s, m, Tail(rest))
    BY <1>1, <1>4, <1>9, <1>10, <1>11 DEF At, n, p, after
  <2> QED
    BY <1>10, <1>11, <2>1 DEF r
<1>12. CASE Tail(left) = <<>> /\ r = Completed(p)
  <2>1. Tail(rest) = after
    BY <1>6, <1>10, <1>12, ConcatEmptySeq
  <2>2. ~r.failed /\ r.packets = <<p>> /\ r.codec = NewCodec
    BY <1>12 DEF Completed
  <2>3. Tail(rest) = st[(m + 1) + 1]
    BY <1>5, <2>1 DEF after
  <2>4. At(r.codec, s, m + 1, Tail(rest))
    BY <1>1, <2>2, <2>3 DEF At
  <2> QED
    BY <1>4, <1>10, <2>2, <2>4 DEF r, n, p
<1>13. CASE r.failed /\ Broken(r.codec)
  BY <1>10, <1>13 DEF r
<1> QED
  BY <1>9, <1>11, <1>12, <1>13

-----------------------------------------------------------------------------
(***************************************************************************)
(* The system, as long as connections are lost only between packets.       *)
(***************************************************************************)

\* What was dispatched is a prefix of what was sent, and either the codec stands in the
\* stream where that prefix ends, or an allocation has failed and it dispatches nothing.
CodecInv ==
    /\ CodecTypeOK
    /\ sent \in Seq(Packets) /\ got \in Seq(Packets)
    /\ OnlySentPackets
    /\ \/ At(codec, sent, Len(got), chunk \o wire)
       \/ Broken(codec) /\ got = <<>>

\* The codec is created at the start of an empty stream.
LEMMA CodecInit == Init /\ CodecTypeOK => CodecInv
<1> SUFFICES ASSUME Init, CodecTypeOK PROVE CodecInv
  OBVIOUS
<1>1. <<>> \in Seq(Packets) /\ <<>> \in Seq(Byte) /\ Len(<<>>) = 0
  BY EmptySeq
<1>2. sent = <<>> /\ got = <<>> /\ chunk = <<>> /\ wire = <<>> /\ codec = NewCodec
  BY DEF Init
<1>3. chunk \o wire = <<>>
  BY <1>1, <1>2, ConcatEmptySeq
<1>4. At(codec, sent, Len(got), chunk \o wire)
  BY <1>1, <1>2, <1>3, AtStart
<1> QED
  BY <1>1, <1>2, <1>4 DEF CodecInv, OnlySentPackets

\* The broker sends behind what is under way: in the channel, a packet is sent.
LEMMA BrokerSendsStep ==
    ASSUME CodecInv, CodecTypeOK', BrokerSends
    PROVE  CodecInv' /\ Channel!Next
<1>1. PICK p \in Packets : sent' = Append(sent, p) /\ wire' = wire \o Encode(p)
  BY DEF BrokerSends
<1>2. codec' = codec /\ chunk' = chunk /\ got' = got
  BY DEF BrokerSends
<1>3. /\ sent \in Seq(Packets) /\ got \in Seq(Packets)
      /\ wire \in Seq(Byte) /\ chunk \in Seq(Byte) /\ Encode(p) \in Seq(Byte)
  BY EncodeParts DEF CodecInv, CodecTypeOK
<1>4. /\ Len(got) \in Nat /\ Len(sent) \in Nat
      /\ Len(got) <= Len(sent) /\ \A i \in 1 .. Len(got) : got[i] = sent[i]
  BY <1>3, LenProperties DEF CodecInv, OnlySentPackets
<1>5. sent' \in Seq(Packets) /\ Len(sent') = Len(sent) + 1
      /\ \A i \in 1 .. Len(sent) : sent'[i] = sent[i]
  BY <1>1, <1>3, AppendProperties
<1>6. OnlySentPackets'
  <2>1. Len(got') <= Len(sent') /\ \A i \in 1 .. Len(got') : got'[i] = sent'[i]
    BY <1>2, <1>4, <1>5
  <2>2. DOMAIN got' = 1 .. Len(got')
    BY <1>2, <1>3, LenProperties
  <2> QED
    BY <2>1, <2>2 DEF OnlySentPackets
<1>7. chunk' \o wire' = (chunk \o wire) \o Encode(p) /\ chunk \o wire \in Seq(Byte)
  <2>1. chunk \o wire \in Seq(Byte)
    BY <1>3, ConcatProperties
  <2>2. (chunk \o wire) \o Encode(p) = chunk \o (wire \o Encode(p))
    BY <1>3, ConcatAssociative
  <2> QED
    BY <1>1, <1>2, <2>1, <2>2
<1>8. At(codec, sent, Len(got), chunk \o wire) => At(codec', sent', Len(got'), chunk' \o wire')
  <2>1. SUFFICES ASSUME At(codec, sent, Len(got), chunk \o wire)
                 PROVE  At(codec', sent', Len(got'), chunk' \o wire')
    OBVIOUS
  <2>2. Len(got) \in 0 .. Len(sent)
    BY <1>4
  <2>3. At(codec, Append(sent, p), Len(got), (chunk \o wire) \o Encode(p))
    BY <1>3, <1>7, <2>1, <2>2, AtSend
  <2> QED
    BY <1>1, <1>2, <1>7, <2>3
<1>9. Channel!Next
  BY <1>1, <1>2 DEF Channel!Next, Channel!Send
<1>10. At(codec, sent, Len(got), chunk \o wire) \/ (Broken(codec) /\ got = <<>>)
  BY DEF CodecInv
<1> QED
  BY <1>2, <1>3, <1>5, <1>6, <1>8, <1>9, <1>10 DEF CodecInv

\* A recv cuts the stream and changes nothing of it.
LEMMA ReceiveStep ==
    ASSUME CodecInv, CodecTypeOK', Receive
    PROVE  CodecInv' /\ UNCHANGED <<sent, got>>
<1>1. PICK n \in 1 .. ChunkSize :
         /\ n <= Len(wire)
         /\ chunk' = SubSeq(wire, 1, n) /\ wire' = SubSeq(wire, n + 1, Len(wire))
  BY DEF Receive
<1>2. chunk = <<>> /\ codec' = codec /\ sent' = sent /\ got' = got
  BY DEF Receive
<1>3. wire \in Seq(Byte) /\ Len(wire) \in Nat
  BY LenProperties DEF CodecInv, CodecTypeOK
<1>4. n \in 1 .. Len(wire)
  BY <1>1, <1>3
<1>5. chunk' \o wire' = wire
  BY <1>1, <1>3, <1>4, CutSeq
<1>6. chunk \o wire = wire
  BY <1>2, <1>3, ConcatEmptySeq
<1>7. OnlySentPackets'
  BY <1>2 DEF CodecInv, OnlySentPackets
<1> QED
  BY <1>2, <1>5, <1>6, <1>7 DEF CodecInv

\* A byte is taken: the next packet is delivered, or none is, or the connection ends.
LEMMA TakeByteStep ==
    ASSUME CodecInv, CodecTypeOK', TakeByte
    PROVE  CodecInv' /\ [Channel!Next]_<<sent, got>>
<1>1. chunk # <<>>
  BY DEF TakeByte
<1>2. PICK mem \in Mem :
         LET r == ByteReceived(codec, Head(chunk), mem)
         IN  /\ codec' = r.codec
             /\ IF r.failed
                THEN chunk' = <<>> /\ wire' = <<>> /\ sent' = <<>> /\ got' = <<>>
                ELSE /\ chunk' = Tail(chunk) /\ got' = got \o r.packets
                     /\ wire' = wire /\ sent' = sent
  BY DEF TakeByte, Mem
<1> DEFINE r == ByteReceived(codec, Head(chunk), mem)
           rest == chunk \o wire
           m == Len(got)
<1>3. /\ sent \in Seq(Packets) /\ got \in Seq(Packets) /\ codec \in Codec
      /\ wire \in Seq(Byte) /\ chunk \in Seq(Byte)
  BY DEF CodecInv, CodecTypeOK
<1>4. /\ m \in Nat /\ Len(sent) \in Nat
      /\ m <= Len(sent) /\ \A i \in 1 .. m : got[i] = sent[i]
  BY <1>3, LenProperties DEF CodecInv, OnlySentPackets
<1>5. /\ rest \in Seq(Byte) /\ rest # <<>>
      /\ Head(rest) = Head(chunk) /\ Tail(rest) = Tail(chunk) \o wire
      /\ Head(chunk) \in Byte
  <2>1. rest \in Seq(Byte)
    BY <1>3, ConcatProperties
  <2>2. rest # <<>>
    BY <1>1, <1>3, ConcatEqualIffEmpty
  <2> QED
    BY <1>1, <1>3, <2>1, <2>2, HeadTail
<1>6. <<>> \in Seq(Packets) /\ Len(<<>>) = 0
  BY EmptySeq
<1>7. codec' = r.codec
  BY <1>2
<1>8. ~r.failed => /\ chunk' = Tail(chunk) /\ got' = got \o r.packets
                   /\ wire' = wire /\ sent' = sent
  BY <1>2
<1>9. r.failed => chunk' = <<>> /\ wire' = <<>> /\ sent' = <<>> /\ got' = <<>>
  BY <1>2
<1> HIDE DEF r, m, rest
<1>10. CASE r.failed /\ Broken(r.codec)
  <2>1. sent' = <<>> /\ got' = <<>>
    BY <1>9, <1>10
  <2>2. OnlySentPackets'
    BY <1>6, <2>1 DEF OnlySentPackets
  <2>3. Channel!Next
    BY <2>1 DEF Channel!Next, Channel!NewConnection
  <2> QED
    BY <1>6, <1>7, <1>10, <2>1, <2>2, <2>3 DEF CodecInv
<1>11. CASE ~r.failed /\ r.packets = <<>>
            /\ (At(r.codec, sent, m, Tail(rest)) \/ (Broken(r.codec) /\ got = <<>>))
  <2>1. sent' = sent /\ got' = got /\ chunk' \o wire' = Tail(rest)
    BY <1>3, <1>5, <1>8, <1>11, ConcatEmptySeq
  <2>2. OnlySentPackets'
    BY <2>1 DEF CodecInv, OnlySentPackets
  <2>3. At(codec', sent', Len(got'), chunk' \o wire') \/ (Broken(codec') /\ got' = <<>>)
    BY <1>7, <1>11, <2>1 DEF m
  <2> QED
    BY <1>3, <2>1, <2>2, <2>3 DEF CodecInv
<1>12. CASE /\ ~r.failed /\ m < Len(sent) /\ r.packets = <<sent[m + 1]>>
            /\ At(r.codec, sent, m + 1, Tail(rest))
  <2>1. m + 1 \in 1 .. Len(sent)
    BY <1>4, <1>12
  <2>2. sent[m + 1] \in Packets
    BY <1>3, <2>1, ElementOfSeq
  <2>3. sent' = sent /\ chunk' \o wire' = Tail(rest)
    BY <1>5, <1>8, <1>12
  <2>4. got' = Append(got, sent[m + 1])
    BY <1>3, <1>8, <1>12, <2>2, AppendIsConcat
  <2>5. got' \in Seq(Packets) /\ Len(got') = m + 1 /\ got'[m + 1] = sent[m + 1]
        /\ \A i \in 1 .. m : got'[i] = got[i]
    BY <1>3, <2>2, <2>4, AppendProperties DEF m
  <2>6. \A i \in 1 .. m + 1 : got'[i] = sent[i]
    BY <1>4, <2>5
  <2>7. OnlySentPackets'
    BY <1>4, <2>1, <2>3, <2>5, <2>6, LenProperties DEF OnlySentPackets
  <2>8. At(codec', sent', Len(got'), chunk' \o wire')
    BY <1>7, <1>12, <2>3, <2>5
  <2>9. Channel!Next
    BY <1>12, <2>3, <2>4 DEF Channel!Next, Channel!Deliver, m
  <2> QED
    BY <1>3, <2>3, <2>5, <2>7, <2>8, <2>9 DEF CodecInv
<1>13. CASE At(codec, sent, m, rest)
  <2>1. m \in 0 .. Len(sent)
    BY <1>4
  <2>2. \/ ~r.failed /\ r.packets = <<>> /\ At(r.codec, sent, m, Tail(rest))
        \/ /\ ~r.failed /\ m < Len(sent) /\ r.packets = <<sent[m + 1]>>
           /\ At(r.codec, sent, m + 1, Tail(rest))
        \/ r.failed /\ Broken(r.codec)
    BY <1>3, <1>5, <1>13, <2>1, AtByte DEF r
  <2> QED
    BY <1>10, <1>11, <1>12, <2>2
<1>14. CASE Broken(codec) /\ got = <<>>
  <2>1. Broken(r.codec) /\ r.packets = <<>>
    BY <1>3, <1>5, <1>14, BrokenByte DEF r
  <2> QED
    BY <1>10, <1>11, <1>14, <2>1
<1> QED
  BY <1>13, <1>14 DEF CodecInv, m, rest

\* At a boundary the codec is as mqtt_codec_create made it.
LEMMA BoundaryNew == ASSUME CodecInv, AtBoundary PROVE codec = NewCodec
<1>1. codec.codecState = "FIXED_HEADER" /\ codec.currPacket = UNKNOWN_TYPE
  BY DEF AtBoundary
<1>2. ~Broken(codec)
  BY <1>1 DEF Broken
<1>3. ASSUME NEW p \in Packets, NEW left, Place(codec, p, left)
      PROVE  FALSE
  <2>1. p.type # UNKNOWN_TYPE
    BY PacketFields DEF UNKNOWN_TYPE, Byte
  <2>2. codec.currPacket = p.type
    BY <1>3 DEF Place, HeaderRead, BodyRead
  <2> QED
    BY <1>1, <2>1, <2>2
<1>4. ASSUME NEW m \in Nat, m < Len(sent)
      PROVE  sent[m + 1] \in Packets
  <2>1. sent \in Seq(Packets) /\ Len(sent) \in Nat
    BY LenProperties DEF CodecInv
  <2>2. m + 1 \in 1 .. Len(sent)
    BY <1>4, <2>1
  <2> QED
    BY <2>1, <2>2, ElementOfSeq
<1>5. At(codec, sent, Len(got), chunk \o wire) /\ Len(got) \in Nat
  BY <1>2, LenProperties DEF CodecInv
<1> QED
  BY <1>3, <1>4, <1>5 DEF At

\* A connection is lost between two packets: the next one starts with a new codec, or
\* with a broken one.
LEMMA ResetStep ==
    ASSUME ~AnyReset, CodecInv, CodecTypeOK', Reset
    PROVE  CodecInv' /\ Channel!Next
<1>1. /\ chunk = <<>> /\ AtBoundary /\ codec' = codec /\ chunk' = chunk
      /\ wire' = <<>> /\ sent' = <<>> /\ got' = <<>>
  BY DEF Reset
<1>2. <<>> \in Seq(Packets) /\ <<>> \in Seq(Byte) /\ Len(<<>>) = 0
  BY EmptySeq
<1>3. chunk' \o wire' = <<>>
  BY <1>1, <1>2, ConcatEmptySeq
<1>4. OnlySentPackets'
  BY <1>1, <1>2 DEF OnlySentPackets
<1>5. codec = NewCodec
  BY <1>1, BoundaryNew
<1>6. At(codec', sent', Len(got'), chunk' \o wire')
  BY <1>1, <1>2, <1>3, <1>5, AtStart
<1>7. Channel!Next
  BY <1>1 DEF Channel!Next, Channel!NewConnection
<1> QED
  BY <1>1, <1>2, <1>4, <1>6, <1>7 DEF CodecInv

\* The invariant is inductive, and every step is one of the channel.
LEMMA CodecStep ==
    ASSUME ~AnyReset, CodecInv, CodecTypeOK', [Next]_vars
    PROVE  CodecInv' /\ [Channel!Next]_<<sent, got>>
<1>1. CASE BrokerSends
  BY <1>1, BrokerSendsStep
<1>2. CASE Receive
  BY <1>2, ReceiveStep
<1>3. CASE TakeByte
  BY <1>3, TakeByteStep
<1>4. CASE Reset
  BY <1>4, ResetStep
<1>5. CASE UNCHANGED vars
  <2>1. OnlySentPackets'
    BY <1>5 DEF vars, CodecInv, OnlySentPackets
  <2> QED
    BY <1>5, <2>1 DEF vars, CodecInv
<1> QED
  BY <1>1, <1>2, <1>3, <1>4, <1>5 DEF Next

\* The place of the codec in the stream, in every reachable state, as long as
\* connections are lost only between packets.
THEOREM CodecInvHolds == ASSUME ~AnyReset PROVE Spec => []CodecInv
<1>1. Init /\ CodecTypeOK => CodecInv
  BY CodecInit
<1>2. CodecInv /\ CodecTypeOK' /\ [Next]_vars => CodecInv'
  BY CodecStep
<1> QED
  BY <1>1, <1>2, CodecTypes, PTL DEF Spec

\* Between two packets the codec carries nothing over: mqtt_codec_bytesReceived and
\* completePacketData together put back every field they have used.
THEOREM CleanBoundary == ASSUME ~AnyReset PROVE Spec => []BoundaryIsClean
<1>1. CodecInv => BoundaryIsClean
  BY BoundaryNew DEF BoundaryIsClean
<1> QED
  BY <1>1, CodecInvHolds, PTL

\* As long as connections are lost only between packets, a digit of a length is written
\* into storeRemainLen or not at all: the index is back at its start before the next one.
THEOREM DigitsStored == ASSUME ~AnyReset PROVE Spec => []DigitsFit
<1>1. CodecInv => DigitsFit
  BY DEF CodecInv, At, Place, Broken, NewCodec, HeaderRead, BodyRead, DigitsFit
<1> QED
  BY <1>1, CodecInvHolds, PTL

\* Nothing is dispatched but what was sent, in order.
THEOREM PrefixDispatched == ASSUME ~AnyReset PROVE Spec => []OnlySentPackets
<1>1. CodecInv => OnlySentPackets
  BY DEF CodecInv
<1> QED
  BY <1>1, CodecInvHolds, PTL

\* The codec implements the packet channel, but for its liveness: it hands over the
\* next packet that was sent, whole and unchanged, or none.
THEOREM ChannelImplemented == ASSUME ~AnyReset PROVE Spec => KeepsOrder
<1>1. Init => Channel!Init
  BY DEF Init, Channel!Init
<1>2. CodecInv /\ CodecTypeOK' /\ [Next]_vars => [Channel!Next]_<<sent, got>>
  BY CodecStep
<1> QED
  BY <1>1, <1>2, CodecTypes, CodecInvHolds, PTL DEF Spec, KeepsOrder, Channel!InOrder
=============================================================================
