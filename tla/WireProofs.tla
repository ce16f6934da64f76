----------------------------- MODULE WireProofs -----------------------------
(***************************************************************************)
(* The codec inverts what it should, and a connection stays in step.       *)
(***************************************************************************)
EXTENDS Wire, SequenceTheorems, TLAPS

\* Dividing a number below Base * Base into two bytes and putting it together.
LEMMA TwoBytes ==
  ASSUME NEW n \in 0 .. MaxPayload
  PROVE  /\ n \div Base \in Byte
         /\ n % Base \in Byte
         /\ (n \div Base) * Base + (n % Base) = n
<1>0. Base \in Nat /\ Base > 1 /\ n \in Nat /\ n < Base * Base
  BY CodecAssumption DEF MaxPayload
<1>1. n \div Base \in Nat /\ n % Base \in 0 .. Base - 1 /\ n = Base * (n \div Base) + (n % Base)
  BY <1>0
<1>2. n \div Base < Base
  <2> DEFINE q == n \div Base
  <2>1. SUFFICES ASSUME q >= Base PROVE FALSE
    BY <1>0, <1>1
  <2>2. Base * q >= Base * Base
    <3> HIDE DEF q
    <3>1. q \in Nat
      BY <1>1 DEF q
    <3> QED BY <1>0, <2>1, <3>1
  <2> QED BY <1>0, <1>1, <2>2
<1> QED BY <1>0, <1>1, <1>2 DEF Byte

\* The length decoded from two bytes fits the length field.
LEMMA DecodedFits ==
  ASSUME NEW a \in Byte, NEW b \in Byte
  PROVE  a * Base + b \in 0 .. MaxPayload
<1>0. Base \in Nat /\ Base > 1 /\ a \in Nat /\ b \in Nat /\ a <= Base - 1 /\ b <= Base - 1
  BY CodecAssumption DEF Byte
<1>1. a * Base <= (Base - 1) * Base
  BY <1>0
<1>2. (Base - 1) * Base = Base * Base - Base
  BY <1>0
<1>3. a * Base \in Nat /\ Base * Base \in Nat
  BY <1>0
<1> QED BY <1>0, <1>1, <1>2, <1>3 DEF MaxPayload

LEMMA Truncated ==
  ASSUME NEW n \in Nat
  PROVE  /\ n % (Base * Base) \in 0 .. MaxPayload
         /\ n <= MaxPayload => n % (Base * Base) = n
<1>1. Base * Base \in Nat /\ Base * Base > 0
  BY CodecAssumption
<1> DEFINE B == Base * Base
<1> HIDE DEF B
<1>2. B \in Nat /\ B > 0
  BY <1>1 DEF B
<1>3. n % B \in 0 .. B - 1 /\ (n <= B - 1 => n % B = n)
  BY <1>2
<1> QED BY <1>3 DEF B, MaxPayload

-----------------------------------------------------------------------------
(* The codec.                                                              *)

\* What serialize() puts where.
LEMMA SerializeLayout ==
  ASSUME NEW type \in Byte, NEW payload \in Seq(Byte)
  PROVE  LET s == Serialize(MakePacket(type, payload)) IN
         /\ s \in Seq(Byte)
         /\ Len(s) = HeaderLength + Len(payload)
         /\ s[1] = type /\ s[2] = 0
         /\ Len(payload) <= MaxPayload => DecodedLength(s) = Len(payload)
         /\ \A j \in 1 .. Len(payload) : s[HeaderLength + j] = payload[j]
<1> DEFINE n == Len(payload) % (Base * Base)
           h == <<type, 0, n \div Base, n % Base>>
           s == Serialize(MakePacket(type, payload))
<1>1. Len(payload) \in Nat
  BY LenProperties
<1>2. n \in 0 .. MaxPayload /\ (Len(payload) <= MaxPayload => n = Len(payload))
  BY <1>1, Truncated
<1>3. /\ n \div Base \in Byte /\ n % Base \in Byte
      /\ (n \div Base) * Base + (n % Base) = n
  BY <1>2, TwoBytes
<1>4. 0 \in Byte
  BY CodecAssumption DEF Byte
<1>5. s = h \o payload
  BY DEF Serialize, MakePacket
<1>6. h \in Seq(Byte) /\ Len(h) = 4 /\ h[1] = type /\ h[2] = 0
      /\ h[3] = n \div Base /\ h[4] = n % Base
  <2> HIDE DEF n
  <2> QED BY <1>3, <1>4
<1> HIDE DEF n, h, s
<1>7. /\ s \in Seq(Byte) /\ Len(s) = 4 + Len(payload)
      /\ \A i \in 1 .. 4 + Len(payload) : s[i] = IF i <= 4 THEN h[i] ELSE payload[i - 4]
  <2>1. /\ h \o payload \in Seq(Byte)
        /\ Len(h \o payload) = Len(h) + Len(payload)
        /\ \A i \in 1 .. Len(h) + Len(payload) :
             (h \o payload)[i] = IF i <= Len(h) THEN h[i] ELSE payload[i - Len(h)]
    BY <1>6, ConcatProperties
  <2> QED BY <1>5, <1>6, <2>1
<1>8. s[1] = type /\ s[2] = 0 /\ s[3] = n \div Base /\ s[4] = n % Base
  BY <1>1, <1>6, <1>7
<1>9. \A j \in 1 .. Len(payload) : s[4 + j] = payload[j]
  BY <1>1, <1>7
<1>10. DecodedLength(s) = n
  BY <1>3, <1>8 DEF DecodedLength
<1> QED BY <1>2, <1>7, <1>8, <1>9, <1>10 DEF s, HeaderLength

\* The bytes of a packet that fits the length field read back as that packet.
THEOREM DeserializeInverts ==
  ASSUME NEW type \in Byte, NEW payload \in Seq(Byte), Len(payload) <= MaxPayload,
         NEW data, Len(data) \in Nat,
         Len(data) >= HeaderLength + Len(payload),
         \A j \in 1 .. HeaderLength + Len(payload) :
           data[j] = Serialize(MakePacket(type, payload))[j]
  PROVE  Deserialize(data) = MakePacket(type, payload)
<1> DEFINE s == Serialize(MakePacket(type, payload))
           body == SubSeq(data, HeaderLength + 1, HeaderLength + Len(payload))
<1>1. Len(payload) \in Nat
  BY LenProperties
<1>2. /\ s \in Seq(Byte) /\ Len(s) = 4 + Len(payload)
      /\ s[1] = type /\ s[2] = 0 /\ DecodedLength(s) = Len(payload)
      /\ \A j \in 1 .. Len(payload) : s[4 + j] = payload[j]
  BY SerializeLayout DEF HeaderLength
<1> HIDE DEF s
<1>3. \A j \in 1 .. 4 + Len(payload) : data[j] = s[j]
  BY DEF s, HeaderLength
<1>4. data[1] = type /\ data[2] = 0 /\ data[3] = s[3] /\ data[4] = s[4]
  BY <1>1, <1>2, <1>3
<1>5. DecodedLength(data) = Len(payload)
  BY <1>2, <1>4 DEF DecodedLength
<1>6. \A i \in 5 .. 4 + Len(payload) : data[i] = payload[i - 4]
  <2> SUFFICES ASSUME NEW i \in 5 .. 4 + Len(payload) PROVE data[i] = payload[i - 4]
    OBVIOUS
  <2>1. i - 4 \in 1 .. Len(payload) /\ i \in 1 .. 4 + Len(payload) /\ 4 + (i - 4) = i
    BY <1>1
  <2> QED BY <2>1, <1>2, <1>3
<1>7. body = payload
  <2>1. \A i \in 5 .. 4 + Len(payload) : data[i] \in Byte
    BY <1>1, <1>6, ElementOfSeq
  <2>2. /\ body \in Seq(Byte) /\ Len(body) = Len(payload)
        /\ \A i \in 1 .. Len(payload) : body[i] = data[5 + i - 1]
    <3>1. /\ SubSeq(data, 5, 4 + Len(payload)) \in Seq(Byte)
          /\ Len(SubSeq(data, 5, 4 + Len(payload))) =
               IF 5 <= 4 + Len(payload) THEN (4 + Len(payload)) - 5 + 1 ELSE 0
          /\ \A i \in 1 .. (4 + Len(payload)) - 5 + 1 :
               SubSeq(data, 5, 4 + Len(payload))[i] = data[5 + i - 1]
      <4>1. 5 \in Int /\ 4 + Len(payload) \in Int
        BY <1>1
      <4> QED BY <4>1, <2>1, SubSeqProperties
    <3>2. body = SubSeq(data, 5, 4 + Len(payload))
      BY DEF HeaderLength
    <3> HIDE DEF body
    <3> QED BY <1>1, <3>1, <3>2
  <2> HIDE DEF body
  <2>3. \A i \in 1 .. Len(payload) : body[i] = payload[i]
    BY <1>1, <1>6, <2>2
  <2> QED BY <2>2, <2>3, SeqEqual
<1>8. Len(payload) % (Base * Base) = Len(payload)
  BY <1>1, Truncated
<1>9. Len(data) >= 4 + Len(payload)
  BY DEF HeaderLength
<1> HIDE DEF body
<1>10. Deserialize(data) = [type |-> data[1], flags |-> data[2],
         payload_length |-> DecodedLength(data), payload |-> body]
  BY <1>1, <1>5, <1>9 DEF Deserialize, HeaderLength, body
<1> QED BY <1>4, <1>5, <1>7, <1>8, <1>10 DEF MakePacket

\* The payload of a PUB, byte by byte.
LEMMA PublishLayout ==
  ASSUME NEW t \in Seq(Byte), NEW m \in Seq(Byte)
  PROVE  LET p == PublishPayload(t, m) IN
         /\ p \in Seq(Byte)
         /\ Len(p) = 1 + Len(t) + Len(m)
         /\ p[1] = Len(t) % Base
         /\ \A i \in 1 .. Len(t) : p[1 + i] = t[i]
         /\ \A i \in 1 .. Len(m) : p[1 + Len(t) + i] = m[i]
<1> DEFINE l == <<Len(t) % Base>>
<1>1. Len(t) \in Nat /\ Len(m) \in Nat
  BY LenProperties
<1>2. Len(t) % Base \in Byte
  BY <1>1, CodecAssumption DEF Byte
<1>3. l \in Seq(Byte) /\ Len(l) = 1 /\ l[1] = Len(t) % Base
  BY <1>2
<1> HIDE DEF l
<1>4. /\ l \o t \in Seq(Byte) /\ Len(l \o t) = Len(l) + Len(t)
      /\ \A i \in 1 .. Len(l) + Len(t) :
           (l \o t)[i] = IF i <= Len(l) THEN l[i] ELSE t[i - Len(l)]
  BY <1>3, ConcatProperties
<1> DEFINE k == l \o t
           p == k \o m
<1>5. /\ k \in Seq(Byte) /\ Len(k) = 1 + Len(t) /\ k[1] = Len(t) % Base
      /\ \A i \in 1 .. Len(t) : k[1 + i] = t[i]
  BY <1>1, <1>3, <1>4
<1> HIDE DEF k
<1>6. /\ p \in Seq(Byte) /\ Len(p) = Len(k) + Len(m)
      /\ \A i \in 1 .. Len(k) + Len(m) :
           p[i] = IF i <= Len(k) THEN k[i] ELSE m[i - Len(k)]
  <2>1. k \in Seq(Byte)
    BY <1>5
  <2> QED BY <2>1, ConcatProperties
<1>7. p = PublishPayload(t, m)
  BY DEF p, k, l, PublishPayload
<1> HIDE DEF p
<1>8. Len(p) = 1 + Len(t) + Len(m)
  BY <1>5, <1>6
<1>9. \A i \in 1 .. 1 + Len(t) : p[i] = k[i]
  BY <1>1, <1>5, <1>6
<1>10. p[1] = Len(t) % Base /\ \A i \in 1 .. Len(t) : p[1 + i] = t[i]
  BY <1>1, <1>5, <1>9
<1>11. ASSUME NEW i \in 1 .. Len(m) PROVE p[1 + Len(t) + i] = m[i]
  <2>1. /\ 1 + Len(t) + i \in 1 .. Len(k) + Len(m)
        /\ ~(1 + Len(t) + i <= Len(k))
        /\ (1 + Len(t) + i) - Len(k) = i
    BY <1>1, <1>5
  <2> QED BY <2>1, <1>6
<1> QED BY <1>6, <1>7, <1>8, <1>10, <1>11

\* A publication survives its layout exactly when its topic's length fits a byte
\* and its message is not empty.
THEOREM PublicationRoundTrip ==
  ASSUME NEW t \in Seq(Byte), NEW m \in Seq(Byte)
  PROVE  SplitPublish(PublishPayload(t, m)) = [topic |-> t, message |-> m]
           <=> Len(t) < Base /\ m # <<>>
<1> DEFINE p == PublishPayload(t, m)
           l == Len(t) % Base
<1>1. /\ p \in Seq(Byte) /\ Len(p) = 1 + Len(t) + Len(m) /\ p[1] = l
      /\ \A i \in 1 .. Len(t) : p[1 + i] = t[i]
      /\ \A i \in 1 .. Len(m) : p[1 + Len(t) + i] = m[i]
  BY PublishLayout
<1>2. Len(t) \in Nat /\ Len(m) \in Nat /\ (m = <<>> <=> Len(m) = 0)
  BY LenProperties, EmptySeq
<1>3. l \in 0 .. Base - 1 /\ (Len(t) < Base => l = Len(t))
  BY <1>2, CodecAssumption
<1> HIDE DEF p, l
<1>4. DOMAIN p = 1 .. Len(p) /\ \A i \in 1 .. Len(p) : p[i] \in Byte
  BY <1>1, LenProperties, ElementOfSeq
<1>5. CASE Len(p) > 1 /\ Len(p) > l + 1
  <2>1. SplitPublish(p) = [topic |-> SubSeq(p, 2, 1 + l), message |-> SubSeq(p, 2 + l, Len(p))]
    BY <1>5, <1>1 DEF SplitPublish
  <2> DEFINE ts == SubSeq(p, 2, 1 + l)
             ms == SubSeq(p, 2 + l, Len(p))
  <2>2. 2 \in Int /\ 1 + l \in Int /\ 2 + l \in Int /\ Len(p) \in Int
    BY <1>1, <1>2, <1>3
  <2>3. (\A i \in 2 .. 1 + l : p[i] \in Byte) /\ (\A i \in 2 + l .. Len(p) : p[i] \in Byte)
    BY <1>1, <1>2, <1>3, <1>4, <1>5, CodecAssumption
  <2>4. /\ ts \in Seq(Byte) /\ Len(ts) = (IF 2 <= 1 + l THEN (1 + l) - 2 + 1 ELSE 0)
        /\ \A i \in 1 .. (1 + l) - 2 + 1 : ts[i] = p[2 + i - 1]
    BY <2>2, <2>3, SubSeqProperties
  <2>5. /\ ms \in Seq(Byte) /\ Len(ms) = (IF 2 + l <= Len(p) THEN Len(p) - (2 + l) + 1 ELSE 0)
        /\ \A i \in 1 .. Len(p) - (2 + l) + 1 : ms[i] = p[(2 + l) + i - 1]
    BY <2>2, <2>3, SubSeqProperties
  <2> HIDE DEF ts, ms
  <2>6. Len(ts) = l /\ \A i \in 1 .. l : ts[i] = p[1 + i]
    BY <2>4, <1>3, CodecAssumption
  <2>7. Len(ms) = Len(p) - 1 - l /\ \A i \in 1 .. Len(p) - 1 - l : ms[i] = p[1 + l + i]
    BY <2>5, <1>5, <1>1, <1>2, <1>3, CodecAssumption
  <2>8. CASE Len(t) < Base
    <3>1. l = Len(t)
      BY <2>8, <1>3
    <3>2. ts = t
      BY <3>1, <2>4, <2>6, <1>1, SeqEqual
    <3>3. Len(ms) = Len(m) /\ \A i \in 1 .. Len(m) : ms[i] = m[i]
      <4>1. Len(p) - 1 - l = Len(m)
        BY <3>1, <1>1, <1>2
      <4> QED BY <4>1, <3>1, <2>7, <1>1
    <3>4. ms = m
      BY <3>3, <2>5, SeqEqual
    <3>5. Len(m) # 0
      BY <1>5, <1>1, <3>1, <1>2
    <3> QED BY <2>1, <3>2, <3>4, <3>5, <2>8, <1>2 DEF p, ts, ms
  <2>9. CASE ~(Len(t) < Base)
    <3>1. Len(ts) # Len(t)
      <4>1. Base \in Nat
        BY CodecAssumption
      <4> QED BY <4>1, <2>9, <2>6, <1>3, <1>2
    <3>2. ts # t
      BY <3>1
    <3> QED BY <2>1, <3>2, <2>9 DEF p, ts, ms
  <2> QED BY <2>8, <2>9
<1>6. CASE ~(Len(p) > 1 /\ Len(p) > l + 1)
  <2>1. SplitPublish(p) = NoPublication
    BY <1>6, <1>1 DEF SplitPublish
  <2>2. SplitPublish(p) # [topic |-> t, message |-> m]
    BY <2>1, NothingAssumption
  <2>3. ~(Len(t) < Base /\ m # <<>>)
    BY <1>6, <1>1, <1>2, <1>3
  <2> QED BY <2>2, <2>3 DEF p
<1> QED BY <1>5, <1>6

-----------------------------------------------------------------------------
(***************************************************************************)
(* The inductive invariant.  Up to the first packet that is not clean, the *)
(* packets lie on the connection one behind the other, whole, and the      *)
(* reader is at the boundary of one of them.                               *)
(***************************************************************************)
Bytes(r) == Serialize(MakePacket(r.type, Payload(r)))
Size(r) == HeaderLength + Len(Payload(r))
StartOf(n) == IF n <= Len(sent) THEN sent[n].start ELSE Len(stream)

CutInv == \A i \in 1 .. Len(sent) : sent[i].left > 0 => sent[i].cut

BlockInv ==
  \A i \in 1 .. Len(sent) : ~sent[i].cut =>
    /\ sent[i].start + Size(sent[i].request) <= Len(stream)
    /\ \A j \in 1 .. Size(sent[i].request) :
         stream[sent[i].start + j] = Bytes(sent[i].request)[j]

ChainInv ==
  /\ StartOf(1) = 0
  /\ \A n \in 1 .. Len(sent) : CleanUpTo(n) =>
       StartOf(n + 1) = sent[n].start + Size(sent[n].request)

ReaderInv ==
  CleanUpTo(Len(got)) =>
    /\ Len(got) <= Len(sent)
    /\ reader = "header" => pos = StartOf(Len(got) + 1)
    /\ CleanUpTo(Len(got) + 1) =>
         /\ reader # "astray"
         /\ reader = "payload" =>
              /\ Len(got) < Len(sent)
              /\ pos = sent[Len(got) + 1].start + HeaderLength
              /\ header = [type |-> sent[Len(got) + 1].request.type,
                           payload_length |-> Len(Payload(sent[Len(got) + 1].request))]

WireInv == TypeOK /\ CutInv /\ BlockInv /\ ChainInv /\ ReaderInv /\ InStep

Cell == Byte \cup {Freed}
Call == [request : Requests, start : Nat, left : Nat, cut : BOOLEAN]

LEMMA RequestFacts ==
  ASSUME NEW r \in Requests
  PROVE  /\ r.type \in Byte
         /\ Payload(r) \in Seq(Byte)
         /\ Len(Payload(r)) \in Nat
         /\ Bytes(r) \in Seq(Byte)
         /\ Len(Bytes(r)) = Size(r)
         /\ Size(r) \in Nat /\ Size(r) >= 4
<1>1. r.type \in {Pub, Ack} /\ r.topic \in Seq(Byte) /\ r.message \in Seq(Byte)
  BY WireAssumption
<1>2. r.type \in Byte
  BY <1>1, CodecAssumption DEF Byte
<1>3. Payload(r) \in Seq(Byte)
  <2>1. PublishPayload(r.topic, r.message) \in Seq(Byte)
    BY <1>1, PublishLayout
  <2>2. <<>> \in Seq(Byte)
    OBVIOUS
  <2> QED BY <2>1, <2>2 DEF Payload
<1>4. Len(Payload(r)) \in Nat
  BY <1>3, LenProperties
<1>5. Bytes(r) \in Seq(Byte) /\ Len(Bytes(r)) = Size(r)
  BY <1>2, <1>3, SerializeLayout DEF Bytes, Size
<1> QED BY <1>2, <1>3, <1>4, <1>5 DEF Size, HeaderLength

\* What appending x does to the stream.
LEMMA Appended ==
  ASSUME NEW s \in Seq(Cell), NEW x \in Seq(Cell)
  PROVE  /\ s \o x \in Seq(Cell)
         /\ Len(s \o x) = Len(s) + Len(x)
         /\ Len(s) \in Nat /\ Len(x) \in Nat
         /\ \A j \in 1 .. Len(s) : (s \o x)[j] = s[j]
         /\ \A j \in 1 .. Len(x) : (s \o x)[Len(s) + j] = x[j]
<1>1. Len(s) \in Nat /\ Len(x) \in Nat
  BY LenProperties
<1>2. /\ s \o x \in Seq(Cell) /\ Len(s \o x) = Len(s) + Len(x)
      /\ \A i \in 1 .. Len(s) + Len(x) :
           (s \o x)[i] = IF i <= Len(s) THEN s[i] ELSE x[i - Len(s)]
  BY ConcatProperties
<1>3. ASSUME NEW j \in 1 .. Len(x) PROVE (s \o x)[Len(s) + j] = x[j]
  <2>1. Len(s) + j \in 1 .. Len(s) + Len(x) /\ ~(Len(s) + j <= Len(s)) /\ (Len(s) + j) - Len(s) = j
    BY <1>1
  <2> QED BY <2>1, <1>2
<1>4. \A j \in 1 .. Len(s) : (s \o x)[j] = s[j]
  BY <1>1, <1>2
<1> QED BY <1>1, <1>2, <1>3, <1>4

LEMMA SendFacts ==
  ASSUME TypeOK, NEW r \in Requests, Send(r)
  PROVE  LET c == sent'[Len(sent) + 1] IN
         /\ sent' \in Seq(Call) /\ Len(sent') = Len(sent) + 1
         /\ \A i \in 1 .. Len(sent) : sent'[i] = sent[i]
         /\ c.request = r /\ c.start = Len(stream) /\ (c.left > 0 => c.cut)
         /\ stream' \in Seq(Cell) /\ Len(stream') >= Len(stream)
         /\ \A j \in 1 .. Len(stream) : stream'[j] = stream[j]
         /\ ~c.cut => /\ Len(stream') = Len(stream) + Size(r)
                      /\ \A j \in 1 .. Size(r) : stream'[Len(stream) + j] = Bytes(r)[j]
<1> DEFINE b == Bytes(r)
<1>0. /\ stream \in Seq(Cell) /\ sent \in Seq(Call) /\ Len(stream) \in Nat /\ Len(sent) \in Nat
      /\ pos \in Nat /\ Room \in Nat /\ MaxTransfer \in Nat
  BY WireAssumption, LenProperties DEF TypeOK, Cell, Call
<1>1. /\ b \in Seq(Byte) /\ Len(b) = Size(r) /\ Size(r) \in Nat /\ Size(r) >= 4
  BY RequestFacts
<1>2. PICK k \in Pieces(Len(b)) :
        /\ stream' = stream \o SubSeq(b, 1, k)
        /\ sent' = Append(sent, [request |-> r, start |-> Len(stream),
                                left |-> Len(b) - k, cut |-> k < Len(b)])
  BY DEF Send, Bytes
<1> HIDE DEF b
<1>3. k \in Int /\ k <= Len(b)
  BY <1>0, <1>1, <1>2 DEF Pieces, AtMost, Free
<1> DEFINE x == SubSeq(b, 1, k)
           c == [request |-> r, start |-> Len(stream), left |-> Len(b) - k, cut |-> k < Len(b)]
<1>4. x \in Seq(Cell)
  <2>1. \A i \in 1 .. k : b[i] \in Cell
    BY <1>1, <1>3, ElementOfSeq DEF Cell
  <2> QED BY <2>1, <1>3, SubSeqProperties
<1>5. k = Len(b) => x = b
  BY <1>1, SubSeqFull
<1>6. c \in Call /\ c.request = r /\ c.start = Len(stream) /\ (c.left > 0 => c.cut)
      /\ (~c.cut => k = Len(b))
  <2>1. Len(b) - k \in Nat /\ (Len(b) - k > 0 <=> k < Len(b)) /\ (~(k < Len(b)) => k = Len(b))
    BY <1>0, <1>1, <1>3
  <2>2. (k < Len(b)) \in BOOLEAN
    OBVIOUS
  <2>3. c.request = r /\ c.start = Len(stream) /\ c.left = Len(b) - k /\ c.cut = (k < Len(b))
    OBVIOUS
  <2>4. c \in Call
    BY <1>0, <2>1, <2>2 DEF Call
  <2> HIDE DEF c
  <2> QED BY <2>1, <2>3, <2>4
<1> HIDE DEF x, c
<1>7. sent' = Append(sent, c) /\ stream' = stream \o x
  BY <1>2 DEF c, x
<1>8. /\ sent' \in Seq(Call) /\ Len(sent') = Len(sent) + 1
      /\ \A i \in 1 .. Len(sent) : sent'[i] = sent[i]
      /\ sent'[Len(sent) + 1] = c
  BY <1>0, <1>6, <1>7
<1>9. /\ stream' \in Seq(Cell) /\ Len(stream') = Len(stream) + Len(x) /\ Len(x) \in Nat
      /\ \A j \in 1 .. Len(stream) : stream'[j] = stream[j]
      /\ \A j \in 1 .. Len(x) : stream'[Len(stream) + j] = x[j]
  BY <1>0, <1>4, <1>7, Appended
<1>10. Len(stream') >= Len(stream)
  BY <1>0, <1>9
<1>11. ~c.cut => /\ Len(stream') = Len(stream) + Size(r)
                /\ \A j \in 1 .. Size(r) : stream'[Len(stream) + j] = b[j]
  BY <1>1, <1>5, <1>6, <1>9
<1> QED BY <1>6, <1>8, <1>9, <1>10, <1>11 DEF b

LEMMA RestFacts ==
  ASSUME TypeOK, NEW i \in DOMAIN sent, WriteRest(i)
  PROVE  /\ sent' \in Seq(Call) /\ Len(sent') = Len(sent)
         /\ \A n \in 1 .. Len(sent) :
              /\ sent'[n].request = sent[n].request /\ sent'[n].start = sent[n].start
              /\ sent'[n].cut = sent[n].cut
              /\ sent'[n].left > 0 => sent[n].left > 0
         /\ sent[i].left > 0 /\ i \in 1 .. Len(sent)
         /\ stream' \in Seq(Cell) /\ Len(stream') >= Len(stream)
         /\ \A j \in 1 .. Len(stream) : stream'[j] = stream[j]
<1> DEFINE k == AtMost(AtMost(sent[i].left, MaxTransfer), Free)
           x == [j \in 1 .. k |-> Freed]
<1>0. /\ stream \in Seq(Cell) /\ sent \in Seq(Call) /\ Len(stream) \in Nat /\ Len(sent) \in Nat
      /\ pos \in Nat /\ Room \in Nat /\ MaxTransfer \in Nat /\ i \in 1 .. Len(sent)
  BY WireAssumption, LenProperties DEF TypeOK, Cell, Call
<1>1. sent[i] \in Call
  BY <1>0, ElementOfSeq
<1>2. k \in Int /\ k <= sent[i].left /\ k > 0 /\ sent[i].left \in Nat
  BY <1>0, <1>1 DEF Call, WriteRest, AtMost, Free
<1>3. stream' = stream \o x /\ sent' = [sent EXCEPT ![i].left = sent[i].left - k]
  BY DEF WriteRest
<1> HIDE DEF k
<1>4. x \in Seq(Cell)
  BY <1>2 DEF Cell
<1> HIDE DEF x
<1>5. /\ stream' \in Seq(Cell) /\ Len(stream') = Len(stream) + Len(x) /\ Len(x) \in Nat
      /\ \A j \in 1 .. Len(stream) : stream'[j] = stream[j]
  BY <1>0, <1>3, <1>4, Appended
<1> DEFINE c == [sent[i] EXCEPT !.left = sent[i].left - k]
<1>6. c \in Call /\ c.request = sent[i].request /\ c.start = sent[i].start
      /\ c.cut = sent[i].cut /\ (c.left > 0 => sent[i].left > 0)
  BY <1>1, <1>2 DEF Call
<1> HIDE DEF c
<1>7. sent' = [sent EXCEPT ![i] = c]
  BY <1>3 DEF c
<1>8. /\ sent' \in Seq(Call) /\ Len(sent') = Len(sent)
      /\ \A n \in 1 .. Len(sent) : sent'[n] = IF n = i THEN c ELSE sent[n]
  BY <1>0, <1>6, <1>7, ExceptSeq
<1>9. ASSUME NEW n \in 1 .. Len(sent)
      PROVE  /\ sent'[n].request = sent[n].request /\ sent'[n].start = sent[n].start
             /\ sent'[n].cut = sent[n].cut
             /\ sent'[n].left > 0 => sent[n].left > 0
  <2>1. CASE n = i
    BY <1>6, <1>8, <2>1
  <2>2. CASE n # i
    BY <1>8, <2>2
  <2> QED BY <2>1, <2>2
<1>10. stream' \in Seq(Cell) /\ Len(stream') >= Len(stream)
  BY <1>0, <1>5
<1> QED BY <1>0, <1>2, <1>5, <1>8, <1>9, <1>10

LEMMA WireTypes ==
  ASSUME TypeOK
  PROVE  /\ stream \in Seq(Cell) /\ Len(stream) \in Nat /\ pos \in 0 .. Len(stream)
         /\ sent \in Seq(Call) /\ Len(sent) \in Nat /\ DOMAIN sent = 1 .. Len(sent)
         /\ \A i \in 1 .. Len(sent) :
              /\ sent[i].request \in Requests /\ sent[i].start \in Nat
              /\ sent[i].cut \in BOOLEAN /\ sent[i].left \in Nat
         /\ got \in Seq([type : Byte, payload : Seq(Cell)]) /\ Len(got) \in Nat
<1>1. /\ stream \in Seq(Cell) /\ sent \in Seq(Call) /\ got \in Seq([type : Byte, payload : Seq(Cell)])
      /\ pos \in 0 .. Len(stream)
  BY DEF TypeOK, Cell, Call
<1>2. \A i \in 1 .. Len(sent) : sent[i] \in Call
  BY <1>1, ElementOfSeq
<1> QED BY <1>1, <1>2, LenProperties DEF Call

\* The calls made so far keep their request and stay clean or not.
LEMMA StaysClean ==
  ASSUME TypeOK, TypeOK', Len(sent') >= Len(sent),
         \A i \in 1 .. Len(sent) : /\ sent'[i].request = sent[i].request
                                  /\ sent'[i].cut = sent[i].cut
  PROVE  /\ \A n : CleanUpTo(n)' => CleanUpTo(n)
         /\ \A i \in 1 .. Len(sent) : Clean(i)' <=> Clean(i)
<1>1. /\ DOMAIN sent = 1 .. Len(sent) /\ DOMAIN sent' = 1 .. Len(sent')
      /\ Len(sent) \in Nat /\ Len(sent') \in Nat
  BY LenProperties DEF TypeOK
<1>2. \A i \in 1 .. Len(sent) : Clean(i)' <=> Clean(i)
  BY DEF Clean, Payload
<1>3. \A i \in 1 .. Len(sent) : i \in 1 .. Len(sent')
  BY <1>1
<1> QED BY <1>1, <1>2, <1>3 DEF CleanUpTo

LEMMA SendStep ==
  ASSUME WireInv, NEW r \in Requests, Send(r)
  PROVE  WireInv'
<1> DEFINE k == Len(sent) + 1
<1>0. TypeOK /\ CutInv /\ BlockInv /\ ChainInv /\ ReaderInv /\ InStep
  BY DEF WireInv
<1>1. /\ sent' \in Seq(Call) /\ Len(sent') = Len(sent) + 1
      /\ \A i \in 1 .. Len(sent) : sent'[i] = sent[i]
      /\ sent'[k].request = r /\ sent'[k].start = Len(stream) /\ (sent'[k].left > 0 => sent'[k].cut)
      /\ stream' \in Seq(Cell) /\ Len(stream') >= Len(stream)
      /\ \A j \in 1 .. Len(stream) : stream'[j] = stream[j]
      /\ ~sent'[k].cut => /\ Len(stream') = Len(stream) + Size(r)
                         /\ \A j \in 1 .. Size(r) : stream'[Len(stream) + j] = Bytes(r)[j]
  BY <1>0, SendFacts
<1>2. UNCHANGED <<pos, reader, header, got>>
  BY DEF Send
<1>3. /\ Len(stream) \in Nat /\ pos \in 0 .. Len(stream) /\ Len(sent) \in Nat /\ Len(got) \in Nat
      /\ \A i \in 1 .. Len(sent) :
              /\ sent[i].request \in Requests /\ sent[i].start \in Nat
              /\ sent[i].cut \in BOOLEAN /\ sent[i].left \in Nat
  BY <1>0, WireTypes
<1>4. TypeOK'
  <2>1. pos' \in 0 .. Len(stream') /\ Len(stream') \in Nat
    BY <1>1, <1>2, <1>3, LenProperties
  <2> QED BY <1>0, <1>1, <1>2, <2>1 DEF TypeOK, Cell, Call
<1>5. /\ \A n : CleanUpTo(n)' => CleanUpTo(n)
      /\ \A i \in 1 .. Len(sent) : Clean(i)' <=> Clean(i)
  BY <1>0, <1>1, <1>3, <1>4, StaysClean
<1>6. \A i \in 1 .. Len(sent') : i \in 1 .. Len(sent) \/ i = k
  BY <1>1, <1>3
<1>7. Len(stream') \in Nat /\ DOMAIN sent' = 1 .. k
  BY <1>1, LenProperties
<1>8. CutInv'
  BY <1>0, <1>1, <1>6 DEF CutInv
<1>9. BlockInv'
  <2> SUFFICES ASSUME NEW i \in 1 .. Len(sent'), ~sent'[i].cut
               PROVE  /\ sent'[i].start + Size(sent'[i].request) <= Len(stream')
                      /\ \A j \in 1 .. Size(sent'[i].request) :
                           stream'[sent'[i].start + j] = Bytes(sent'[i].request)[j]
    BY DEF BlockInv, Size, Bytes, Payload
  <2>1. CASE i = k
    BY <2>1, <1>1, <1>7
  <2>2. CASE i \in 1 .. Len(sent)
    <3>1. /\ sent'[i] = sent[i] /\ sent[i].start \in Nat
          /\ Size(sent[i].request) \in Nat
      BY <2>2, <1>1, <1>3, RequestFacts
    <3>2. /\ sent[i].start + Size(sent[i].request) <= Len(stream)
          /\ \A j \in 1 .. Size(sent[i].request) :
               stream[sent[i].start + j] = Bytes(sent[i].request)[j]
      BY <2>2, <3>1, <1>0 DEF BlockInv
    <3>3. \A j \in 1 .. Size(sent[i].request) : sent[i].start + j \in 1 .. Len(stream)
      BY <3>1, <3>2, <1>3
    <3>4. \A j \in 1 .. Size(sent[i].request) :
            stream'[sent[i].start + j] = Bytes(sent[i].request)[j]
      BY <3>2, <3>3, <1>1
    <3>5. sent[i].start + Size(sent[i].request) <= Len(stream')
      BY <3>1, <3>2, <1>1, <1>3, <1>7
    <3> QED BY <3>1, <3>4, <3>5
  <2> QED BY <2>1, <2>2, <1>6
<1>10. \A n \in 1 .. k : StartOf(n)' = StartOf(n)
  BY <1>1, <1>3 DEF StartOf
<1>11. ChainInv'
  <2>1. StartOf(1)' = 0
    BY <1>0, <1>3, <1>10 DEF ChainInv
  <2>2. ASSUME NEW n \in 1 .. Len(sent'), CleanUpTo(n)'
        PROVE  StartOf(n + 1)' = sent'[n].start + Size(sent'[n].request)
    <3>1. CASE n = k
      <4>1. ~sent'[k].cut
        BY <2>2, <3>1, <1>7, <1>3 DEF CleanUpTo, Clean
      <4>2. StartOf(n + 1)' = Len(stream')
        BY <3>1, <1>1, <1>3 DEF StartOf
      <4> QED BY <3>1, <4>1, <4>2, <1>1
    <3>2. CASE n \in 1 .. Len(sent)
      <4>1. n + 1 \in 1 .. k
        BY <3>2, <1>3
      <4>2. StartOf(n + 1) = sent[n].start + Size(sent[n].request)
        BY <3>2, <2>2, <1>0, <1>5 DEF ChainInv
      <4> QED BY <4>1, <4>2, <3>2, <1>1, <1>10
    <3> QED BY <3>1, <3>2, <1>6
  <2> QED BY <2>1, <2>2 DEF ChainInv, Size, Payload
<1>12. ReaderInv'
  <2> SUFFICES ASSUME CleanUpTo(Len(got))'
               PROVE  ( /\ Len(got) <= Len(sent)
                        /\ reader = "header" => pos = StartOf(Len(got) + 1)
                        /\ CleanUpTo(Len(got) + 1) =>
                             /\ reader # "astray"
                             /\ reader = "payload" =>
                                  /\ Len(got) < Len(sent)
                                  /\ pos = sent[Len(got) + 1].start + HeaderLength
                                  /\ header = [type |-> sent[Len(got) + 1].request.type,
                                      payload_length |-> Len(Payload(sent[Len(got) + 1].request))])'
    BY DEF ReaderInv
  <2>1. /\ Len(got) <= Len(sent)
        /\ reader = "header" => pos = StartOf(Len(got) + 1)
        /\ CleanUpTo(Len(got) + 1) =>
             /\ reader # "astray"
             /\ reader = "payload" =>
                  /\ Len(got) < Len(sent)
                  /\ pos = sent[Len(got) + 1].start + HeaderLength
                  /\ header = [type |-> sent[Len(got) + 1].request.type,
                      payload_length |-> Len(Payload(sent[Len(got) + 1].request))]
    BY <1>0, <1>2, <1>5 DEF ReaderInv
  <2>2. Len(got) + 1 \in 1 .. k /\ Len(got') <= Len(sent')
    BY <2>1, <1>1, <1>2, <1>3
  <2>3. reader' = "header" => pos' = StartOf(Len(got) + 1)'
    BY <2>1, <2>2, <1>2, <1>10
  <2>4. ASSUME CleanUpTo(Len(got) + 1)', reader' = "payload"
        PROVE  /\ Len(got') < Len(sent')
               /\ pos' = sent'[Len(got') + 1].start + HeaderLength
               /\ header' = [type |-> sent'[Len(got') + 1].request.type,
                   payload_length |-> Len(Payload(sent'[Len(got') + 1].request))]
    <3>1. Len(got) < Len(sent) /\ CleanUpTo(Len(got) + 1)
      BY <2>1, <2>4, <1>2, <1>5
    <3>2. sent'[Len(got) + 1] = sent[Len(got) + 1] /\ Len(got) < Len(sent')
      BY <3>1, <1>1, <1>3
    <3> QED BY <2>1, <2>4, <3>1, <3>2, <1>2
  <2>5. CleanUpTo(Len(got) + 1)' => reader' # "astray"
    BY <2>1, <1>2, <1>5
  <2> QED BY <2>2, <2>3, <2>4, <2>5 DEF Payload
<1>13. InStep'
  <2> SUFFICES ASSUME NEW n \in 1 .. Len(got), CleanUpTo(n)'
               PROVE  /\ n <= Len(sent')
                      /\ got[n] = [type |-> sent'[n].request.type, payload |-> Payload(sent'[n].request)]
    BY <1>2 DEF InStep, Payload
  <2>1. n <= Len(sent) /\ got[n] = [type |-> sent[n].request.type, payload |-> Payload(sent[n].request)]
    BY <1>0, <1>5 DEF InStep
  <2>2. sent'[n] = sent[n] /\ n <= Len(sent')
    BY <2>1, <1>1, <1>3
  <2> QED BY <2>1, <2>2
<1> QED BY <1>4, <1>8, <1>9, <1>11, <1>12, <1>13 DEF WireInv

LEMMA RestStep ==
  ASSUME WireInv, NEW i \in DOMAIN sent, WriteRest(i)
  PROVE  WireInv'
<1>0. TypeOK /\ CutInv /\ BlockInv /\ ChainInv /\ ReaderInv /\ InStep
  BY DEF WireInv
<1>1. /\ sent' \in Seq(Call) /\ Len(sent') = Len(sent)
      /\ \A n \in 1 .. Len(sent) :
           /\ sent'[n].request = sent[n].request /\ sent'[n].start = sent[n].start
           /\ sent'[n].cut = sent[n].cut
           /\ sent'[n].left > 0 => sent[n].left > 0
      /\ sent[i].left > 0 /\ i \in 1 .. Len(sent)
      /\ stream' \in Seq(Cell) /\ Len(stream') >= Len(stream)
      /\ \A j \in 1 .. Len(stream) : stream'[j] = stream[j]
  BY <1>0, RestFacts
<1>2. UNCHANGED <<pos, reader, header, got>>
  BY DEF WriteRest
<1>3. /\ Len(stream) \in Nat /\ pos \in 0 .. Len(stream) /\ Len(sent) \in Nat /\ Len(got) \in Nat
      /\ \A n \in 1 .. Len(sent) :
              /\ sent[n].request \in Requests /\ sent[n].start \in Nat
              /\ sent[n].cut \in BOOLEAN /\ sent[n].left \in Nat
      /\ DOMAIN sent = 1 .. Len(sent)
  BY <1>0, WireTypes
<1>4. TypeOK'
  <2>1. pos' \in 0 .. Len(stream') /\ Len(stream') \in Nat
    BY <1>1, <1>2, <1>3, LenProperties
  <2> QED BY <1>0, <1>1, <1>2, <2>1 DEF TypeOK, Cell, Call
<1>5. \A n : CleanUpTo(n)' => CleanUpTo(n)
  BY <1>0, <1>1, <1>3, <1>4, StaysClean
<1>6. CutInv'
  BY <1>0, <1>1 DEF CutInv
<1>7. BlockInv'
  <2> SUFFICES ASSUME NEW n \in 1 .. Len(sent'), ~sent'[n].cut
               PROVE  /\ sent'[n].start + Size(sent'[n].request) <= Len(stream')
                      /\ \A j \in 1 .. Size(sent'[n].request) :
                           stream'[sent'[n].start + j] = Bytes(sent'[n].request)[j]
    BY DEF BlockInv, Size, Bytes, Payload
  <2>0. /\ n \in 1 .. Len(sent) /\ ~sent[n].cut
        /\ sent'[n].request = sent[n].request /\ sent'[n].start = sent[n].start
    BY <1>1
  <2>1. sent[n].start \in Nat /\ Size(sent[n].request) \in Nat
    BY <2>0, <1>3, RequestFacts
  <2>2. /\ sent[n].start + Size(sent[n].request) <= Len(stream)
        /\ \A j \in 1 .. Size(sent[n].request) :
             stream[sent[n].start + j] = Bytes(sent[n].request)[j]
    BY <2>0, <1>0 DEF BlockInv
  <2>3. \A j \in 1 .. Size(sent[n].request) : sent[n].start + j \in 1 .. Len(stream)
    BY <2>1, <2>2, <1>3
  <2>4. \A j \in 1 .. Size(sent[n].request) :
          stream'[sent[n].start + j] = Bytes(sent[n].request)[j]
    BY <2>2, <2>3, <1>1
  <2>5. Len(stream') \in Nat
    BY <1>1, LenProperties
  <2>6. sent[n].start + Size(sent[n].request) <= Len(stream')
    BY <2>1, <2>2, <2>5, <1>1, <1>3
  <2> QED BY <2>0, <2>4, <2>6
\* sent[i] is not clean, so nothing is claimed of the end of the stream.
<1>8. ~CleanUpTo(Len(sent))
  <2>1. ~Clean(i) /\ i \in 1 .. Len(sent)
    BY <1>0, <1>1 DEF CutInv, Clean
  <2> QED BY <2>1, <1>3 DEF CleanUpTo
<1>9. \A n \in 1 .. Len(sent) : StartOf(n)' = StartOf(n)
  BY <1>1, <1>3 DEF StartOf
<1>10. 1 \in 1 .. Len(sent)
  BY <1>1, <1>3
<1>11. ChainInv'
  <2>1. StartOf(1)' = 0
    BY <1>0, <1>9, <1>10 DEF ChainInv
  <2>2. ASSUME NEW n \in 1 .. Len(sent), CleanUpTo(n)'
        PROVE  StartOf(n + 1)' = sent[n].start + Size(sent[n].request)
    <3>1. CleanUpTo(n) /\ n # Len(sent)
      BY <2>2, <1>5, <1>8
    <3>2. n + 1 \in 1 .. Len(sent)
      <4>1. Len(sent) \in Nat /\ n # Len(sent)
        BY <3>1, <1>3
      <4> QED BY <4>1
    <3>3. StartOf(n + 1) = sent[n].start + Size(sent[n].request)
      BY <3>1, <1>0 DEF ChainInv
    <3>4. StartOf(n + 1)' = StartOf(n + 1)
      BY <3>2, <1>9
    <3> QED BY <3>3, <3>4
  <2> QED BY <2>1, <2>2, <1>1 DEF ChainInv, Size, Payload
<1>12. ReaderInv'
  <2>1. SUFFICES ASSUME CleanUpTo(Len(got))'
                 PROVE  ReaderInv'
    BY <1>2 DEF ReaderInv
  <2>2. Len(got) # Len(sent) /\ CleanUpTo(Len(got))
    BY <2>1, <1>2, <1>5, <1>8
  <2>3. Len(got) <= Len(sent) /\ (reader = "header" => pos = StartOf(Len(got) + 1))
    BY <1>0, <2>2 DEF ReaderInv
  <2>4. Len(got) + 1 \in 1 .. Len(sent)
    BY <2>2, <2>3, <1>3
  <2>5. /\ sent'[Len(got) + 1].request = sent[Len(got) + 1].request
        /\ sent'[Len(got) + 1].start = sent[Len(got) + 1].start
        /\ StartOf(Len(got) + 1)' = StartOf(Len(got) + 1)
    BY <1>1, <1>2, <1>9, <2>4
  <2>6. CleanUpTo(Len(got) + 1)' =>
          /\ reader # "astray"
          /\ reader = "payload" =>
              /\ Len(got) < Len(sent)
              /\ pos = sent[Len(got) + 1].start + HeaderLength
              /\ header = [type |-> sent[Len(got) + 1].request.type,
                           payload_length |-> Len(Payload(sent[Len(got) + 1].request))]
    BY <1>0, <1>2, <1>5, <2>2 DEF ReaderInv
  <2> QED BY <2>3, <2>5, <2>6, <1>1, <1>2 DEF ReaderInv, Payload
<1>13. InStep'
  <2> SUFFICES ASSUME NEW n \in 1 .. Len(got), CleanUpTo(n)'
               PROVE  /\ n <= Len(sent)
                      /\ got[n] = [type |-> sent'[n].request.type, payload |-> Payload(sent'[n].request)]
    BY <1>1, <1>2 DEF InStep, Payload
  <2>1. n <= Len(sent) /\ got[n] = [type |-> sent[n].request.type, payload |-> Payload(sent[n].request)]
    BY <1>0, <1>5 DEF InStep
  <2>2. sent'[n].request = sent[n].request
    BY <2>1, <1>1, <1>3
  <2> QED BY <2>1, <2>2
<1> QED BY <1>4, <1>6, <1>7, <1>11, <1>12, <1>13 DEF WireInv

\* What the reader finds at the boundary of a clean packet.
LEMMA AtBoundary ==
  ASSUME WireInv, CleanUpTo(Len(got) + 1), reader = "header",
         Len(stream) - pos >= HeaderLength
  PROVE  LET r == sent[Len(got) + 1].request IN
         /\ Len(got) + 1 \in 1 .. Len(sent)
         /\ Len(got) < Len(sent) /\ r \in Requests
         /\ pos = sent[Len(got) + 1].start
         /\ \A j \in 1 .. Size(r) : stream[pos + j] = Bytes(r)[j]
         /\ StartOf(Len(got) + 2) = pos + Size(r)
<1> DEFINE k == Len(got) + 1
           r == sent[k].request
<1>0. TypeOK /\ BlockInv /\ ChainInv /\ ReaderInv
  BY DEF WireInv
<1>1. /\ Len(stream) \in Nat /\ pos \in 0 .. Len(stream) /\ Len(sent) \in Nat /\ Len(got) \in Nat
      /\ DOMAIN sent = 1 .. Len(sent)
      /\ \A i \in 1 .. Len(sent) : sent[i].request \in Requests /\ sent[i].start \in Nat
  BY <1>0, WireTypes
<1>2. CleanUpTo(Len(got))
  BY <1>1 DEF CleanUpTo
<1>3. Len(got) <= Len(sent) /\ pos = StartOf(k)
  BY <1>0, <1>2 DEF ReaderInv
<1>4. k \in 1 .. Len(sent)
  BY <1>1, <1>3 DEF StartOf, HeaderLength
<1>5. pos = sent[k].start /\ Clean(k)
  BY <1>1, <1>3, <1>4 DEF StartOf, CleanUpTo
<1>6. \A j \in 1 .. Size(r) : stream[pos + j] = Bytes(r)[j]
  BY <1>0, <1>4, <1>5 DEF BlockInv, Clean
<1>7. StartOf(k + 1) = pos + Size(r)
  BY <1>0, <1>4, <1>5 DEF ChainInv
<1>8. k + 1 = Len(got) + 2 /\ Len(got) < Len(sent)
  BY <1>1, <1>4
<1> QED BY <1>1, <1>4, <1>5, <1>6, <1>7, <1>8

LEMMA HeaderStep ==
  ASSUME WireInv, ReadHeader
  PROVE  WireInv'
<1> DEFINE h == SubSeq(stream, pos + 1, pos + HeaderLength)
           k == Len(got) + 1
           r == sent[k].request
           p == [type |-> h[1], payload |-> <<>>]
<1>0. TypeOK /\ CutInv /\ BlockInv /\ ChainInv /\ ReaderInv /\ InStep
  BY DEF WireInv
<1>1. /\ Len(stream) \in Nat /\ pos \in 0 .. Len(stream) /\ Len(sent) \in Nat /\ Len(got) \in Nat
      /\ stream \in Seq(Cell) /\ got \in Seq([type : Byte, payload : Seq(Cell)])
  BY <1>0, WireTypes
<1>2. /\ reader = "header" /\ Len(stream) - pos >= 4 /\ pos' = pos + 4
      /\ UNCHANGED <<stream, sent>>
  BY DEF ReadHeader, HeaderLength
<1>3. \A i \in 1 .. 4 : h[i] = stream[pos + i] /\ h[i] \in Cell
  <2>1. \A i \in pos + 1 .. pos + 4 : stream[i] \in Cell
    BY <1>1, <1>2, ElementOfSeq
  <2>2. pos + 1 \in Int /\ pos + 4 \in Int
    BY <1>1
  <2>3. \A i \in 1 .. (pos + 4) - (pos + 1) + 1 : SubSeq(stream, pos + 1, pos + 4)[i] = stream[(pos + 1) + i - 1]
    BY <2>1, <2>2, SubSeqProperties
  <2>4. ASSUME NEW i \in 1 .. 4 PROVE h[i] = stream[pos + i] /\ h[i] \in Cell
    <3>1. i \in 1 .. (pos + 4) - (pos + 1) + 1 /\ (pos + 1) + i - 1 = pos + i /\ pos + i \in pos + 1 .. pos + 4
      BY <1>1
    <3> QED BY <3>1, <2>1, <2>3 DEF HeaderLength
  <2> QED BY <2>4
<1>4. CleanUpTo(k) =>
        /\ Freed \notin {h[i] : i \in 1 .. 4}
        /\ h[1] = r.type /\ DecodedLength(h) = Len(Payload(r))
        /\ Len(got) < Len(sent) /\ r \in Requests /\ pos = sent[k].start
        /\ StartOf(Len(got) + 2) = pos + 4 + Len(Payload(r))
  <2> SUFFICES ASSUME CleanUpTo(k)
               PROVE  /\ Freed \notin {h[i] : i \in 1 .. 4}
                      /\ h[1] = r.type /\ DecodedLength(h) = Len(Payload(r))
                      /\ Len(got) < Len(sent) /\ r \in Requests /\ pos = sent[k].start
                      /\ StartOf(Len(got) + 2) = pos + 4 + Len(Payload(r))
    OBVIOUS
  <2>1. /\ k \in 1 .. Len(sent) /\ Len(got) < Len(sent) /\ r \in Requests /\ pos = sent[k].start
        /\ \A j \in 1 .. Size(r) : stream[pos + j] = Bytes(r)[j]
        /\ StartOf(Len(got) + 2) = pos + Size(r)
    BY <1>2, AtBoundary DEF HeaderLength
  <2>2. /\ r.type \in Byte /\ Payload(r) \in Seq(Byte) /\ Len(Payload(r)) \in Nat
        /\ Bytes(r) \in Seq(Byte) /\ Len(Bytes(r)) = Size(r) /\ Size(r) \in Nat /\ Size(r) >= 4
    BY <2>1, RequestFacts
  <2>3. k \in DOMAIN sent
    BY <2>1, <1>0, WireTypes
  <2>4. Len(Payload(r)) <= MaxPayload
    <3>1. k \in 1 .. k
      BY <1>1
    <3> QED BY <2>3, <3>1 DEF CleanUpTo, Clean
  <2>5. Bytes(r)[1] = r.type /\ DecodedLength(Bytes(r)) = Len(Payload(r))
    BY <2>2, <2>4, SerializeLayout DEF Bytes
  <2>6. \A i \in 1 .. 4 : h[i] = Bytes(r)[i] /\ Bytes(r)[i] \in Byte
    <3>1. ASSUME NEW i \in 1 .. 4 PROVE h[i] = Bytes(r)[i] /\ Bytes(r)[i] \in Byte
      <4>1. i \in 1 .. Size(r) /\ i \in 1 .. Len(Bytes(r))
        BY <2>2
      <4>2. h[i] = stream[pos + i]
        BY <1>3
      <4> QED BY <4>1, <4>2, <2>1, <2>2, ElementOfSeq
    <3> QED BY <3>1
  <2> HIDE DEF h
  <2>7. Freed \notin {h[i] : i \in 1 .. 4}
    BY <2>6, WireAssumption
  <2>8. h[1] = r.type /\ DecodedLength(h) = Len(Payload(r))
    BY <2>5, <2>6 DEF DecodedLength
  <2>9. StartOf(Len(got) + 2) = pos + 4 + Len(Payload(r))
    <3>1. Size(r) = 4 + Len(Payload(r))
      BY DEF Size, HeaderLength
    <3>2. pos \in Nat /\ Len(Payload(r)) \in Nat
      BY <1>1, <2>2
    <3>3. pos + (4 + Len(Payload(r))) = pos + 4 + Len(Payload(r))
      BY <3>2
    <3> QED BY <3>1, <3>3, <2>1
  <2> QED BY <2>1, <2>7, <2>8, <2>9
<1>5. /\ \A n : CleanUpTo(n)' <=> CleanUpTo(n)
      /\ \A n : StartOf(n)' = StartOf(n)
  BY <1>2 DEF CleanUpTo, Clean, Payload, StartOf
<1>6. CutInv' /\ BlockInv' /\ ChainInv'
  <2>1. CutInv'
    BY <1>0, <1>2 DEF CutInv
  <2>2. BlockInv'
    BY <1>0, <1>2 DEF BlockInv, Size, Bytes, Payload
  <2>3. ChainInv'
    BY <1>0, <1>2, <1>5 DEF ChainInv, Size, Payload
  <2> QED BY <2>1, <2>2, <2>3
<1>7. pos' \in 0 .. Len(stream')
  BY <1>1, <1>2
<1>8. CleanUpTo(Len(got)) => Len(got) <= Len(sent) /\ pos = StartOf(k)
  BY <1>0, <1>2 DEF ReaderInv
<1>9. CleanUpTo(k) => CleanUpTo(Len(got))
  BY <1>1 DEF CleanUpTo
<1>10. CASE Freed \in {h[i] : i \in 1 .. 4}
  <2>1. reader' = "astray" /\ UNCHANGED <<header, got>>
    BY <1>10 DEF ReadHeader, HeaderLength
  <2>2. ~CleanUpTo(k)
    BY <1>4, <1>10
  <2> HIDE DEF h
  <2>3. TypeOK'
    BY <1>0, <1>2, <1>7, <2>1 DEF TypeOK
  <2>4. InStep'
    BY <1>0, <1>2, <1>5, <2>1 DEF InStep, Payload
  <2>5. ReaderInv'
    BY <1>2, <1>5, <1>8, <2>1, <2>2 DEF ReaderInv
  <2> QED BY <1>6, <2>3, <2>4, <2>5 DEF WireInv
<1> DEFINE hd == [type |-> h[1], payload_length |-> DecodedLength(h)]
<1>11. ASSUME Freed \notin {h[i] : i \in 1 .. 4}
       PROVE  hd \in [type : Byte, payload_length : 0 .. MaxPayload]
  <2> HIDE DEF h
  <2>1. h[1] \in Byte /\ h[3] \in Byte /\ h[4] \in Byte
    BY <1>3, <1>11 DEF Cell
  <2> QED BY <2>1, DecodedFits DEF DecodedLength
<1>14. \/ Freed \in {h[i] : i \in 1 .. 4}
       \/ /\ header' = hd
          /\ \/ DecodedLength(h) > 0 /\ reader' = "payload" /\ got' = got
             \/ DecodedLength(h) = 0 /\ reader' = reader /\ got' = Append(got, p)
  BY DEF ReadHeader, HeaderLength
<1>12. CASE Freed \notin {h[i] : i \in 1 .. 4} /\ DecodedLength(h) > 0
  <2>1. reader' = "payload" /\ header' = hd /\ got' = got
    <3> HIDE DEF h, hd, p
    <3> QED BY <1>12, <1>14
  <2>2. hd \in [type : Byte, payload_length : 0 .. MaxPayload]
    BY <1>11, <1>12
  <2>3. CleanUpTo(k) => hd = [type |-> r.type, payload_length |-> Len(Payload(r))]
    BY <1>4
  <2> HIDE DEF h, hd
  <2>4. TypeOK'
    BY <1>0, <1>2, <1>7, <2>1, <2>2 DEF TypeOK
  <2>5. InStep'
    BY <1>0, <1>2, <1>5, <2>1 DEF InStep, Payload
  <2>6. ReaderInv'
    BY <1>2, <1>4, <1>5, <1>8, <2>1, <2>3 DEF ReaderInv, HeaderLength, Payload
  <2> QED BY <1>6, <2>4, <2>5, <2>6 DEF WireInv
<1>13. CASE Freed \notin {h[i] : i \in 1 .. 4} /\ DecodedLength(h) = 0
  <2>1. reader' = reader /\ header' = hd /\ got' = Append(got, p)
    <3> HIDE DEF h, hd, p
    <3> QED BY <1>13, <1>14
  <2>2. hd \in [type : Byte, payload_length : 0 .. MaxPayload]
    BY <1>11, <1>13
  <2>3. CleanUpTo(k) =>
          p = [type |-> r.type, payload |-> Payload(r)] /\ StartOf(Len(got) + 2) = pos + 4
    <3> SUFFICES ASSUME CleanUpTo(k)
                 PROVE  p = [type |-> r.type, payload |-> Payload(r)] /\ StartOf(Len(got) + 2) = pos + 4
      OBVIOUS
    <3>1. /\ h[1] = r.type /\ Len(Payload(r)) = 0 /\ r \in Requests
          /\ StartOf(Len(got) + 2) = pos + 4 + Len(Payload(r))
      BY <1>4, <1>13
    <3>2. Payload(r) = <<>>
      BY <3>1, RequestFacts, EmptySeq
    <3>3. pos + 4 + 0 = pos + 4
      BY <1>1
    <3> HIDE DEF h
    <3> QED BY <3>1, <3>2, <3>3
  <2>4. p \in [type : Byte, payload : Seq(Cell)]
    <3> HIDE DEF h
    <3>1. h[1] \in Byte
      BY <1>3, <1>13 DEF Cell
    <3> QED BY <3>1
  <2> HIDE DEF h, hd, p
  <2>5. /\ Len(got') = k /\ got'[k] = p /\ got' \in Seq([type : Byte, payload : Seq(Cell)])
        /\ \A n \in 1 .. Len(got) : got'[n] = got[n]
    BY <1>1, <2>1, <2>4
  <2>6. TypeOK'
    BY <1>0, <1>2, <1>7, <2>1, <2>2, <2>5 DEF TypeOK, Cell
  <2>7. InStep'
    <3> SUFFICES ASSUME NEW n \in 1 .. k, CleanUpTo(n)
                 PROVE  n <= Len(sent) /\ got'[n] = [type |-> sent[n].request.type, payload |-> Payload(sent[n].request)]
      BY <1>2, <1>5, <2>5 DEF InStep, Payload
    <3>1. CASE n = k
      BY <3>1, <1>1, <1>4, <2>3, <2>5
    <3>2. CASE n \in 1 .. Len(got)
      BY <3>2, <1>0, <2>5 DEF InStep
    <3> QED BY <3>1, <3>2, <1>1
  <2>8. ReaderInv'
    <3>1. Len(got') + 1 = Len(got) + 2
      BY <1>1, <2>5
    <3>2. StartOf(Len(got) + 1)' = StartOf(Len(got) + 2)
      BY <3>1, <1>2 DEF StartOf
    <3>3. CleanUpTo(Len(got))' <=> CleanUpTo(k)
      BY <1>2, <2>5 DEF CleanUpTo, Clean, Payload
    <3>4. CleanUpTo(k) => Len(got') <= Len(sent') /\ pos' = StartOf(Len(got) + 1)'
      <4>1. CleanUpTo(k) => Len(got) < Len(sent)
        BY <1>4
      <4>2. CleanUpTo(k) => k <= Len(sent)
        BY <4>1, <1>0, <1>1, WireTypes
      <4> HIDE DEF k
      <4> QED BY <4>2, <3>2, <1>2, <2>3, <2>5
    <3>5. reader' = "header"
      BY <1>2, <2>1
    <3> HIDE DEF k
    <3> QED BY <3>3, <3>4, <3>5 DEF ReaderInv
  <2> QED BY <1>6, <2>6, <2>7, <2>8 DEF WireInv
<1> HIDE DEF h, hd, p
<1> QED BY <1>10, <1>12, <1>13, <1>14

LEMMA PayloadStep ==
  ASSUME WireInv, ReadPayload
  PROVE  WireInv'
<1> DEFINE n == header.payload_length
           k == Len(got) + 1
           r == sent[k].request
           x == SubSeq(stream, pos + 1, pos + n)
           p == [type |-> header.type, payload |-> x]
<1>0. TypeOK /\ CutInv /\ BlockInv /\ ChainInv /\ ReaderInv /\ InStep
  BY DEF WireInv
<1>1. /\ Len(stream) \in Nat /\ pos \in 0 .. Len(stream) /\ Len(sent) \in Nat /\ Len(got) \in Nat
      /\ DOMAIN sent = 1 .. Len(sent)
      /\ \A i \in 1 .. Len(sent) : sent[i].request \in Requests /\ sent[i].start \in Nat
      /\ stream \in Seq(Cell) /\ got \in Seq([type : Byte, payload : Seq(Cell)])
  BY <1>0, WireTypes
<1>2. /\ reader = "payload" /\ Len(stream) - pos >= n /\ pos' = pos + n
      /\ got' = Append(got, p) /\ reader' = "header"
      /\ UNCHANGED <<stream, sent, header>>
  BY DEF ReadPayload
<1>3. n \in Nat /\ header.type \in Byte
  <2>1. MaxPayload \in Int
    BY CodecAssumption DEF MaxPayload
  <2> QED BY <2>1, <1>0 DEF TypeOK
<1> HIDE DEF n
<1>4. x \in Seq(Cell) /\ Len(x) = n /\ \A i \in 1 .. n : x[i] = stream[pos + i]
  <2>1. \A i \in pos + 1 .. pos + n : stream[i] \in Cell
    <3>1. ASSUME NEW i \in pos + 1 .. pos + n PROVE stream[i] \in Cell
      <4>1. i \in 1 .. Len(stream)
        BY <1>1, <1>2, <1>3
      <4> QED BY <4>1, <1>1, ElementOfSeq
    <3> QED BY <3>1
  <2>2. pos + 1 \in Int /\ pos + n \in Int
    BY <1>1, <1>3
  <2>3. /\ x \in Seq(Cell)
        /\ Len(x) = IF pos + 1 <= pos + n THEN (pos + n) - (pos + 1) + 1 ELSE 0
        /\ \A i \in 1 .. (pos + n) - (pos + 1) + 1 : x[i] = stream[(pos + 1) + i - 1]
    BY <2>1, <2>2, SubSeqProperties
  <2> HIDE DEF x
  <2>4. Len(x) = n
    BY <2>3, <1>1, <1>3
  <2>5. ASSUME NEW i \in 1 .. n PROVE x[i] = stream[pos + i]
    <3>1. i \in 1 .. (pos + n) - (pos + 1) + 1 /\ (pos + 1) + i - 1 = pos + i
      BY <1>1, <1>3
    <3> QED BY <3>1, <2>3
  <2> QED BY <2>3, <2>4, <2>5
<1>5. CleanUpTo(k) =>
        /\ p = [type |-> r.type, payload |-> Payload(r)]
        /\ Len(got) < Len(sent)
        /\ StartOf(Len(got) + 2) = pos + n
  <2> SUFFICES ASSUME CleanUpTo(k)
               PROVE  /\ p = [type |-> r.type, payload |-> Payload(r)]
                      /\ Len(got) < Len(sent)
                      /\ StartOf(Len(got) + 2) = pos + n
    OBVIOUS
  <2>1. CleanUpTo(Len(got))
    BY <1>1 DEF CleanUpTo
  <2>2. /\ Len(got) < Len(sent) /\ pos = sent[k].start + 4
        /\ header = [type |-> r.type, payload_length |-> Len(Payload(r))]
    BY <2>1, <1>0, <1>2 DEF ReaderInv, HeaderLength
  <2>3. k \in 1 .. Len(sent) /\ r \in Requests /\ sent[k].start \in Nat /\ Clean(k)
    <3>1. k \in 1 .. Len(sent) /\ k \in 1 .. k
      BY <2>2, <1>1
    <3> QED BY <3>1, <1>1 DEF CleanUpTo
  <2>4. /\ r.type \in Byte /\ Payload(r) \in Seq(Byte) /\ Len(Payload(r)) \in Nat
        /\ Size(r) = 4 + Len(Payload(r))
    BY <2>3, RequestFacts DEF Size, HeaderLength
  <2>5. n = Len(Payload(r)) /\ header.type = r.type
    BY <2>2 DEF n
  <2>6. \A j \in 1 .. Size(r) : stream[sent[k].start + j] = Bytes(r)[j]
    BY <2>3, <1>0 DEF BlockInv, Clean
  <2>7. \A i \in 1 .. Len(Payload(r)) : Bytes(r)[4 + i] = Payload(r)[i]
    BY <2>4, SerializeLayout DEF Bytes, HeaderLength
  <2>8. ASSUME NEW i \in 1 .. n PROVE x[i] = Payload(r)[i]
    <3>1. 4 + i \in 1 .. Size(r) /\ sent[k].start + (4 + i) = pos + i
      BY <2>2, <2>3, <2>4, <2>5
    <3>2. x[i] = stream[pos + i]
      BY <1>4
    <3> HIDE DEF x
    <3> QED BY <3>1, <3>2, <2>5, <2>6, <2>7
  <2>9. x = Payload(r)
    <3> HIDE DEF x
    <3>1. Payload(r) \in Seq(Cell)
      BY <2>4, SeqMonotonic DEF Cell
    <3> QED BY <3>1, <2>5, <2>8, <1>4, SeqEqual
  <2>10. StartOf(k + 1) = sent[k].start + Size(r)
    BY <2>3, <1>0 DEF ChainInv
  <2>11. k + 1 = Len(got) + 2 /\ sent[k].start + Size(r) = pos + n
    <3>1. Len(got) \in Nat /\ k = Len(got) + 1
      BY <1>1
    <3>2. k + 1 = Len(got) + 2
      BY <3>1
    <3>3. ASSUME NEW a \in Nat, NEW b \in Nat PROVE a + (4 + b) = (a + 4) + b
      OBVIOUS
    <3>4. sent[k].start + (4 + Len(Payload(r))) = (sent[k].start + 4) + Len(Payload(r))
      <4> HIDE DEF r, k
      <4> QED BY <2>3, <2>4, <3>3
    <3> HIDE DEF r, k
    <3> QED BY <2>2, <2>4, <2>5, <3>2, <3>4
  <2> HIDE DEF x
  <2> QED BY <2>2, <2>5, <2>9, <2>10, <2>11
<1> HIDE DEF x
<1>6. p \in [type : Byte, payload : Seq(Cell)]
  BY <1>3, <1>4
<1> HIDE DEF p
<1>7. /\ Len(got') = k /\ got'[k] = p /\ got' \in Seq([type : Byte, payload : Seq(Cell)])
      /\ \A i \in 1 .. Len(got) : got'[i] = got[i]
  BY <1>1, <1>2, <1>6
<1>8. /\ \A i : CleanUpTo(i)' <=> CleanUpTo(i)
      /\ \A i : StartOf(i)' = StartOf(i)
  BY <1>2 DEF CleanUpTo, Clean, Payload, StartOf
<1>9. CutInv' /\ BlockInv' /\ ChainInv'
  <2>1. CutInv'
    BY <1>0, <1>2 DEF CutInv
  <2>2. BlockInv'
    BY <1>0, <1>2 DEF BlockInv, Size, Bytes, Payload
  <2>3. ChainInv'
    BY <1>0, <1>2, <1>8 DEF ChainInv, Size, Payload
  <2> QED BY <2>1, <2>2, <2>3
<1>10. TypeOK'
  <2>1. pos' \in 0 .. Len(stream')
    BY <1>1, <1>2, <1>3
  <2> QED BY <1>0, <1>2, <1>7, <2>1 DEF TypeOK, Cell
<1>11. InStep'
  <2> SUFFICES ASSUME NEW i \in 1 .. k, CleanUpTo(i)
               PROVE  i <= Len(sent) /\ got'[i] = [type |-> sent[i].request.type, payload |-> Payload(sent[i].request)]
    BY <1>2, <1>7, <1>8 DEF InStep, Payload
  <2>1. CASE i = k
    BY <2>1, <1>1, <1>5, <1>7
  <2>2. CASE i \in 1 .. Len(got)
    BY <2>2, <1>0, <1>7 DEF InStep
  <2> QED BY <2>1, <2>2, <1>1
<1>12. ReaderInv'
  <2>1. Len(got') + 1 = Len(got) + 2
    BY <1>1, <1>7
  <2>2. StartOf(Len(got) + 1)' = StartOf(Len(got) + 2)
    BY <2>1, <1>2 DEF StartOf
  <2>3. CleanUpTo(Len(got))' <=> CleanUpTo(k)
    BY <1>2, <1>7 DEF CleanUpTo, Clean, Payload
  <2>4. CleanUpTo(k) => k <= Len(sent)
    BY <1>1, <1>5
  <2> HIDE DEF k
  <2>5. CleanUpTo(k) => Len(got') <= Len(sent') /\ pos' = StartOf(Len(got) + 1)'
    BY <2>2, <2>4, <1>2, <1>5, <1>7
  <2> QED BY <2>3, <2>5, <1>2 DEF ReaderInv
<1> QED BY <1>9, <1>10, <1>11, <1>12 DEF WireInv

-----------------------------------------------------------------------------
(* The theorems.                                                           *)

LEMMA InitWire ==
  ASSUME Init
  PROVE  WireInv
<1>1. /\ stream = <<>> /\ Len(stream) = 0 /\ sent = <<>> /\ Len(sent) = 0
      /\ got = <<>> /\ Len(got) = 0 /\ pos = 0 /\ reader = "header"
      /\ header = [type |-> Ack, payload_length |-> 0]
  BY DEF Init
<1>2. TypeOK
  <2>1. Ack \in Byte /\ 0 \in 0 .. MaxPayload
    BY CodecAssumption, TwoBytes DEF Byte, MaxPayload
  <2> QED BY <1>1, <2>1 DEF TypeOK
<1>3. StartOf(1) = 0
  BY <1>1 DEF StartOf
<1>4. CutInv /\ BlockInv /\ ChainInv /\ InStep
  BY <1>1, <1>3 DEF CutInv, BlockInv, ChainInv, InStep
<1>5. ReaderInv
  BY <1>1, <1>3 DEF ReaderInv
<1> QED BY <1>2, <1>4, <1>5 DEF WireInv

\* Every reachable state satisfies WireInv, for all values of the constants: any
\* base, any buffer, any requests and any number of them.
THEOREM WireInvariance == Spec => []WireInv
<1>1. Init => WireInv
  BY InitWire
<1>2. WireInv /\ [Next]_vars => WireInv'
  <2> SUFFICES ASSUME WireInv, [Next]_vars PROVE WireInv'
    OBVIOUS
  <2>1. ASSUME NEW r \in Requests, Send(r) PROVE WireInv'
    BY <2>1, SendStep
  <2>2. ASSUME NEW i \in DOMAIN sent, WriteRest(i) PROVE WireInv'
    <3>1. i \in 1 .. Len(sent)
      BY WireTypes DEF WireInv
    <3> QED BY <2>2, <3>1, RestStep
  <2>3. CASE ReadHeader
    BY <2>3, HeaderStep
  <2>4. CASE ReadPayload
    BY <2>4, PayloadStep
  <2>5. CASE Quiet \/ UNCHANGED vars
    <3>1. UNCHANGED vars
      BY <2>5 DEF Quiet
    <3>2. UNCHANGED <<stream, pos, sent, reader, header, got>>
      BY <3>1 DEF vars
    <3>3. (\A i : CleanUpTo(i)' <=> CleanUpTo(i)) /\ (\A i : StartOf(i)' = StartOf(i))
      BY <3>2 DEF CleanUpTo, Clean, Payload, StartOf
    <3>4. TypeOK' /\ CutInv'
      BY <3>2 DEF WireInv, TypeOK, CutInv
    <3>5. BlockInv'
      BY <3>2 DEF WireInv, BlockInv, Bytes, Size, Payload
    <3>6. ChainInv'
      BY <3>2, <3>3 DEF WireInv, ChainInv, Size, Payload
    <3>7. InStep'
      BY <3>2, <3>3 DEF WireInv, InStep, Payload
    <3>8. ReaderInv'
      <4>1. /\ CleanUpTo(Len(got))' <=> CleanUpTo(Len(got))
            /\ CleanUpTo(Len(got) + 1)' <=> CleanUpTo(Len(got) + 1)
            /\ StartOf(Len(got) + 1)' = StartOf(Len(got) + 1)
        BY <3>2 DEF CleanUpTo, Clean, Payload, StartOf
      <4> QED BY <3>2, <4>1 DEF WireInv, ReaderInv, Payload
    <3> QED BY <3>4, <3>5, <3>6, <3>7, <3>8 DEF WireInv
  <2> QED BY <2>1, <2>2, <2>3, <2>4, <2>5 DEF Next
<1> QED BY <1>1, <1>2, PTL DEF Spec

\* The bytes on the connection and the packets made of them keep their types; a
\* length decoded from two bytes never exceeds the length field.
THEOREM WireTypeCorrect == Spec => []TypeOK
<1>1. WireInv => TypeOK
  BY DEF WireInv
<1> QED BY <1>1, WireInvariance, PTL

\* Up to the first packet that was cut or whose payload does not fit the length
\* field, the reader gets what was sent, in the order of the calls of send_packet.
THEOREM StaysInStep == Spec => []InStep
<1>1. WireInv => InStep
  BY DEF WireInv
<1> QED BY <1>1, WireInvariance, PTL

\* Of the publications that arrive undamaged, exactly those with a topic whose
\* length fits a byte and a message that is not empty are handed over unchanged.
THEOREM IntactExactlyWhenItFits == Spec => []HandedOverIntact
<1>1. WireInv => HandedOverIntact
  <2> SUFFICES ASSUME WireInv, NEW n \in 1 .. Len(got), CleanUpTo(n),
                      sent[n].request.type = Pub
               PROVE  LET r == sent[n].request IN
                      SplitPublish(got[n].payload) = [topic |-> r.topic, message |-> r.message]
                        <=> Len(r.topic) < Base /\ r.message # <<>>
    BY DEF HandedOverIntact
  <2> DEFINE r == sent[n].request
  <2>1. n <= Len(sent) /\ got[n] = [type |-> r.type, payload |-> Payload(r)]
    BY DEF WireInv, InStep
  <2>2. r \in Requests
    <3>1. Len(got) \in Nat /\ Len(sent) \in Nat
      BY WireTypes DEF WireInv
    <3>2. n \in 1 .. Len(sent)
      BY <2>1, <3>1
    <3> QED BY <3>2, WireTypes DEF WireInv
  <2>3. r.topic \in Seq(Byte) /\ r.message \in Seq(Byte)
    BY <2>2, WireAssumption
  <2>4. got[n].payload = PublishPayload(r.topic, r.message)
    BY <2>1 DEF Payload
  <2> HIDE DEF r
  <2>5. SplitPublish(PublishPayload(r.topic, r.message))
            = [topic |-> r.topic, message |-> r.message]
          <=> Len(r.topic) < Base /\ r.message # <<>>
    BY <2>3, PublicationRoundTrip
  <2> QED BY <2>4, <2>5 DEF r
<1> QED BY <1>1, WireInvariance, PTL

\* Packet::deserialize and the reads of header and payload, which do its work,
\* make the same packet of the same bytes.
THEOREM DeserializeMatchesReads == Spec => []DeserializeAgrees
<1>1. WireInv => DeserializeAgrees
  <2> SUFFICES ASSUME WireInv, NEW n \in 1 .. Len(got), CleanUpTo(n)
               PROVE  LET p == Deserialize(SubSeq(stream, sent[n].start + 1, Len(stream))) IN
                      p # NoPacket /\ got[n] = [type |-> p.type, payload |-> p.payload]
    BY DEF DeserializeAgrees
  <2> DEFINE r == sent[n].request
             data == SubSeq(stream, sent[n].start + 1, Len(stream))
             q == MakePacket(r.type, Payload(r))
  <2>1. n <= Len(sent) /\ got[n] = [type |-> r.type, payload |-> Payload(r)]
    BY DEF WireInv, InStep
  <2>2. n \in 1 .. Len(sent) /\ Len(stream) \in Nat /\ stream \in Seq(Cell) /\ Clean(n)
    <3>1. /\ Len(got) \in Nat /\ Len(sent) \in Nat /\ Len(stream) \in Nat
          /\ stream \in Seq(Cell) /\ DOMAIN sent = 1 .. Len(sent)
      BY WireTypes DEF WireInv
    <3>2. n \in 1 .. Len(sent) /\ n \in 1 .. n
      BY <2>1, <3>1
    <3> QED BY <3>1, <3>2 DEF CleanUpTo
  <2>3. r \in Requests /\ sent[n].start \in Nat
    BY <2>2, WireTypes DEF WireInv
  <2>4. /\ sent[n].start + Size(r) <= Len(stream)
        /\ \A j \in 1 .. Size(r) : stream[sent[n].start + j] = Bytes(r)[j]
    BY <2>2 DEF WireInv, BlockInv, Clean
  <2>5. /\ r.type \in Byte /\ Payload(r) \in Seq(Byte) /\ Len(Payload(r)) \in Nat
        /\ Len(Payload(r)) <= MaxPayload
    BY <2>2, <2>3, RequestFacts DEF Clean
  <2>6. /\ Len(data) = Len(stream) - sent[n].start
        /\ \A j \in 1 .. Len(data) : data[j] = stream[sent[n].start + j]
    <3> DEFINE a == sent[n].start + 1
    <3>1. a \in Nat /\ a >= 1 /\ a <= Len(stream) + 1
      BY <2>2, <2>3, <2>4, <2>5 DEF Size, HeaderLength
    <3>2. \A i \in a .. Len(stream) : stream[i] \in Cell
      <4>1. ASSUME NEW i \in a .. Len(stream) PROVE stream[i] \in Cell
        <5>1. i \in 1 .. Len(stream)
          BY <3>1, <2>2
        <5> QED BY <5>1, <2>2, ElementOfSeq
      <4> QED BY <4>1
    <3> HIDE DEF a
    <3>3. /\ Len(SubSeq(stream, a, Len(stream))) =
               IF a <= Len(stream) THEN Len(stream) - a + 1 ELSE 0
          /\ \A i \in 1 .. Len(stream) - a + 1 :
               SubSeq(stream, a, Len(stream))[i] = stream[a + i - 1]
      BY <3>1, <3>2, <2>2, SubSeqProperties
    <3>4. Len(data) = Len(stream) - sent[n].start
      BY <3>1, <3>3, <2>2, <2>3 DEF a
    <3>5. ASSUME NEW j \in 1 .. Len(data) PROVE data[j] = stream[sent[n].start + j]
      <4> HIDE DEF data
      <4>1. j \in 1 .. Len(stream) - a + 1 /\ a + j - 1 = sent[n].start + j
        BY <3>4, <2>2, <2>3 DEF a
      <4>2. data[j] = stream[a + j - 1]
        BY <4>1, <3>3 DEF data, a
      <4> QED BY <4>1, <4>2
    <3> QED BY <3>4, <3>5
  <2> HIDE DEF data, r
  <2>7. /\ Len(data) \in Nat /\ Len(data) >= HeaderLength + Len(Payload(r))
        /\ \A j \in 1 .. HeaderLength + Len(Payload(r)) : data[j] = Serialize(q)[j]
    <3>1. Len(data) \in Nat /\ Len(data) >= Size(r)
      BY <2>2, <2>3, <2>4, <2>5, <2>6 DEF Size, HeaderLength
    <3>2. ASSUME NEW j \in 1 .. Size(r) PROVE data[j] = Serialize(q)[j]
      <4>1. j \in 1 .. Len(data)
        BY <3>1, <2>5 DEF Size, HeaderLength
      <4> QED BY <4>1, <2>4, <2>6 DEF Bytes
    <3> QED BY <3>1, <3>2 DEF Size
  <2>8. Deserialize(data) = q
    BY <2>5, <2>7, DeserializeInverts
  <2>9. /\ q \in [type : Byte, flags : Byte, payload_length : Nat, payload : Seq(Byte)]
        /\ q.type = r.type /\ q.payload = Payload(r)
    <3>1. Len(Payload(r)) % (Base * Base) \in 0 .. MaxPayload
      BY <2>5, Truncated
    <3>2. 0 \in Byte /\ MaxPayload \in Int
      BY CodecAssumption DEF Byte, MaxPayload
    <3>3. Len(Payload(r)) % (Base * Base) \in Nat
      BY <3>1, <3>2
    <3> QED BY <2>5, <3>2, <3>3 DEF MakePacket
  <2> HIDE DEF q
  <2>10. Deserialize(data) # NoPacket
    BY <2>8, <2>9, NothingAssumption
  <2> QED BY <2>1, <2>8, <2>9, <2>10 DEF data, r
<1> QED BY <1>1, WireInvariance, PTL
=============================================================================
