------------------------------- MODULE Codec --------------------------------
(***************************************************************************)
(* Packets and their bytes (src/src/packet.cpp), and the layout of the     *)
(* payload of a PUB, which broker and client share.  A byte has Base       *)
(* values: 256 in the code, fewer where TLC is to reach the limits.        *)
(***************************************************************************)
EXTENDS Integers, Sequences

CONSTANTS
  Base,       \* the number of values of a byte
  Pub, Ack    \* packet types: PUB, and any of the acknowledgements

ASSUME CodecAssumption ==
  /\ Base \in Nat /\ Base > 1
  /\ Pub \in 0 .. Base - 1
  /\ Ack \in 0 .. Base - 1
  /\ Pub # Ack

Byte == 0 .. Base - 1
MaxPayload == Base * Base - 1
HeaderLength == 4

\* Mutant of MakePacket: the length is not cut to 16 bits.
MakePacketWide(type, payload) ==
  [type |-> type, flags |-> 0, payload_length |-> Len(payload), payload |-> payload]

\* The constructor: static_cast<uint16_t>(payload.size()).
MakePacket(type, payload) ==
  [type |-> type, flags |-> 0, payload_length |-> Len(payload) % (Base * Base),
   payload |-> payload]

\* Mutant of Serialize: the two bytes of the length are exchanged.
SerializeLittleEndian(p) ==
  <<p.type, p.flags, p.payload_length % Base, p.payload_length \div Base>> \o p.payload

\* The whole payload follows the header, whatever the length field says.
Serialize(p) ==
  <<p.type, p.flags, p.payload_length \div Base, p.payload_length % Base>> \o p.payload

\* The length field of a header that was read.
DecodedLength(header) == header[3] * Base + header[4]

CONSTANTS
  NoPacket,        \* deserialize() returned false
  NoPublication    \* the handler of a PUB falls through its conditions

ASSUME NothingAssumption ==
  /\ NoPacket \notin [type : Byte, flags : Byte, payload_length : Nat, payload : Seq(Byte)]
  /\ NoPublication \notin [topic : Seq(Byte), message : Seq(Byte)]

\* Mutant of Deserialize: the payload begins with the last byte of the header.
DeserializeEarly(data) ==
  IF \/ Len(data) < HeaderLength
     \/ Len(data) < HeaderLength + DecodedLength(data)
  THEN NoPacket
  ELSE [type |-> data[1], flags |-> data[2], payload_length |-> DecodedLength(data),
        payload |-> SubSeq(data, HeaderLength, HeaderLength + DecodedLength(data))]

Deserialize(data) ==
  IF \/ Len(data) < HeaderLength
     \/ Len(data) < HeaderLength + DecodedLength(data)
  THEN NoPacket
  ELSE [type |-> data[1], flags |-> data[2], payload_length |-> DecodedLength(data),
        payload |-> SubSeq(data, HeaderLength + 1, HeaderLength + DecodedLength(data))]

\* The payload of a PUB: the topic's length in one byte, the topic, the message.
PublishPayload(topic, message) == <<Len(topic) % Base>> \o topic \o message

\* Mutant of SplitPublish: the message begins one byte late.
SplitPublishLate(payload) ==
  IF Len(payload) > 1 /\ Len(payload) > payload[1] + 1
  THEN [topic |-> SubSeq(payload, 2, 1 + payload[1]),
        message |-> SubSeq(payload, 3 + payload[1], Len(payload))]
  ELSE NoPublication

\* What the handler of a PUB makes of its payload.
SplitPublish(payload) ==
  IF Len(payload) > 1 /\ Len(payload) > payload[1] + 1
  THEN [topic |-> SubSeq(payload, 2, 1 + payload[1]),
        message |-> SubSeq(payload, 2 + payload[1], Len(payload))]
  ELSE NoPublication
=============================================================================
