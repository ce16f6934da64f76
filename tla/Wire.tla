-------------------------------- MODULE Wire --------------------------------
(***************************************************************************)
(* One direction of a connection, byte by byte: handlers of the broker     *)
(* call Session::send_packet, whose bytes the client reads with            *)
(* read_header and read_payload.  The broker reads with the same code.     *)
(*                                                                         *)
(* send_packet hands async_write a reference to a local vector.  A first   *)
(* write is tried before async_write returns.  What it does not take (the  *)
(* socket buffer is full, or the packet larger than asio passes on at      *)
(* once) goes out later, from memory that was freed when send_packet       *)
(* returned; meanwhile other handlers may write to the same socket.        *)
(***************************************************************************)
EXTENDS Codec

CONSTANTS
  Requests,   \* what handlers send: a type, and a topic and a message for PUB
  Room,       \* bytes that the socket buffers of both ends hold
  MaxTransfer,  \* bytes that async_write passes on at once: 65536 in asio
  MaxSent,    \* bound: calls of send_packet
  Freed       \* a byte of freed memory

ASSUME WireAssumption ==
  /\ Requests \subseteq [type : {Pub, Ack}, topic : Seq(Byte), message : Seq(Byte)]
  /\ Room \in Nat
  /\ MaxTransfer \in Nat
  /\ MaxSent \in Nat
  /\ Freed \notin Byte

VARIABLES
  stream,   \* history: every byte put on the connection
  pos,      \* how many of them the reader has taken
  sent,     \* history: the calls of send_packet, with what is left to write
  reader,   \* which read is armed: "header", "payload"; "astray" after garbage
  header,   \* type and payload length of the header read last
  got       \* history: the packets handed to process_packet

vars == <<stream, pos, sent, reader, header, got>>

Payload(r) == IF r.type = Pub THEN PublishPayload(r.topic, r.message) ELSE <<>>

TypeOK ==
  /\ stream \in Seq(Byte \cup {Freed})
  /\ pos \in 0 .. Len(stream)
  /\ sent \in Seq([request : Requests, start : Nat, left : Nat, cut : BOOLEAN])
  /\ reader \in {"header", "payload", "astray"}
  /\ header \in [type : Byte, payload_length : 0 .. MaxPayload]
  /\ got \in Seq([type : Byte, payload : Seq(Byte \cup {Freed})])

Init ==
  /\ stream = <<>> /\ pos = 0 /\ sent = <<>>
  /\ reader = "header" /\ header = [type |-> Ack, payload_length |-> 0] /\ got = <<>>

Free == Room - (Len(stream) - pos)
AtMost(m, n) == IF m <= n THEN m ELSE n

(***************************************************************************)
(* How much of n bytes the first write takes: what there is room for, or   *)
(* nothing when it queues behind a write that is not finished.             *)
(***************************************************************************)
Pieces(n) == {AtMost(AtMost(n, MaxTransfer), Free)} \cup
             (IF \E i \in DOMAIN sent : sent[i].left > 0 THEN {0} ELSE {})

\* send_packet, up to the return of async_write.
Send(r) ==
  LET bytes == Serialize(MakePacket(r.type, Payload(r))) IN
  /\ Len(sent) < MaxSent
  /\ \E k \in Pieces(Len(bytes)) :
       /\ stream' = stream \o SubSeq(bytes, 1, k)
       /\ sent' = Append(sent, [request |-> r, start |-> Len(stream),
                                left |-> Len(bytes) - k, cut |-> k < Len(bytes)])
  /\ UNCHANGED <<pos, reader, header, got>>

\* async_write goes on: the buffer it refers to is gone.
WriteRest(i) ==
  LET k == AtMost(AtMost(sent[i].left, MaxTransfer), Free) IN
  /\ k > 0
  /\ stream' = stream \o [j \in 1 .. k |-> Freed]
  /\ sent' = [sent EXCEPT ![i].left = @ - k]
  /\ UNCHANGED <<pos, reader, header, got>>

\* The completion of the read of a header; an empty payload is not read.
ReadHeader ==
  LET h == SubSeq(stream, pos + 1, pos + HeaderLength) IN
  /\ reader = "header"
  /\ Len(stream) - pos >= HeaderLength
  /\ pos' = pos + HeaderLength
  /\ \/ /\ Freed \in {h[i] : i \in 1 .. HeaderLength}
        /\ reader' = "astray"
        /\ UNCHANGED <<header, got>>
     \/ /\ Freed \notin {h[i] : i \in 1 .. HeaderLength}
        /\ header' = [type |-> h[1], payload_length |-> DecodedLength(h)]
        /\ \/ /\ DecodedLength(h) > 0
              /\ reader' = "payload"
              /\ UNCHANGED got
           \/ /\ DecodedLength(h) = 0
              /\ got' = Append(got, [type |-> h[1], payload |-> <<>>])
              /\ UNCHANGED reader
  /\ UNCHANGED <<stream, sent>>

\* Mutant of ReadPayload: process_packet returns without read_header().
ReadPayloadStop ==
  LET n == header.payload_length IN
  /\ reader = "payload"
  /\ Len(stream) - pos >= n
  /\ pos' = pos + n
  /\ got' = Append(got, [type |-> header.type, payload |-> SubSeq(stream, pos + 1, pos + n)])
  /\ reader' = "astray"
  /\ UNCHANGED <<stream, sent, header>>

\* The completion of the read of a payload; process_packet arms the next read.
ReadPayload ==
  LET n == header.payload_length IN
  /\ reader = "payload"
  /\ Len(stream) - pos >= n
  /\ pos' = pos + n
  /\ got' = Append(got, [type |-> header.type, payload |-> SubSeq(stream, pos + 1, pos + n)])
  /\ reader' = "header"
  /\ UNCHANGED <<stream, sent, header>>

\* The reader waits for bytes, and nobody sends.
Quiet ==
  /\ Len(sent) = MaxSent
  /\ \A i \in DOMAIN sent : sent[i].left = 0 \/ Free <= 0
  /\ ~(reader = "header" /\ Len(stream) - pos >= HeaderLength)
  /\ ~(reader = "payload" /\ Len(stream) - pos >= header.payload_length)
  /\ UNCHANGED vars

Next ==
  \/ \E r \in Requests : Send(r)
  \/ \E i \in DOMAIN sent : WriteRest(i)
  \/ ReadHeader
  \/ ReadPayload
  \/ Quiet

Spec == Init /\ [][Next]_vars

\* The reader's io_context::run() delivers the reads that are complete.
FairSpec == Spec /\ WF_vars(ReadHeader) /\ WF_vars(ReadPayload)

-----------------------------------------------------------------------------
(***************************************************************************)
(* Properties.  A packet is clean when its first write took all of it and  *)
(* its payload fits the length field.                                      *)
(***************************************************************************)
Clean(i) == ~sent[i].cut /\ Len(Payload(sent[i].request)) <= MaxPayload
CleanUpTo(n) == \A i \in 1 .. n : i \in DOMAIN sent => Clean(i)

\* As long as the packets sent were clean, the reader gets just those, in the
\* order of the calls of send_packet: one damaged or oversized packet (packet.cpp:11,
\* session.cpp:215) can only harm what comes after it.
InStep ==
  \A n \in 1 .. Len(got) : CleanUpTo(n) =>
    /\ n <= Len(sent)
    /\ got[n] = [type |-> sent[n].request.type, payload |-> Payload(sent[n].request)]

\* Packet::deserialize, which nothing calls, would make the same of the bytes as the
\* two reads that do its work.
DeserializeAgrees ==
  \A n \in 1 .. Len(got) : CleanUpTo(n) =>
    LET p == Deserialize(SubSeq(stream, sent[n].start + 1, Len(stream))) IN
    p # NoPacket /\ got[n] = [type |-> p.type, payload |-> p.payload]

\* A publication that arrives undamaged is handed over as it was published if and
\* only if its topic's length fits a byte and its message is not empty: a longer
\* topic is split elsewhere (broker.cpp:210), an empty message dropped (session.cpp:131).
HandedOverIntact ==
  \A n \in 1 .. Len(got) : CleanUpTo(n) /\ sent[n].request.type = Pub =>
    LET r == sent[n].request IN
    SplitPublish(got[n].payload) = [topic |-> r.topic, message |-> r.message]
      <=> Len(r.topic) < Base /\ r.message # <<>>

\* Every clean packet that follows only clean ones is read in the end.
CleanArrives ==
  \A n \in 1 .. MaxSent : (n <= Len(sent) /\ CleanUpTo(n)) ~> (Len(got) >= n)
=============================================================================
