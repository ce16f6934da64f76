---------------------------- MODULE BrokerProofs ----------------------------
(***************************************************************************)
(* Proofs about what the broker sends: the inductive invariant IInv, and   *)
(* the order of messages and of answers that it implies.                   *)
(***************************************************************************)
EXTENDS TableProofs

-----------------------------------------------------------------------------
(* The order of packets.                                                   *)

\* What Send does to the connections: one packet more on one of them.
LEMMA SendShape ==
  ASSUME TypeOK, NEW r \in Sessions, NEW s \in Sessions,
         NEW type \in Acks \cup {"PUB"}, Send(r, type, s)
  PROVE  LET n == Len(out[r]) IN
         /\ n \in Nat
         /\ \A q \in Sessions \ {r} : out'[q] = out[q]
         /\ DOMAIN out[r] = 1 .. n /\ DOMAIN out'[r] = 1 .. n + 1
         /\ \A i \in 1 .. n : out'[r][i] = out[r][i] /\ out[r][i] \in Packet
         /\ out'[r][n + 1] = [type |-> type, from |-> s,
                              seq |-> received[s], topic |-> topic[s]]
<1> DEFINE e == [type |-> type, from |-> s, seq |-> received[s], topic |-> topic[s]]
<1>1. e \in Packet
  BY DEF TypeOK, Packet
<1>2. out[r] \in Seq(Packet)
  BY DEF TypeOK
<1>3. out'[r] = Append(out[r], e) /\ \A q \in Sessions \ {r} : out'[q] = out[q]
  BY DEF TypeOK, Send
<1> HIDE DEF e
<1>4. \A i \in 1 .. Len(out[r]) : out[r][i] \in Packet
  BY <1>2
<1>5. QED
  BY <1>1, <1>2, <1>3, <1>4, AppendFacts DEF e

\* Of two packets on a connection after Send, the earlier was there before, and
\* the later was too or is the one just sent.
LEMMA SendPairs ==
  ASSUME TypeOK, NEW r \in Sessions, NEW s \in Sessions,
         NEW type \in Acks \cup {"PUB"}, Send(r, type, s),
         NEW q \in Sessions, NEW i \in DOMAIN out'[q], NEW j \in DOMAIN out'[q], i < j
  PROVE  /\ i \in DOMAIN out[q] /\ out'[q][i] = out[q][i]
         /\ \/ j \in DOMAIN out[q] /\ out'[q][j] = out[q][j]
            \/ q = r /\ out'[q][j] = [type |-> type, from |-> s,
                                      seq |-> received[s], topic |-> topic[s]]
<1>1. CASE q # r
  <2>1. out'[q] = out[q]
    BY <1>1, SendShape
  <2> QED
    BY <2>1
<1>2. CASE q = r
  BY <1>2, SendShape
<1> QED
  BY <1>1, <1>2

\* A message keeps the order of its publisher if it is the first that the
\* publisher sends to r since its last request.
LEMMA SendMessage ==
  ASSUME TypeOK, PublisherOrder, AnswersInOrder,
         NEW s \in Sessions, NEW r \in Sessions, Send(r, "PUB", s),
         \A i \in DOMAIN out[r] :
           out[r][i].type = "PUB" /\ out[r][i].from = s => out[r][i].seq < received[s]
  PROVE  PublisherOrder' /\ AnswersInOrder'
<1>1. "PUB" \notin Acks
  BY DEF Acks
<1>2. PublisherOrder'
  <2> SUFFICES ASSUME NEW q \in Sessions, NEW i \in DOMAIN out'[q],
                      NEW j \in DOMAIN out'[q], i < j,
                      out'[q][i].type = "PUB", out'[q][j].type = "PUB",
                      out'[q][i].from = out'[q][j].from
               PROVE  out'[q][i].seq < out'[q][j].seq
    BY DEF PublisherOrder
  <2>1. /\ i \in DOMAIN out[q] /\ out'[q][i] = out[q][i]
       /\ \/ j \in DOMAIN out[q] /\ out'[q][j] = out[q][j]
          \/ /\ q = r
             /\ out'[q][j] = [type |-> "PUB", from |-> s, seq |-> received[s],
                              topic |-> topic[s]]
    BY SendPairs
  <2> QED
    BY <2>1 DEF PublisherOrder
<1>3. AnswersInOrder'
  <2> SUFFICES ASSUME NEW q \in Sessions, NEW i \in DOMAIN out'[q],
                      out'[q][i].type \in Acks
               PROVE  /\ out'[q][i].from = q
                      /\ \A j \in DOMAIN out'[q] : i < j /\ out'[q][j].type \in Acks
                           => out'[q][i].seq < out'[q][j].seq
    BY DEF AnswersInOrder
  <2>1. i \in DOMAIN out[q] /\ out'[q][i] = out[q][i]
    <3>1. CASE q = r
      <4>1. /\ Len(out[r]) \in Nat
            /\ DOMAIN out[r] = 1 .. Len(out[r])
            /\ DOMAIN out'[r] = 1 .. Len(out[r]) + 1
            /\ \A k \in 1 .. Len(out[r]) : out'[r][k] = out[r][k]
            /\ out'[r][Len(out[r]) + 1] = [type |-> "PUB", from |-> s,
                  seq |-> received[s], topic |-> topic[s]]
        BY SendShape
      <4> QED
        BY <1>1, <3>1, <4>1
    <3>2. CASE q # r
      <4>1. out'[q] = out[q]
        BY <3>2, SendShape
      <4> QED
        BY <4>1
    <3> QED
      BY <3>1, <3>2
  <2>2. ASSUME NEW j \in DOMAIN out'[q], i < j, out'[q][j].type \in Acks
        PROVE  out'[q][i].seq < out'[q][j].seq
    <3>1. \/ j \in DOMAIN out[q] /\ out'[q][j] = out[q][j]
          \/ out'[q][j] = [type |-> "PUB", from |-> s, seq |-> received[s],
                           topic |-> topic[s]]
      BY <2>2, SendPairs
    <3> QED
      BY <1>1, <2>1, <2>2, <3>1 DEF AnswersInOrder
  <2> QED
    BY <2>1, <2>2 DEF AnswersInOrder
<1> QED
  BY <1>2, <1>3

\* An answer keeps the order of the session's requests if none was given to the
\* current request yet.
LEMMA SendAnswer ==
  ASSUME TypeOK, PublisherOrder, AnswersInOrder,
         NEW s \in Sessions, NEW type \in Acks, Send(s, type, s),
         \A i \in DOMAIN out[s] : out[s][i].type \in Acks => out[s][i].seq < received[s]
  PROVE  PublisherOrder' /\ AnswersInOrder'
<1>1. type # "PUB"
  BY DEF Acks
<1>2. PublisherOrder'
  <2> SUFFICES ASSUME NEW q \in Sessions, NEW i \in DOMAIN out'[q],
                      NEW j \in DOMAIN out'[q], i < j,
                      out'[q][i].type = "PUB", out'[q][j].type = "PUB",
                      out'[q][i].from = out'[q][j].from
               PROVE  out'[q][i].seq < out'[q][j].seq
    BY DEF PublisherOrder
  <2>1. /\ i \in DOMAIN out[q] /\ out'[q][i] = out[q][i]
       /\ \/ j \in DOMAIN out[q] /\ out'[q][j] = out[q][j]
          \/ /\ q = s
             /\ out'[q][j] = [type |-> type, from |-> s, seq |-> received[s],
                              topic |-> topic[s]]
    BY SendPairs
  <2> QED
    BY <1>1, <2>1 DEF PublisherOrder
<1>3. AnswersInOrder'
  <2> SUFFICES ASSUME NEW q \in Sessions, NEW i \in DOMAIN out'[q],
                      out'[q][i].type \in Acks
               PROVE  /\ out'[q][i].from = q
                      /\ \A j \in DOMAIN out'[q] : i < j /\ out'[q][j].type \in Acks
                           => out'[q][i].seq < out'[q][j].seq
    BY DEF AnswersInOrder
  <2>1. out'[q][i].from = q
    <3>1. CASE q = s
      <4>1. /\ Len(out[s]) \in Nat
            /\ DOMAIN out[s] = 1 .. Len(out[s])
            /\ DOMAIN out'[s] = 1 .. Len(out[s]) + 1
            /\ \A k \in 1 .. Len(out[s]) : out'[s][k] = out[s][k]
            /\ out'[s][Len(out[s]) + 1] = [type |-> type, from |-> s,
                  seq |-> received[s], topic |-> topic[s]]
        BY SendShape
      <4> QED
        BY <3>1, <4>1 DEF AnswersInOrder
    <3>2. CASE q # s
      <4>1. out'[q] = out[q]
        BY <3>2, SendShape
      <4> QED
        BY <4>1 DEF AnswersInOrder
    <3> QED
      BY <3>1, <3>2
  <2>2. ASSUME NEW j \in DOMAIN out'[q], i < j, out'[q][j].type \in Acks
        PROVE  out'[q][i].seq < out'[q][j].seq
    <3>1. /\ i \in DOMAIN out[q] /\ out'[q][i] = out[q][i]
         /\ \/ j \in DOMAIN out[q] /\ out'[q][j] = out[q][j]
            \/ /\ q = s
               /\ out'[q][j] = [type |-> type, from |-> s, seq |-> received[s],
                                topic |-> topic[s]]
      BY <2>2, SendPairs
    <3> QED
      BY <2>2, <3>1 DEF AnswersInOrder
  <2> QED
    BY <2>1, <2>2
<1> QED
  BY <1>2, <1>3

\* A packet already sent stays well numbered, whatever step is taken.
LEMMA NumberedStep ==
  ASSUME TypeOK, TopicInv, NEW r \in Sessions, NEW m \in Packet, Numbered(r,
         m), [Next]_vars
  PROVE  Numbered(r, m)'
<1>0. /\ step \in [Sessions -> Steps]
      /\ left \in [Sessions -> [Sessions -> Nat]]
      /\ received \in [Sessions -> Nat]
      /\ m.from \in Sessions /\ m.seq \in Nat
  BY DEF TypeOK, Packet
<1>b. \A s \in Sessions : left[s][r] <= 1
  BY DEF TopicInv
<1>1. ASSUME NEW s \in Sessions, HandlerStep(s) PROVE Numbered(r, m)'
  <2>1. CASE AssignIdentity(s)
    BY <2>1, <1>0 DEF Numbered, Serving, AssignIdentity, completionVars
  <2>2. CASE LookUpClient(s)
    BY <2>2, <1>0 DEF Numbered, Serving, LookUpClient, identityVars,
      completionVars
  <2>3. CASE PurgeOld(s)
    BY <2>3, <1>0 DEF Numbered, Serving, PurgeOld, identityVars,
      chainVars, completionVars
  <2>4. CASE StoreSession(s)
    BY <2>4, <1>0 DEF Numbered, Serving, StoreSession, ReadNext,
      identityVars, completionVars
  <2>5. CASE SendSuback(s)
    BY <2>5, <1>0 DEF Numbered, Serving, SendSuback, ReadNext,
      identityVars, completionVars
  <2>6. CASE SendUnsuback(s)
    BY <2>6, <1>0 DEF Numbered, Serving, SendUnsuback, ReadNext,
      identityVars, completionVars
  <2>7. ASSUME NEW q \in Sessions, FanOut(s, q) PROVE Numbered(r, m)'
    BY <2>7, <1>0, <1>b DEF Numbered, Serving, FanOut, identityVars,
      completionVars
  <2>8. CASE SendPuback(s)
    BY <2>8, <1>0 DEF Numbered, Serving, SendPuback, ReadNext,
      identityVars, completionVars
  <2>9. CASE EraseSession(s)
    BY <2>9, <1>0 DEF Numbered, Serving, EraseSession, identityVars,
      chainVars, completionVars
  <2>10. CASE PurgeSession(s)
    BY <2>10, <1>0 DEF Numbered, Serving, PurgeSession, identityVars,
      chainVars, completionVars
  <2> QED
    BY <1>1, <2>1, <2>2, <2>3, <2>4, <2>5, <2>6, <2>7, <2>8, <2>9,
      <2>10 DEF HandlerStep
<1>2. ASSUME NEW s \in Sessions, CompletionStep(s) PROVE Numbered(r, m)'
  <2>1. CASE CompletionErase(s)
    BY <2>1, <1>0 DEF Numbered, Serving, CompletionErase, identityVars,
      chainVars
  <2>2. CASE CompletionPurge(s)
    BY <2>2, <1>0 DEF Numbered, Serving, CompletionPurge, identityVars,
      chainVars
  <2> QED
    BY <1>2, <2>1, <2>2 DEF CompletionStep
<1>3. ASSUME NEW s \in Sessions, Start(s) PROVE Numbered(r, m)'
  <2>1. CASE Accept(s)
    BY <2>1, <1>0 DEF Numbered, Serving, Accept, identityVars,
      chainVars, completionVars
  <2>2. CASE IgnorePacket(s)
    BY <2>2, <1>0 DEF Numbered, Serving, IgnorePacket, Dispatch,
      identityVars, chainVars, completionVars
  <2>3. CASE RejectConnect(s)
    BY <2>3, <1>0 DEF Numbered, Serving, RejectConnect, Dispatch,
      identityVars, chainVars, completionVars
  <2>4. ASSUME NEW c \in Identity[s], ReceiveConnect(s, c) PROVE Numbered(r, m)'
    BY <2>4, <1>0 DEF Numbered, Serving, ReceiveConnect, Dispatch,
      identityVars, completionVars
  <2>5. ASSUME NEW t \in Topics, ReceiveSubscribe(s, t) PROVE Numbered(r, m)'
    BY <2>5, <1>0 DEF Numbered, Serving, ReceiveSubscribe, Dispatch,
      identityVars, completionVars
  <2>6. ASSUME NEW t \in Topics, ReceiveUnsubscribe(s, t) PROVE Numbered(r, m)'
    BY <2>6, <1>0 DEF Numbered, Serving, ReceiveUnsubscribe, Dispatch,
      identityVars, completionVars
  <2>7. ASSUME NEW t \in Topics, ReceivePublish(s, t) PROVE Numbered(r, m)'
    BY <2>7, <1>0 DEF Numbered, Serving, ReceivePublish, Dispatch,
      identityVars, completionVars
  <2>8. CASE ReadError(s)
    BY <2>8, <1>0 DEF Numbered, Serving, ReadError, identityVars,
      chainVars, completionVars
  <2>9. CASE WriteFails(s)
    BY <2>9, <1>0 DEF Numbered, Serving, WriteFails, identityVars,
      chainVars
  <2> QED
    BY <1>3, <2>1, <2>2, <2>3, <2>4, <2>5, <2>6, <2>7, <2>8, <2>9 DEF Start
<1>4. ASSUME NEW s \in Sessions, PeerCloses(s) PROVE Numbered(r, m)'
  BY <1>4, <1>0 DEF Numbered, Serving, PeerCloses, identityVars,
    chainVars, completionVars
<1>5. CASE Idle \/ UNCHANGED vars
  BY <1>5, <1>0 DEF Numbered, Serving, Idle, vars, identityVars,
    chainVars, completionVars
<1> QED
  BY <1>1, <1>2, <1>3, <1>4, <1>5 DEF Next

\* A packet that was sent before the step stays well numbered at its place.
LEMMA SentBefore ==
  ASSUME TypeOK, TopicInv, SequenceInv, [Next]_vars,
         NEW r \in Sessions, NEW i \in DOMAIN out[r], out'[r][i] = out[r][i]
  PROVE  Numbered(r, out[r][i])'
<1>1. Numbered(r, out[r][i])
  BY DEF SequenceInv
<1>2. PICK m \in Packet : m = out[r][i]
  BY DEF TypeOK
<1>3. Numbered(r, m)'
  BY <1>1, <1>2, NumberedStep
<1> QED
  BY <1>2, <1>3 DEF Numbered

LEMMA SequenceUnsent ==
  ASSUME TypeOK, TopicInv, SequenceInv, [Next]_vars, out' = out
  PROVE  SequenceInv'
<1> SUFFICES ASSUME NEW r \in Sessions, NEW i \in DOMAIN out[r]
             PROVE  Numbered(r, out[r][i])'
  BY DEF SequenceInv
<1> QED
  BY SentBefore

\* The new packet is the last one of one connection; it suffices to number it.
LEMMA SequenceSent ==
  ASSUME TypeOK, TopicInv, SequenceInv, [Next]_vars,
         NEW r \in Sessions, NEW s \in Sessions, NEW type \in Acks \cup {"PUB"},
         Send(r, type, s), received' = received,
         type = "PUB" => ~(step'[s] = "fanout" /\ left'[s][r] > 0),
         type \in Acks => r = s /\ ~Serving(r)'
  PROVE  SequenceInv'
<1>1. SUFFICES ASSUME NEW q \in Sessions, NEW i \in DOMAIN out'[q]
               PROVE  Numbered(q, out[q][i])'
  BY DEF SequenceInv
<1>2. CASE i \in DOMAIN out[q] /\ out'[q][i] = out[q][i]
  BY <1>2, SentBefore
<1>3. CASE q = r /\ out'[q][i] = [type |-> type, from |-> s, seq |-> received[s],
                                  topic |-> topic[s]]
  <2>1. received[s] <= received'[s]
    BY DEF TypeOK
  <2>2. "PUB" \notin Acks
    BY DEF Acks
  <2> QED
    BY <1>3, <2>1, <2>2 DEF Numbered
<1>4. CASE q # r
  <2>1. out'[q] = out[q]
    BY <1>4, SendShape
  <2> QED
    BY <1>2, <2>1
<1>5. CASE q = r
  <2>1. /\ Len(out[r]) \in Nat
        /\ DOMAIN out[r] = 1 .. Len(out[r])
        /\ DOMAIN out'[r] = 1 .. Len(out[r]) + 1
        /\ \A k \in 1 .. Len(out[r]) : out'[r][k] = out[r][k]
        /\ out'[r][Len(out[r]) + 1] = [type |-> type, from |-> s,
              seq |-> received[s], topic |-> topic[s]]
    BY SendShape
  <2> QED
    BY <1>2, <1>3, <1>5, <2>1
<1> QED
  BY <1>1, <1>4, <1>5

\* A step that sends nothing preserves the orders.
LEMMA OrderUnsent ==
  ASSUME TypeOK, TopicInv, OrderInv, [Next]_vars, out' = out
  PROVE  OrderInv'
<1>1. SequenceInv'
  BY SequenceUnsent DEF OrderInv
<1>2. PublisherOrder' /\ AnswersInOrder'
  BY DEF OrderInv, PublisherOrder, AnswersInOrder
<1> QED
  BY <1>1, <1>2 DEF OrderInv

\* The answer to a request ends its handler, or at least its service.
LEMMA OrderAnswered ==
  ASSUME TypeOK, TopicInv, OrderInv, [Next]_vars,
         NEW s \in Sessions, NEW type \in Acks, Send(s, type, s),
         received' = received, Serving(s), ~Serving(s)'
  PROVE  OrderInv'
<1>1. SequenceInv'
  <2>1. type # "PUB"
    BY DEF Acks
  <2> QED
    BY <2>1, SequenceSent DEF OrderInv
<1>2. \A i \in DOMAIN out[s] : out[s][i].type \in Acks => out[s][i].seq < received[s]
  BY DEF OrderInv, SequenceInv, Numbered
<1>3. PublisherOrder' /\ AnswersInOrder'
  BY <1>2, SendAnswer DEF OrderInv
<1> QED
  BY <1>1, <1>3 DEF OrderInv

\* One turn of the loop over a publisher's copy.
LEMMA OrderFanOut ==
  ASSUME TypeOK, TopicInv, OrderInv, [Next]_vars,
         NEW s \in Sessions, NEW r \in Sessions, FanOut(s, r)
  PROVE  OrderInv'
<1>1. Send(r, "PUB", s) /\ received' = received /\ left[s][r] > 0
      /\ step[s] = "fanout" /\ left'[s][r] = left[s][r] - 1
  BY DEF FanOut, TypeOK
<1>2. SequenceInv'
  <2>1. ~(left'[s][r] > 0)
    BY <1>1 DEF TypeOK, TopicInv
  <2>2. "PUB" \notin Acks
    BY DEF Acks
  <2> QED
    BY <1>1, <2>1, <2>2, SequenceSent DEF OrderInv
<1>3. \A i \in DOMAIN out[r] :
        out[r][i].type = "PUB" /\ out[r][i].from = s => out[r][i].seq < received[s]
  BY <1>1 DEF OrderInv, SequenceInv, Numbered
<1>4. PublisherOrder' /\ AnswersInOrder'
  BY <1>1, <1>3, SendMessage DEF OrderInv
<1> QED
  BY <1>2, <1>4 DEF OrderInv

\* What is sent goes out in order: steps of OrderInv.
LEMMA OrderStep ==
  ASSUME TypeOK, TopicInv, OrderInv, [Next]_vars
  PROVE  OrderInv'
<1>1. ASSUME NEW s \in Sessions, HandlerStep(s) PROVE OrderInv'
  <2>1. CASE AssignIdentity(s)
    <3>1. Send(s, "CONNACK", s) /\ received' = received /\ Serving(s) /\ ~Serving(s)'
      BY <2>1 DEF AssignIdentity, Serving, TypeOK
    <3> QED
      BY <3>1, OrderAnswered DEF Acks
  <2>2. CASE LookUpClient(s)
    BY <2>2, OrderUnsent DEF LookUpClient, identityVars,
      completionVars
  <2>3. CASE PurgeOld(s)
    BY <2>3, OrderUnsent DEF PurgeOld, identityVars, chainVars,
      completionVars
  <2>4. CASE StoreSession(s)
    BY <2>4, OrderUnsent DEF StoreSession, ReadNext, identityVars,
      completionVars
  <2>5. CASE SendSuback(s)
    <3>1. Send(s, "SUBACK", s) /\ received' = received /\ Serving(s) /\ ~Serving(s)'
      BY <2>5 DEF SendSuback, ReadNext, Serving, TypeOK
    <3> QED
      BY <3>1, OrderAnswered DEF Acks
  <2>6. CASE SendUnsuback(s)
    <3>1. Send(s, "UNSUBACK", s) /\ received' = received /\ Serving(s) /\ ~Serving(s)'
      BY <2>6 DEF SendUnsuback, ReadNext, Serving, TypeOK
    <3> QED
      BY <3>1, OrderAnswered DEF Acks
  <2>7. ASSUME NEW r \in Sessions, FanOut(s, r) PROVE OrderInv'
    BY <2>7, OrderFanOut
  <2>8. CASE SendPuback(s)
    <3>1. Send(s, "PUBACK", s) /\ received' = received /\ Serving(s) /\ ~Serving(s)'
      BY <2>8 DEF SendPuback, ReadNext, Serving, TypeOK
    <3> QED
      BY <3>1, OrderAnswered DEF Acks
  <2>9. CASE EraseSession(s)
    BY <2>9, OrderUnsent DEF EraseSession, identityVars, chainVars,
      completionVars
  <2>10. CASE PurgeSession(s)
    BY <2>10, OrderUnsent DEF PurgeSession, identityVars, chainVars,
      completionVars
  <2> QED
    BY <1>1, <2>1, <2>2, <2>3, <2>4, <2>5, <2>6, <2>7, <2>8, <2>9,
      <2>10 DEF HandlerStep
<1>2. ASSUME NEW s \in Sessions, CompletionStep(s) PROVE OrderInv'
  <2>1. CASE CompletionErase(s)
    BY <2>1, OrderUnsent DEF CompletionErase, identityVars, chainVars
  <2>2. CASE CompletionPurge(s)
    BY <2>2, OrderUnsent DEF CompletionPurge, identityVars, chainVars
  <2> QED
    BY <1>2, <2>1, <2>2 DEF CompletionStep
<1>3. ASSUME NEW s \in Sessions, Start(s) PROVE OrderInv'
  <2>1. CASE Accept(s)
    BY <2>1, OrderUnsent DEF Accept, identityVars, chainVars,
      completionVars
  <2>2. CASE IgnorePacket(s)
    BY <2>2, OrderUnsent DEF IgnorePacket, Dispatch, identityVars,
      chainVars, completionVars
  <2>3. CASE RejectConnect(s)
    BY <2>3, OrderUnsent DEF RejectConnect, Dispatch, identityVars,
      chainVars, completionVars
  <2>4. ASSUME NEW c \in Identity[s], ReceiveConnect(s, c) PROVE OrderInv'
    BY <2>4, OrderUnsent DEF ReceiveConnect, Dispatch, identityVars,
      completionVars
  <2>5. ASSUME NEW t \in Topics, ReceiveSubscribe(s, t) PROVE OrderInv'
    BY <2>5, OrderUnsent DEF ReceiveSubscribe, Dispatch,
      identityVars, completionVars
  <2>6. ASSUME NEW t \in Topics, ReceiveUnsubscribe(s, t) PROVE OrderInv'
    BY <2>6, OrderUnsent DEF ReceiveUnsubscribe, Dispatch,
      identityVars, completionVars
  <2>7. ASSUME NEW t \in Topics, ReceivePublish(s, t) PROVE OrderInv'
    BY <2>7, OrderUnsent DEF ReceivePublish, Dispatch, identityVars,
      completionVars
  <2>8. CASE ReadError(s)
    BY <2>8, OrderUnsent DEF ReadError, identityVars, chainVars,
      completionVars
  <2>9. CASE WriteFails(s)
    BY <2>9, OrderUnsent DEF WriteFails, identityVars, chainVars
  <2> QED
    BY <1>3, <2>1, <2>2, <2>3, <2>4, <2>5, <2>6, <2>7, <2>8, <2>9 DEF Start
<1>4. ASSUME NEW s \in Sessions, PeerCloses(s) PROVE OrderInv'
  BY <1>4, OrderUnsent DEF PeerCloses, identityVars, chainVars,
    completionVars
<1>5. CASE Idle \/ UNCHANGED vars
  BY <1>5, OrderUnsent DEF Idle, vars, identityVars, chainVars,
    completionVars
<1> QED
  BY <1>1, <1>2, <1>3, <1>4, <1>5 DEF Next

-----------------------------------------------------------------------------
(* The inductive invariant.                                                *)

LEMMA InitOrder == Init => OrderInv
  BY DEF Init, OrderInv, SequenceInv, PublisherOrder, AnswersInOrder

\* Every reachable state satisfies IInv, for all values of the constants.
THEOREM Invariance == Spec => []IInv
<1>1. Init => IInv
  BY InitTypes, InitTables, InitOrder DEF IInv
<1>2. IInv /\ [Next]_vars => IInv'
  <2> SUFFICES ASSUME IInv, [Next]_vars PROVE IInv'
    OBVIOUS
  <2>1. TypeOK' /\ TablesInv'
    BY NextTables DEF IInv
  <2>2. OrderInv'
    BY OrderStep DEF IInv, TablesInv
  <2> QED
    BY <2>1, <2>2 DEF IInv
<1> QED
  BY <1>1, <1>2, PTL DEF Spec

\* Messages of one publisher reach a subscriber in order and at most once each,
\* for any number of publishers, subscribers and threads.
THEOREM MessageOrder == Spec => []PublisherOrder
<1>1. IInv => PublisherOrder
  BY DEF IInv, OrderInv
<1> QED
  BY <1>1, Invariance, PTL

\* Every session gets its own answers, in the order of its requests, at most
\* one per request.
THEOREM AnswerOrder == Spec => []AnswersInOrder
<1>1. IInv => AnswersInOrder
  BY DEF IInv, OrderInv
<1> QED
  BY <1>1, Invariance, PTL
=============================================================================
