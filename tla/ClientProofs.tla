---------------------------- MODULE ClientProofs ----------------------------
(***************************************************************************)
(* Safety of the client library, for any topics, any number of calls and   *)
(* any number of messages.                                                 *)
(***************************************************************************)
EXTENDS Client, SequenceTheorems, TLAPS

(***************************************************************************)
(* The inductive invariant.  ThreadInv: what the program, the io thread    *)
(* and the chain of reads know of each other.  BlameInv: a thread that is  *)
(* left joinable while connected_ is off has an earlier cause.  LateInv: a *)
(* callback that is still to come is the first since the handler went.     *)
(* ServiceInv: CONN comes first, and is served before the client has any   *)
(* subscription, so that the takeover in it costs nothing.                 *)
(***************************************************************************)
Blamed == misled \/ broken

ThreadInv ==
  /\ user = "joining" => stopped /\ ~connected
  /\ user = "crashed" => io = "none" /\ reading = "none" /\ ~up
  /\ user # "crashed" /\ io = "none" => ~connected /\ handlers = {} /\ reading = "none"
  /\ io = "starting" => reading = "none" /\ ~connected
  /\ user \in {"storing", "erasing", "sending"} => io # "none"
  /\ runner = "none" <=> reading \in {"none", "armed"}
  /\ runner = "io" => io = "running"
  /\ user = "joining" => ~up
  /\ ~up => toBroker = <<>> /\ subscribed = {}
  /\ user = "storing" => request.type = "SUB"
  /\ user = "erasing" => request.type = "UNSUB"
  /\ user = "sending" => request.type # "CONN"
  /\ SilentOnceStopped

BlameInv ==
  /\ io # "none" /\ ~connected /\ user \notin {"waiting", "joining"} => Blamed
  /\ user = "opening" /\ (connected \/ io # "none") => Blamed
  /\ connected /\ (~up \/ socket # "open") => Blamed
  /\ ~up /\ toClient # <<>> => broken
  /\ reading = "disconnecting" => Blamed
  /\ CrashOnlyAfter

LateInv ==
  /\ OneLateCallback
  /\ \A t \in Topics :
       t \in handlers \/ (reading = "callback" /\ message = t) => late[t] = 0

ServiceInv ==
  /\ serving \in {"CONNACK", "registration"} => subscribed = {}
  /\ \A i \in DOMAIN toBroker :
       toBroker[i].type = "CONN" => i = 1 /\ serving = "nothing" /\ subscribed = {}

ClientInv == TypeOK /\ ThreadInv /\ BlameInv /\ LateInv /\ ServiceInv /\ HandlersMatch

-----------------------------------------------------------------------------
(* Packets, and what requests do to subscriptions.                         *)

LEMMA Packets ==
  /\ <<>> \in Seq(Packet)
  /\ \A t \in Topics : P("PUB", t) \in Packet
  /\ \A type \in {"CONNACK", "PUBACK", "SUBACK", "UNSUBACK"} : P(type, NoTopic) \in Packet
  /\ <<>> \in Seq(End!Request)
  /\ \A type \in {"PUB", "SUB", "UNSUB"}, t \in Topics : P(type, t) \in End!Request
  /\ P("CONN", NoTopic) \in End!Request
  /\ <<P("CONN", NoTopic)>> \in Seq(End!Request)
<1>1. /\ \A t \in Topics : P("PUB", t) \in Packet
      /\ \A type \in {"CONNACK", "PUBACK", "SUBACK", "UNSUBACK"} : P(type, NoTopic) \in Packet
  BY DEF P, Packet
<1>2. /\ \A type \in {"PUB", "SUB", "UNSUB"}, t \in Topics : P(type, t) \in End!Request
      /\ P("CONN", NoTopic) \in End!Request
  BY DEF P, End!Request
<1>3. <<P("CONN", NoTopic)>> \in Seq(End!Request)
  BY <1>2
<1> QED BY <1>1, <1>2, <1>3

\* No request in q, nothing changed.
LEMMA AfterNone ==
  ASSUME NEW s \in SUBSET Topics, NEW q,
         \A i \in DOMAIN q : \A t \in Topics : q[i] # P("SUB", t) /\ q[i] # P("UNSUB", t)
  PROVE  After(s, q) = s
BY DEF After

\* The last request is applied last.
LEMMA AfterAppend ==
  ASSUME NEW s \in SUBSET Topics, NEW q \in Seq(End!Request), NEW p \in End!Request
  PROVE  After(s, Append(q, p)) = End!Apply(After(s, q), p)
<1> DEFINE r == Append(q, p)
           n == Len(q) + 1
<1>1. /\ Len(q) \in Nat /\ DOMAIN q = 1 .. Len(q) /\ DOMAIN r = 1 .. n
      /\ r[n] = p /\ \A i \in 1 .. Len(q) : r[i] = q[i]
  BY AppendProperties, LenProperties
<1>2. \A i : i \in 1 .. n <=> i \in 1 .. Len(q) \/ i = n
  BY <1>1
<1>3. \A i \in 1 .. Len(q) : n > i /\ ~(i > n)
  BY <1>1
<1>4. ~(n > n)
  BY <1>1
<1> HIDE DEF r, n
<1>5. ASSUME NEW t \in Topics
      PROVE  /\ t \in After(s, q) <=>
                  \/ t \in s /\ \A i \in 1 .. Len(q) : q[i] # P("UNSUB", t)
                  \/ \E i \in 1 .. Len(q) : /\ q[i] = P("SUB", t)
                                            /\ \A j \in 1 .. Len(q) : j > i => q[j] # P("UNSUB", t)
             /\ t \in After(s, r) <=>
                  \/ t \in s /\ \A i \in 1 .. n : r[i] # P("UNSUB", t)
                  \/ \E i \in 1 .. n : /\ r[i] = P("SUB", t)
                                       /\ \A j \in 1 .. n : j > i => r[j] # P("UNSUB", t)
  BY <1>1 DEF After
<1>6. After(s, q) \subseteq Topics /\ After(s, r) \subseteq Topics
  BY DEF After
<1>7. \A t \in Topics : P("SUB", t) # P("UNSUB", t)
  BY DEF P
<1>8. ASSUME NEW t \in Topics
      PROVE  t \in After(s, r) <=> p = P("SUB", t) \/ (t \in After(s, q) /\ p # P("UNSUB", t))
  <2>1. CASE p = P("SUB", t)
    BY <2>1, <1>1, <1>2, <1>3, <1>4, <1>5, <1>7
  <2>2. CASE p = P("UNSUB", t)
    BY <2>2, <1>1, <1>2, <1>3, <1>4, <1>5, <1>7
  <2>3. CASE p # P("SUB", t) /\ p # P("UNSUB", t)
    BY <2>3, <1>1, <1>2, <1>3, <1>4, <1>5, <1>7
  <2> QED BY <2>1, <2>2, <2>3
<1>9. ASSUME NEW t \in Topics
      PROVE  t \in End!Apply(After(s, q), p) <=>
               p = P("SUB", t) \/ (t \in After(s, q) /\ p # P("UNSUB", t))
  <2> DEFINE a == After(s, q)
  <2> HIDE DEF a
  <2>1. t \in End!Apply(a, p) <=> p = P("SUB", t) \/ (t \in a /\ p # P("UNSUB", t))
    BY ClientAssumption DEF End!Apply, P, End!Request
  <2> QED BY <2>1 DEF a
<1>10. End!Apply(After(s, q), p) \subseteq Topics
  BY <1>6, ClientAssumption DEF End!Apply, End!Request
<1> QED BY <1>6, <1>8, <1>9, <1>10 DEF r

\* The first request is applied first.
LEMMA AfterHead ==
  ASSUME NEW s \in SUBSET Topics, NEW q \in Seq(End!Request), q # <<>>
  PROVE  After(s, q) = After(End!Apply(s, Head(q)), Tail(q))
<1> DEFINE r == Tail(q)
           p == Head(q)
           n == Len(q)
           u == End!Apply(s, p)
<1>1. /\ n \in Nat /\ n > 0 /\ DOMAIN q = 1 .. n /\ DOMAIN r = 1 .. n - 1
      /\ q[1] = p /\ \A i \in 1 .. n - 1 : r[i] = q[i + 1]
  <2>1. /\ Len(q) \in Nat /\ Len(q) > 0 /\ DOMAIN q = 1 .. Len(q)
    BY LenProperties, EmptySeq
  <2>2. /\ Tail(q) \in Seq(End!Request) /\ Len(Tail(q)) = Len(q) - 1
        /\ \A i \in 1 .. Len(Tail(q)) : Tail(q)[i] = q[i + 1] /\ Head(q) = q[1]
    BY HeadTailProperties
  <2>3. DOMAIN Tail(q) = 1 .. Len(q) - 1
    BY <2>2, LenProperties
  <2> QED BY <2>1, <2>2, <2>3
<1>2. p \in End!Request
  BY <1>1, ElementOfSeq
<1> HIDE DEF r, p, n, u
<1>3. \A i \in 1 .. n : i = 1 \/ (i - 1 \in 1 .. n - 1 /\ (i - 1) + 1 = i)
  BY <1>1
<1>4. \A i \in 1 .. n - 1 : i + 1 \in 1 .. n /\ i + 1 > 1 /\ i + 1 # 1 /\ ~(1 > i + 1)
  BY <1>1
<1>5. \A i, j \in 1 .. n - 1 : j > i <=> j + 1 > i + 1
  BY <1>1
<1>6. \A i \in 1 .. n : ~(1 > i) /\ ~(i > i)
  BY <1>1
<1>7. ASSUME NEW t \in Topics
      PROVE  /\ t \in u <=> p = P("SUB", t) \/ (t \in s /\ p # P("UNSUB", t))
             /\ P("SUB", t) # P("UNSUB", t)
  BY <1>2, ClientAssumption DEF u, End!Apply, P, End!Request
<1>8. u \in SUBSET Topics
  BY <1>2, ClientAssumption DEF u, End!Apply, End!Request
<1>9. ASSUME NEW t \in Topics
      PROVE  /\ t \in After(s, q) <=>
                  \/ t \in s /\ \A i \in 1 .. n : q[i] # P("UNSUB", t)
                  \/ \E i \in 1 .. n : /\ q[i] = P("SUB", t)
                                       /\ \A j \in 1 .. n : j > i => q[j] # P("UNSUB", t)
             /\ t \in After(u, r) <=>
                  \/ t \in u /\ \A i \in 1 .. n - 1 : r[i] # P("UNSUB", t)
                  \/ \E i \in 1 .. n - 1 :
                       /\ r[i] = P("SUB", t)
                       /\ \A j \in 1 .. n - 1 : j > i => r[j] # P("UNSUB", t)
  BY <1>1 DEF After
<1>10. ASSUME NEW t \in Topics
       PROVE  t \in After(s, q) => t \in After(u, r)
  <2>1. CASE t \in s /\ \A i \in 1 .. n : q[i] # P("UNSUB", t)
    <3>1. 1 \in 1 .. n /\ \A i \in 1 .. n - 1 : r[i] # P("UNSUB", t)
      BY <2>1, <1>1, <1>4
    <3> QED BY <2>1, <3>1, <1>1, <1>7, <1>9
  <2>2. ASSUME NEW i \in 1 .. n, q[i] = P("SUB", t),
               \A j \in 1 .. n : j > i => q[j] # P("UNSUB", t)
        PROVE  t \in After(u, r)
    <3>1. CASE i = 1
      <4>1. \A j \in 1 .. n - 1 : r[j] # P("UNSUB", t)
        BY <2>2, <3>1, <1>1, <1>4
      <4> QED BY <2>2, <3>1, <4>1, <1>1, <1>7, <1>9
    <3>2. CASE i # 1
      <4>1. i - 1 \in 1 .. n - 1 /\ r[i - 1] = P("SUB", t)
        BY <2>2, <3>2, <1>1, <1>3
      <4>2. ASSUME NEW j \in 1 .. n - 1, j > i - 1 PROVE r[j] # P("UNSUB", t)
        <5>1. j + 1 \in 1 .. n /\ j + 1 > i
          BY <4>2, <1>1
        <5> QED BY <5>1, <2>2, <1>1
      <4> QED BY <4>1, <4>2, <1>9
    <3> QED BY <3>1, <3>2
  <2> QED BY <2>1, <2>2, <1>9
<1>11. ASSUME NEW t \in Topics
       PROVE  t \in After(u, r) => t \in After(s, q)
  <2>1. CASE t \in u /\ \A i \in 1 .. n - 1 : r[i] # P("UNSUB", t)
    <3>1. \A i \in 1 .. n : i # 1 => q[i] # P("UNSUB", t)
      <4>1. ASSUME NEW i \in 1 .. n, i # 1 PROVE q[i] # P("UNSUB", t)
        <5>1. i - 1 \in 1 .. n - 1 /\ q[i] = r[i - 1]
          BY <4>1, <1>1, <1>3
        <5> QED BY <5>1, <2>1
      <4> QED BY <4>1
    <3>2. 1 \in 1 .. n /\ \A j \in 1 .. n : j > 1 => j # 1
      BY <1>1
    <3>3. CASE p = P("SUB", t)
      BY <3>1, <3>2, <3>3, <1>1, <1>9
    <3>4. CASE t \in s /\ p # P("UNSUB", t)
      BY <3>1, <3>4, <1>1, <1>9
    <3> QED BY <2>1, <3>3, <3>4, <1>7
  <2>2. ASSUME NEW i \in 1 .. n - 1, r[i] = P("SUB", t),
               \A j \in 1 .. n - 1 : j > i => r[j] # P("UNSUB", t)
        PROVE  t \in After(s, q)
    <3>1. i + 1 \in 1 .. n /\ q[i + 1] = P("SUB", t)
      BY <2>2, <1>1, <1>4
    <3>2. ASSUME NEW j \in 1 .. n, j > i + 1 PROVE q[j] # P("UNSUB", t)
      <4>1. j - 1 \in 1 .. n - 1 /\ j - 1 > i /\ q[j] = r[j - 1]
        <5>1. j - 1 \in 1 .. n - 1 /\ j - 1 > i /\ (j - 1) + 1 = j
          BY <3>2, <1>1
        <5> QED BY <5>1, <1>1
      <4> QED BY <4>1, <2>2
    <3> QED BY <3>1, <3>2, <1>9
  <2> QED BY <2>1, <2>2, <1>9
<1>12. After(s, q) \subseteq Topics /\ After(u, r) \subseteq Topics
  BY <1>8 DEF After
<1> QED BY <1>10, <1>11, <1>12 DEF u, p, r

-----------------------------------------------------------------------------
(* The broker's end of the connection.                                     *)

\* What a step may do to the requests on their way and to what the broker knows.
LEMMA WireSteps ==
  ASSUME [Next]_vars
  PROVE  \/ UNCHANGED <<brokerVars, toBroker>>
         \/ FreshEnd /\ toBroker' \in {<<>>, <<P("CONN", NoTopic)>>}
         \/ SendPacket \/ BrokerStep
<1>1. CASE NewCall
  BY <1>1 DEF NewCall, Connect, Disconnect, Destroy, Poll, Subscribe, Unsubscribe,
      Publish, Terminate, HangUp, wireVars
<1>2. CASE InCall
  BY <1>2 DEF InCall, OpenFails, Open, ConnectReturns, StoreHandler, EraseHandler,
      LockAndShut, Shut, Joined, PollReturns, Terminate, HangUp, wireVars
<1>3. CASE HandlerStep
  BY <1>3 DEF HandlerStep, HandleConnack, HandleAck, HandlePublish, ReadFails, LookUp,
      Callback, IoDisconnects, Shut, HangUp, wireVars
<1>4. CASE IoStarts \/ IoEnds \/ ConnectionLost \/ UNCHANGED vars
  BY <1>4 DEF IoStarts, IoEnds, ConnectionLost, vars, wireVars
<1> QED BY <1>1, <1>2, <1>3, <1>4 DEF Next

\* A step of the broker is one of its end of a connection that is up.
LEMMA BrokerSteps ==
  ASSUME TypeOK, BrokerStep
  PROVE  /\ up
         /\ UNCHANGED <<userVars, ioVars, chainVars, socket, up, broken, late, misled>>
         /\ \/ /\ toBroker # <<>> /\ toBroker' = Tail(toBroker)
               /\ End!Take(Head(toBroker)) /\ Head(toBroker) \in End!Request
               /\ UNCHANGED published
            \/ /\ toBroker # <<>> /\ toBroker' = Tail(toBroker)
               /\ Head(toBroker).type = "PUB"
               /\ UNCHANGED <<brokerVars, toClient, published>>
            \/ /\ UNCHANGED toBroker
               /\ \/ UNCHANGED published
                  \/ published < MaxPublished /\ published' = published + 1
               /\ \/ End!DeliverOwn \/ End!Answer \/ End!TakeOver \/ End!Registered
                  \/ \E t \in Topics : End!Accept(t) \/ End!Deliver(t)
<1>1. CASE BrokerTakes
  <2>1. Head(toBroker) \in End!Request
    BY <1>1, HeadTailProperties DEF BrokerTakes, TypeOK
  <2> QED BY <1>1, <2>1 DEF BrokerTakes, End!Take
<1>5. CASE BrokerIgnores
  BY <1>5 DEF BrokerIgnores, End!Ignore, End!vars, brokerVars
<1>2. CASE BrokerServes
  BY <1>2 DEF BrokerServes, End!DeliverOwn, End!Answer, End!TakeOver, End!Registered
<1>3. CASE \E t \in Topics : OtherPublishes(t)
  BY <1>3 DEF OtherPublishes, End!Accept
<1>4. CASE \E t \in Topics : BrokerDelivers(t)
  BY <1>4 DEF BrokerDelivers, End!Deliver
<1> QED BY <1>1, <1>2, <1>3, <1>4, <1>5 DEF BrokerStep

LEMMA EndTypesKept ==
  ASSUME TypeOK, [Next]_vars
  PROVE  EndTypeOK'
<1>1. CASE UNCHANGED <<brokerVars, toBroker>> \/ SendPacket \/ FreshEnd
  BY <1>1 DEF SendPacket, brokerVars, FreshEnd, TypeOK, EndTypeOK
<1>2. CASE BrokerStep
  <2>1. ASSUME NEW p \in End!Request, End!Take(p) PROVE EndTypeOK'
    <3>1. serving' \in {"CONNACK", "PUBACK", "SUBACK", "UNSUBACK"}
      BY <2>1 DEF End!Take, End!AnswerTo, End!Request
    <3>2. subscribed' \subseteq Topics
      BY <2>1 DEF End!Take, End!Apply, End!Request, TypeOK, EndTypeOK
    <3>3. owed' \in Topics \cup {NoTopic} /\ copied' \subseteq Topics
      BY <2>1 DEF End!Take, TypeOK, EndTypeOK
    <3> QED BY <3>1, <3>2, <3>3 DEF EndTypeOK
  <2>2. CASE End!DeliverOwn \/ End!Answer \/ End!TakeOver \/ End!Registered
    BY <2>2 DEF End!DeliverOwn, End!Answer, End!TakeOver, End!Registered, TypeOK, EndTypeOK
  <2>3. ASSUME NEW t \in Topics, End!Accept(t) \/ End!Deliver(t) PROVE EndTypeOK'
    BY <2>3 DEF End!Accept, End!Deliver, TypeOK, EndTypeOK
  <2>4. CASE UNCHANGED brokerVars
    BY <2>4 DEF brokerVars, TypeOK, EndTypeOK
  <2> QED BY <1>2, <2>1, <2>2, <2>3, <2>4, BrokerSteps
<1> QED BY <1>1, <1>2, WireSteps

\* What the broker sends are packets.
LEMMA SentTypesKept ==
  ASSUME TypeOK, BrokerStep
  PROVE  toClient' \in Seq(Packet)
<1>1. CASE End!DeliverOwn
  <2>1. P("PUB", owed) \in Packet /\ toClient' = Append(toClient, P("PUB", owed))
    BY <1>1, Packets DEF End!DeliverOwn, End!Send, End!P, P, TypeOK, EndTypeOK
  <2> QED BY <2>1, AppendProperties DEF TypeOK
<1>2. CASE End!Answer
  <2>1. P(serving, NoTopic) \in Packet /\ toClient' = Append(toClient, P(serving, NoTopic))
    BY <1>2, Packets DEF End!Answer, End!Send, End!P, P, TypeOK, EndTypeOK
  <2> QED BY <2>1, AppendProperties DEF TypeOK
<1>3. ASSUME NEW t \in Topics, End!Deliver(t) PROVE toClient' \in Seq(Packet)
  <2>1. P("PUB", t) \in Packet /\ toClient' = Append(toClient, P("PUB", t))
    BY <1>3, Packets DEF End!Deliver, End!Send, End!P, P
  <2> QED BY <2>1, AppendProperties DEF TypeOK
<1>4. ASSUME \/ End!Take(Head(toBroker)) \/ End!TakeOver \/ End!Registered
             \/ \E t \in Topics : End!Accept(t)
      PROVE  toClient' \in Seq(Packet)
  BY <1>4 DEF End!Take, End!TakeOver, End!Registered, End!Accept, TypeOK
<1>5. CASE UNCHANGED toClient
  BY <1>5 DEF TypeOK
<1> QED BY <1>1, <1>2, <1>3, <1>4, <1>5, BrokerSteps

LEMMA ServiceKept ==
  ASSUME TypeOK, ThreadInv, ServiceInv, [Next]_vars
  PROVE  ServiceInv'
<1>1. CASE UNCHANGED <<brokerVars, toBroker>>
  BY <1>1 DEF brokerVars, ServiceInv
<1>2. CASE FreshEnd /\ toBroker' \in {<<>>, <<P("CONN", NoTopic)>>}
  <2>1. DOMAIN toBroker' \subseteq {1}
    BY <1>2
  <2> QED BY <1>2, <2>1 DEF FreshEnd, ServiceInv
<1>3. CASE SendPacket
  <2>1. /\ UNCHANGED <<serving, subscribed>> /\ request.type # "CONN"
        /\ toBroker' = toBroker \/ toBroker' = Append(toBroker, request)
    BY <1>3 DEF SendPacket, brokerVars, ThreadInv
  <2>2. CASE toBroker' = toBroker
    BY <2>1, <2>2 DEF ServiceInv
  <2>3. CASE toBroker' = Append(toBroker, request)
    <3>1. \A i \in DOMAIN toBroker' :
            \/ i \in DOMAIN toBroker /\ toBroker'[i] = toBroker[i]
            \/ toBroker'[i] = request
      BY <2>3, AppendProperties, LenProperties DEF TypeOK
    <3> QED BY <2>1, <3>1 DEF ServiceInv
  <2> QED BY <2>1, <2>2, <2>3
<1>4. CASE BrokerStep
  <2>3. ASSUME toBroker # <<>>, toBroker' = Tail(toBroker), NEW i \in DOMAIN toBroker'
        PROVE  toBroker'[i].type # "CONN"
    <3>1. i + 1 \in DOMAIN toBroker /\ i + 1 # 1 /\ toBroker'[i] = toBroker[i + 1]
      <4>1. /\ Tail(toBroker) \in Seq(End!Request) /\ Len(Tail(toBroker)) = Len(toBroker) - 1
            /\ \A j \in 1 .. Len(Tail(toBroker)) : Tail(toBroker)[j] = toBroker[j + 1]
        BY <2>3, HeadTailProperties DEF TypeOK
      <4>2. Len(toBroker) \in Nat /\ DOMAIN toBroker = 1 .. Len(toBroker)
        BY LenProperties DEF TypeOK
      <4>3. DOMAIN Tail(toBroker) = 1 .. Len(toBroker) - 1
        BY <4>1, LenProperties
      <4>4. i \in 1 .. Len(toBroker) - 1
        BY <2>3, <4>3
      <4> QED BY <2>3, <4>1, <4>2, <4>4
    <3> QED BY <3>1 DEF ServiceInv
  <2>1. ASSUME toBroker # <<>>, toBroker' = Tail(toBroker), End!Take(Head(toBroker)),
               Head(toBroker) \in End!Request
        PROVE  ServiceInv'
    <3> DEFINE p == Head(toBroker)
    <3>1. 1 \in DOMAIN toBroker /\ toBroker[1] = p
      BY <2>1, HeadTailProperties, LenProperties, EmptySeq DEF TypeOK
    <3>2. \A i \in DOMAIN toBroker' : toBroker'[i].type # "CONN"
      BY <2>1, <2>3
    <3>3. serving' \in {"CONNACK", "registration"} => p.type = "CONN"
      BY <2>1 DEF End!Take, End!AnswerTo, End!Request
    <3>4. p.type = "CONN" => subscribed' = {}
      BY <2>1, <3>1 DEF ServiceInv, End!Take, End!Apply
    <3> QED BY <3>2, <3>3, <3>4 DEF ServiceInv
  <2>2. ASSUME UNCHANGED toBroker,
               \/ End!DeliverOwn \/ End!Answer \/ End!TakeOver \/ End!Registered
               \/ \E t \in Topics : End!Accept(t) \/ End!Deliver(t)
        PROVE  ServiceInv'
    BY <2>2 DEF ServiceInv, End!DeliverOwn, End!Answer, End!TakeOver, End!Registered,
        End!Accept, End!Deliver
  <2>4. ASSUME toBroker # <<>>, toBroker' = Tail(toBroker), UNCHANGED brokerVars
        PROVE  ServiceInv'
    BY <2>3, <2>4 DEF ServiceInv, brokerVars
  <2> QED BY <1>4, <2>1, <2>2, <2>4, BrokerSteps
<1> QED BY <1>1, <1>2, <1>3, <1>4, WireSteps

-----------------------------------------------------------------------------
(* Each part is kept by every step.                                        *)

\* The types.
LEMMA TypesKept ==
  ASSUME TypeOK, ThreadInv, [Next]_vars
  PROVE  TypeOK'
<1>0. EndTypeOK'
  BY EndTypesKept
<1>1. CASE Connect
  BY <1>0, <1>1, ClientAssumption, Packets DEF Connect, Call, userVars, ioVars, chainVars,
      wireVars, brokerVars, TypeOK, UserSteps, ReadSteps
<1>2. CASE Disconnect
  BY <1>0, <1>2, ClientAssumption, Packets DEF Disconnect, Call, userVars, ioVars, chainVars,
      wireVars, brokerVars, TypeOK, UserSteps, ReadSteps
<1>3. CASE Destroy
  <2>1. /\ user' \in UserSteps /\ request' \in End!Request /\ leaving' \in BOOLEAN
        /\ calls' \in 0 .. MaxCalls
    BY <1>0, <1>3, ClientAssumption DEF Destroy, Call, Terminate, HangUp, FreshEnd, userVars, ioVars,
        chainVars, wireVars, brokerVars, TypeOK, UserSteps, ReadSteps
  <2>2. /\ connected' \in BOOLEAN /\ io' \in {"none", "starting", "running", "finished"}
        /\ stopped' \in BOOLEAN /\ handlers' \subseteq Topics
    BY <1>0, <1>3 DEF Destroy, Call, Terminate, HangUp, FreshEnd, userVars, ioVars, chainVars, wireVars, brokerVars,
        TypeOK, UserSteps, ReadSteps
  <2>3. /\ reading' \in ReadSteps /\ runner' \in {"none", "user", "io"}
        /\ message' \in Topics \cup {NoTopic}
    BY <1>0, <1>3 DEF Destroy, Call, Terminate, HangUp, FreshEnd, userVars, ioVars, chainVars, wireVars, brokerVars,
        TypeOK, UserSteps, ReadSteps
  <2>4. /\ socket' \in {"none", "open", "closed"} /\ up' \in BOOLEAN
        /\ toBroker' \in Seq(End!Request) /\ toClient' \in Seq(Packet)
    BY <1>0, <1>3, Packets DEF Destroy, Call, Terminate, HangUp, FreshEnd, userVars, ioVars, chainVars,
        wireVars, brokerVars, TypeOK, UserSteps, ReadSteps
  <2>5. /\ EndTypeOK' /\ published' \in 0 .. MaxPublished
        /\ late' \in [Topics -> Nat] /\ misled' \in BOOLEAN /\ broken' \in BOOLEAN
    BY <1>0, <1>3 DEF Destroy, Call, Terminate, HangUp, FreshEnd, userVars, ioVars, chainVars, wireVars, brokerVars,
        TypeOK, UserSteps, ReadSteps
  <2> QED BY <2>1, <2>2, <2>3, <2>4, <2>5 DEF TypeOK
<1>4. CASE Poll
  <2>1. /\ user' \in UserSteps /\ request' \in End!Request /\ leaving' \in BOOLEAN
        /\ calls' \in 0 .. MaxCalls
    BY <1>0, <1>4, ClientAssumption DEF Poll, Call, userVars, ioVars, chainVars, wireVars, brokerVars,
        TypeOK, UserSteps, ReadSteps
  <2>2. /\ connected' \in BOOLEAN /\ io' \in {"none", "starting", "running", "finished"}
        /\ stopped' \in BOOLEAN /\ handlers' \subseteq Topics
    BY <1>0, <1>4 DEF Poll, Call, userVars, ioVars, chainVars, wireVars, brokerVars, TypeOK, UserSteps,
        ReadSteps
  <2>3. /\ reading' \in ReadSteps /\ runner' \in {"none", "user", "io"}
        /\ message' \in Topics \cup {NoTopic}
    BY <1>0, <1>4 DEF Poll, Call, userVars, ioVars, chainVars, wireVars, brokerVars, TypeOK, UserSteps,
        ReadSteps
  <2>4. /\ socket' \in {"none", "open", "closed"} /\ up' \in BOOLEAN
        /\ toBroker' \in Seq(End!Request) /\ toClient' \in Seq(Packet)
    BY <1>0, <1>4, Packets DEF Poll, Call, userVars, ioVars, chainVars, wireVars, brokerVars, TypeOK,
        UserSteps, ReadSteps
  <2>5. /\ EndTypeOK' /\ published' \in 0 .. MaxPublished
        /\ late' \in [Topics -> Nat] /\ misled' \in BOOLEAN /\ broken' \in BOOLEAN
    BY <1>0, <1>4 DEF Poll, Call, userVars, ioVars, chainVars, wireVars, brokerVars, TypeOK, UserSteps,
        ReadSteps
  <2> QED BY <2>1, <2>2, <2>3, <2>4, <2>5 DEF TypeOK
<1>5. ASSUME NEW t \in Topics, Subscribe(t) PROVE TypeOK'
  BY <1>0, <1>5, ClientAssumption, Packets DEF Subscribe, Call, userVars, ioVars, chainVars,
      wireVars, brokerVars, TypeOK, UserSteps, ReadSteps
<1>6. ASSUME NEW t \in Topics, Unsubscribe(t) PROVE TypeOK'
  BY <1>0, <1>6, ClientAssumption, Packets DEF Unsubscribe, Call, userVars, ioVars, chainVars,
      wireVars, brokerVars, TypeOK, UserSteps, ReadSteps
<1>7. ASSUME NEW t \in Topics, Publish(t) PROVE TypeOK'
  BY <1>0, <1>7, ClientAssumption, Packets DEF Publish, Call, userVars, ioVars, chainVars,
      wireVars, brokerVars, TypeOK, UserSteps, ReadSteps
<1>8. CASE OpenFails
  <2>1. /\ user' \in UserSteps /\ request' \in End!Request /\ leaving' \in BOOLEAN
        /\ calls' \in 0 .. MaxCalls
    BY <1>0, <1>8, ClientAssumption DEF OpenFails, HangUp, FreshEnd, userVars, ioVars, chainVars,
        wireVars, brokerVars, TypeOK, UserSteps, ReadSteps
  <2>2. /\ connected' \in BOOLEAN /\ io' \in {"none", "starting", "running", "finished"}
        /\ stopped' \in BOOLEAN /\ handlers' \subseteq Topics
    BY <1>0, <1>8 DEF OpenFails, HangUp, FreshEnd, userVars, ioVars, chainVars, wireVars, brokerVars, TypeOK,
        UserSteps, ReadSteps
  <2>3. /\ reading' \in ReadSteps /\ runner' \in {"none", "user", "io"}
        /\ message' \in Topics \cup {NoTopic}
    BY <1>0, <1>8 DEF OpenFails, HangUp, FreshEnd, userVars, ioVars, chainVars, wireVars, brokerVars, TypeOK,
        UserSteps, ReadSteps
  <2>4. /\ socket' \in {"none", "open", "closed"} /\ up' \in BOOLEAN
        /\ toBroker' \in Seq(End!Request) /\ toClient' \in Seq(Packet)
    BY <1>0, <1>8, Packets DEF OpenFails, HangUp, FreshEnd, userVars, ioVars, chainVars, wireVars, brokerVars,
        TypeOK, UserSteps, ReadSteps
  <2>5. /\ EndTypeOK' /\ published' \in 0 .. MaxPublished
        /\ late' \in [Topics -> Nat] /\ misled' \in BOOLEAN /\ broken' \in BOOLEAN
    BY <1>0, <1>8 DEF OpenFails, HangUp, FreshEnd, userVars, ioVars, chainVars, wireVars, brokerVars, TypeOK,
        UserSteps, ReadSteps
  <2> QED BY <2>1, <2>2, <2>3, <2>4, <2>5 DEF TypeOK
<1>9. CASE Open
  BY <1>0, <1>9, ClientAssumption, Packets DEF Open, Terminate, HangUp, FreshEnd, userVars, ioVars,
      chainVars, wireVars, brokerVars, TypeOK, UserSteps, ReadSteps
<1>10. CASE ConnectReturns
  BY <1>0, <1>10, ClientAssumption, Packets DEF ConnectReturns, userVars, ioVars, chainVars,
      wireVars, brokerVars, TypeOK, UserSteps, ReadSteps
<1>11. CASE StoreHandler
  <2>1. request.topic \in Topics
    BY <1>0, <1>11 DEF StoreHandler, TypeOK, End!Request, ThreadInv
  <2>2. late' \in [Topics -> Nat] /\ handlers' \subseteq Topics
    BY <1>0, <1>11, <2>1 DEF StoreHandler, TypeOK
  <2> QED BY <1>0, <1>11, <2>2 DEF StoreHandler, chainVars, wireVars, brokerVars, TypeOK, UserSteps
<1>12. CASE EraseHandler
  BY <1>0, <1>12, ClientAssumption, Packets DEF EraseHandler, userVars, ioVars, chainVars,
      wireVars, brokerVars, TypeOK, UserSteps, ReadSteps
<1>13. CASE SendPacket
  BY <1>0, <1>13, ClientAssumption, Packets DEF SendPacket, userVars, ioVars, chainVars,
      wireVars, brokerVars, TypeOK, UserSteps, ReadSteps
<1>14. CASE LockAndShut
  BY <1>0, <1>14, ClientAssumption, Packets DEF LockAndShut, Shut, HangUp, FreshEnd, userVars, ioVars,
      chainVars, wireVars, brokerVars, TypeOK, UserSteps, ReadSteps
<1>15. CASE Joined
  BY <1>0, <1>15, ClientAssumption, Packets DEF Joined, userVars, ioVars, chainVars, wireVars, brokerVars,
      TypeOK, UserSteps, ReadSteps
<1>16. CASE PollReturns
  BY <1>0, <1>16, ClientAssumption, Packets DEF PollReturns, userVars, ioVars, chainVars,
      wireVars, brokerVars, TypeOK, UserSteps, ReadSteps
<1>17. CASE IoStarts
  BY <1>0, <1>17, ClientAssumption, Packets DEF IoStarts, ReadNext, userVars, ioVars,
      chainVars, wireVars, brokerVars, TypeOK, UserSteps, ReadSteps
<1>18. CASE IoEnds
  BY <1>0, <1>18, ClientAssumption, Packets DEF IoEnds, userVars, ioVars, chainVars, wireVars, brokerVars,
      TypeOK, UserSteps, ReadSteps
<1>19. ASSUME NEW r \in {"io", "user"}, HandleConnack(r) PROVE TypeOK'
  BY <1>0, <1>19, ClientAssumption, Packets DEF HandleConnack, CanReceive, CanRun, userVars,
      ioVars, chainVars, wireVars, brokerVars, TypeOK, UserSteps, ReadSteps
<1>20. ASSUME NEW r \in {"io", "user"}, HandleAck(r) PROVE TypeOK'
  BY <1>0, <1>20, ClientAssumption, Packets DEF HandleAck, CanReceive, CanRun, userVars,
      ioVars, chainVars, wireVars, brokerVars, TypeOK, UserSteps, ReadSteps
<1>21. ASSUME NEW r \in {"io", "user"}, HandlePublish(r) PROVE TypeOK'
  BY <1>0, <1>21, ClientAssumption, Packets DEF HandlePublish, CanReceive, CanRun, userVars,
      ioVars, chainVars, wireVars, brokerVars, TypeOK, UserSteps, ReadSteps
<1>22. ASSUME NEW r \in {"io", "user"}, ReadFails(r) PROVE TypeOK'
  BY <1>0, <1>22, ClientAssumption, Packets DEF ReadFails, CanRun, userVars, ioVars,
      chainVars, wireVars, brokerVars, TypeOK, UserSteps, ReadSteps
<1>23. CASE LookUp
  BY <1>0, <1>23, ClientAssumption, Packets DEF LookUp, ReadNext, userVars, ioVars, chainVars,
      wireVars, brokerVars, TypeOK, UserSteps, ReadSteps
<1>24. CASE Callback
  <2>1. late' \in [Topics -> Nat]
    <3>1. late' = [t \in Topics |-> IF t = message
                                  THEN IF message \in handlers THEN 0 ELSE late[t] + 1
                                  ELSE late[t]]
      BY <1>0, <1>24 DEF Callback, TypeOK
    <3> QED BY <3>1 DEF TypeOK
  <2> QED BY <1>0, <1>24, <2>1 DEF Callback, ReadNext, userVars, ioVars, wireVars, brokerVars, TypeOK,
      ReadSteps
<1>25. CASE IoDisconnects
  BY <1>0, <1>25, ClientAssumption, Packets DEF IoDisconnects, Shut, HangUp, FreshEnd, userVars, ioVars,
      chainVars, wireVars, brokerVars, TypeOK, UserSteps, ReadSteps
<1>26. CASE BrokerStep
  <2>1. toClient' \in Seq(Packet)
    BY <1>26, SentTypesKept
  <2>2. toBroker' \in Seq(End!Request)
    BY <1>26, BrokerSteps, HeadTailProperties DEF TypeOK
  <2>3. published' \in 0 .. MaxPublished
    BY <1>26, BrokerSteps, ClientAssumption DEF TypeOK
  <2> QED BY <1>0, <1>26, <2>1, <2>2, <2>3, BrokerSteps
      DEF userVars, ioVars, chainVars, TypeOK
<1>27. CASE ConnectionLost
  <2>1. /\ user' \in UserSteps /\ request' \in End!Request /\ leaving' \in BOOLEAN
        /\ calls' \in 0 .. MaxCalls
    BY <1>0, <1>27, ClientAssumption DEF ConnectionLost, FreshEnd, userVars, ioVars, chainVars,
        wireVars, brokerVars, TypeOK, UserSteps, ReadSteps
  <2>2. /\ connected' \in BOOLEAN /\ io' \in {"none", "starting", "running", "finished"}
        /\ stopped' \in BOOLEAN /\ handlers' \subseteq Topics
    BY <1>0, <1>27 DEF ConnectionLost, FreshEnd, userVars, ioVars, chainVars, wireVars, brokerVars, TypeOK,
        UserSteps, ReadSteps
  <2>3. /\ reading' \in ReadSteps /\ runner' \in {"none", "user", "io"}
        /\ message' \in Topics \cup {NoTopic}
    BY <1>0, <1>27 DEF ConnectionLost, FreshEnd, userVars, ioVars, chainVars, wireVars, brokerVars, TypeOK,
        UserSteps, ReadSteps
  <2>4. /\ socket' \in {"none", "open", "closed"} /\ up' \in BOOLEAN
        /\ toBroker' \in Seq(End!Request) /\ toClient' \in Seq(Packet)
    BY <1>0, <1>27, Packets DEF ConnectionLost, FreshEnd, userVars, ioVars, chainVars, wireVars, brokerVars, TypeOK,
        UserSteps, ReadSteps
  <2>5. /\ EndTypeOK' /\ published' \in 0 .. MaxPublished
        /\ late' \in [Topics -> Nat] /\ misled' \in BOOLEAN /\ broken' \in BOOLEAN
    BY <1>0, <1>27 DEF ConnectionLost, FreshEnd, userVars, ioVars, chainVars, wireVars, brokerVars, TypeOK,
        UserSteps, ReadSteps
  <2> QED BY <2>1, <2>2, <2>3, <2>4, <2>5 DEF TypeOK
<1>28. CASE UNCHANGED vars
  BY <1>0, <1>28 DEF vars, userVars, ioVars, chainVars, wireVars, brokerVars, TypeOK, UserSteps, ReadSteps
<1> QED BY <1>0, <1>1, <1>2, <1>3, <1>4, <1>5, <1>6, <1>7, <1>8, <1>9, <1>10, <1>11, <1>12,
    <1>13, <1>14, <1>15, <1>16, <1>17, <1>18, <1>19, <1>20, <1>21, <1>22, <1>23, <1>24,
    <1>25, <1>26, <1>27, <1>28 DEF Next, NewCall, InCall, HandlerStep

\* The threads and the chain of reads.
LEMMA ThreadsKept ==
  ASSUME TypeOK, ThreadInv, [Next]_vars
  PROVE  ThreadInv'
<1>1. CASE Connect
  BY <1>1 DEF Connect, Call, userVars, ioVars, chainVars, wireVars, brokerVars, TypeOK, UserSteps,
      ReadSteps, ThreadInv, SilentOnceStopped
<1>2. CASE Disconnect
  BY <1>2 DEF Disconnect, Call, userVars, ioVars, chainVars, wireVars, brokerVars, TypeOK,
      UserSteps, ReadSteps, ThreadInv, SilentOnceStopped
<1>3. CASE Destroy
  BY <1>3 DEF Destroy, Call, Terminate, HangUp, FreshEnd, userVars, ioVars, chainVars, wireVars, brokerVars,
      TypeOK, UserSteps, ReadSteps, ThreadInv, SilentOnceStopped
<1>4. CASE Poll
  BY <1>4 DEF Poll, Call, userVars, ioVars, chainVars, wireVars, brokerVars, TypeOK, UserSteps,
      ReadSteps, ThreadInv, SilentOnceStopped
<1>5. ASSUME NEW t \in Topics, Subscribe(t) PROVE ThreadInv'
  BY <1>5 DEF Subscribe, Call, P, userVars, ioVars, chainVars, wireVars, brokerVars, TypeOK,
      UserSteps, ReadSteps, ThreadInv, SilentOnceStopped
<1>6. ASSUME NEW t \in Topics, Unsubscribe(t) PROVE ThreadInv'
  BY <1>6 DEF Unsubscribe, Call, P, userVars, ioVars, chainVars, wireVars, brokerVars, TypeOK,
      UserSteps, ReadSteps, ThreadInv, SilentOnceStopped
<1>7. ASSUME NEW t \in Topics, Publish(t) PROVE ThreadInv'
  BY <1>7 DEF Publish, Call, P, userVars, ioVars, chainVars, wireVars, brokerVars, TypeOK,
      UserSteps, ReadSteps, ThreadInv, SilentOnceStopped
<1>8. CASE OpenFails
  BY <1>8 DEF OpenFails, HangUp, FreshEnd, userVars, ioVars, chainVars, wireVars, brokerVars, TypeOK,
      UserSteps, ReadSteps, ThreadInv, SilentOnceStopped
<1>9. CASE Open
  BY <1>9 DEF Open, Terminate, HangUp, FreshEnd, P, userVars, ioVars, chainVars, wireVars, brokerVars, TypeOK,
      UserSteps, ReadSteps, ThreadInv, SilentOnceStopped
<1>10. CASE ConnectReturns
  BY <1>10 DEF ConnectReturns, userVars, ioVars, chainVars, wireVars, brokerVars, TypeOK, UserSteps,
      ReadSteps, ThreadInv, SilentOnceStopped
<1>11. CASE StoreHandler
  BY <1>11 DEF StoreHandler, userVars, ioVars, chainVars, wireVars, brokerVars, TypeOK, UserSteps,
      ReadSteps, ThreadInv, SilentOnceStopped
<1>12. CASE EraseHandler
  BY <1>12 DEF EraseHandler, userVars, ioVars, chainVars, wireVars, brokerVars, TypeOK, UserSteps,
      ReadSteps, ThreadInv, SilentOnceStopped
<1>13. CASE SendPacket
  BY <1>13 DEF SendPacket, userVars, ioVars, chainVars, wireVars, brokerVars, TypeOK, UserSteps,
      ReadSteps, ThreadInv, SilentOnceStopped
<1>14. CASE LockAndShut
  BY <1>14 DEF LockAndShut, Shut, HangUp, FreshEnd, userVars, ioVars, chainVars, wireVars, brokerVars, TypeOK,
      UserSteps, ReadSteps, ThreadInv, SilentOnceStopped
<1>15. CASE Joined
  BY <1>15 DEF Joined, userVars, ioVars, chainVars, wireVars, brokerVars, TypeOK, UserSteps,
      ReadSteps, ThreadInv, SilentOnceStopped
<1>16. CASE PollReturns
  BY <1>16 DEF PollReturns, userVars, ioVars, chainVars, wireVars, brokerVars, TypeOK, UserSteps,
      ReadSteps, ThreadInv, SilentOnceStopped
<1>17. CASE IoStarts
  BY <1>17 DEF IoStarts, ReadNext, userVars, ioVars, chainVars, wireVars, brokerVars, TypeOK,
      UserSteps, ReadSteps, ThreadInv, SilentOnceStopped
<1>18. CASE IoEnds
  BY <1>18 DEF IoEnds, userVars, ioVars, chainVars, wireVars, brokerVars, TypeOK, UserSteps,
      ReadSteps, ThreadInv, SilentOnceStopped
<1>19. ASSUME NEW r \in {"io", "user"}, HandleConnack(r) PROVE ThreadInv'
  BY <1>19 DEF HandleConnack, CanReceive, CanRun, userVars, ioVars, chainVars, wireVars, brokerVars,
      TypeOK, UserSteps, ReadSteps, ThreadInv, SilentOnceStopped
<1>20. ASSUME NEW r \in {"io", "user"}, HandleAck(r) PROVE ThreadInv'
  BY <1>20 DEF HandleAck, CanReceive, CanRun, userVars, ioVars, chainVars, wireVars, brokerVars,
      TypeOK, UserSteps, ReadSteps, ThreadInv, SilentOnceStopped
<1>21. ASSUME NEW r \in {"io", "user"}, HandlePublish(r) PROVE ThreadInv'
  BY <1>21 DEF HandlePublish, CanReceive, CanRun, userVars, ioVars, chainVars, wireVars, brokerVars,
      TypeOK, UserSteps, ReadSteps, ThreadInv, SilentOnceStopped
<1>22. ASSUME NEW r \in {"io", "user"}, ReadFails(r) PROVE ThreadInv'
  BY <1>22 DEF ReadFails, CanRun, userVars, ioVars, chainVars, wireVars, brokerVars, TypeOK,
      UserSteps, ReadSteps, ThreadInv, SilentOnceStopped
<1>23. CASE LookUp
  BY <1>23 DEF LookUp, ReadNext, userVars, ioVars, chainVars, wireVars, brokerVars, TypeOK,
      UserSteps, ReadSteps, ThreadInv, SilentOnceStopped
<1>24. CASE Callback
  BY <1>24 DEF Callback, ReadNext, userVars, ioVars, chainVars, wireVars, brokerVars, TypeOK,
      UserSteps, ReadSteps, ThreadInv, SilentOnceStopped
<1>25. CASE IoDisconnects
  BY <1>25 DEF IoDisconnects, Shut, HangUp, FreshEnd, userVars, ioVars, chainVars, wireVars, brokerVars,
      TypeOK, UserSteps, ReadSteps, ThreadInv, SilentOnceStopped
<1>26. CASE BrokerStep
  BY <1>26, BrokerSteps DEF userVars, ioVars, chainVars, ThreadInv, SilentOnceStopped
<1>27. CASE ConnectionLost
  BY <1>27 DEF ConnectionLost, FreshEnd, userVars, ioVars, chainVars, wireVars, brokerVars, TypeOK, UserSteps,
      ReadSteps, ThreadInv, SilentOnceStopped
<1>28. CASE UNCHANGED vars
  BY <1>28 DEF vars, userVars, ioVars, chainVars, wireVars, brokerVars, TypeOK, UserSteps,
      ReadSteps, ThreadInv, SilentOnceStopped
<1> QED BY <1>1, <1>2, <1>3, <1>4, <1>5, <1>6, <1>7, <1>8, <1>9, <1>10, <1>11, <1>12,
    <1>13, <1>14, <1>15, <1>16, <1>17, <1>18, <1>19, <1>20, <1>21, <1>22, <1>23, <1>24,
    <1>25, <1>26, <1>27, <1>28 DEF Next, NewCall, InCall, HandlerStep

\* What a joinable thread is owed to.
LEMMA BlameKept ==
  ASSUME TypeOK, ThreadInv, BlameInv, [Next]_vars
  PROVE  BlameInv'
<1>1. CASE Connect
  BY <1>1 DEF Connect, Call, userVars, ioVars, chainVars, wireVars, brokerVars, TypeOK, ThreadInv,
      BlameInv, CrashOnlyAfter, Blamed
<1>2. CASE Disconnect
  BY <1>2 DEF Disconnect, Call, userVars, ioVars, chainVars, wireVars, brokerVars, TypeOK,
      ThreadInv, BlameInv, CrashOnlyAfter, Blamed
<1>3. CASE Destroy
  BY <1>3 DEF Destroy, Call, Terminate, HangUp, FreshEnd, userVars, ioVars, chainVars, wireVars, brokerVars,
      TypeOK, ThreadInv, BlameInv, CrashOnlyAfter, Blamed
<1>4. CASE Poll
  BY <1>4 DEF Poll, Call, userVars, ioVars, chainVars, wireVars, brokerVars, TypeOK, ThreadInv,
      BlameInv, CrashOnlyAfter, Blamed
<1>5. ASSUME NEW t \in Topics, Subscribe(t) PROVE BlameInv'
  BY <1>5 DEF Subscribe, Call, P, userVars, ioVars, chainVars, wireVars, brokerVars, TypeOK,
      ThreadInv, BlameInv, CrashOnlyAfter, Blamed
<1>6. ASSUME NEW t \in Topics, Unsubscribe(t) PROVE BlameInv'
  BY <1>6 DEF Unsubscribe, Call, P, userVars, ioVars, chainVars, wireVars, brokerVars, TypeOK,
      ThreadInv, BlameInv, CrashOnlyAfter, Blamed
<1>7. ASSUME NEW t \in Topics, Publish(t) PROVE BlameInv'
  BY <1>7 DEF Publish, Call, P, userVars, ioVars, chainVars, wireVars, brokerVars, TypeOK,
      ThreadInv, BlameInv, CrashOnlyAfter, Blamed
<1>8. CASE OpenFails
  BY <1>8 DEF OpenFails, HangUp, FreshEnd, userVars, ioVars, chainVars, wireVars, brokerVars, TypeOK,
      ThreadInv, BlameInv, CrashOnlyAfter, Blamed
<1>9. CASE Open
  BY <1>9 DEF Open, Terminate, HangUp, FreshEnd, P, userVars, ioVars, chainVars, wireVars, brokerVars, TypeOK,
      ThreadInv, BlameInv, CrashOnlyAfter, Blamed
<1>10. CASE ConnectReturns
  BY <1>10 DEF ConnectReturns, userVars, ioVars, chainVars, wireVars, brokerVars, TypeOK, ThreadInv,
      BlameInv, CrashOnlyAfter, Blamed
<1>11. CASE StoreHandler
  BY <1>11 DEF StoreHandler, userVars, ioVars, chainVars, wireVars, brokerVars, TypeOK, ThreadInv,
      BlameInv, CrashOnlyAfter, Blamed
<1>12. CASE EraseHandler
  BY <1>12 DEF EraseHandler, userVars, ioVars, chainVars, wireVars, brokerVars, TypeOK, ThreadInv,
      BlameInv, CrashOnlyAfter, Blamed
<1>13. CASE SendPacket
  BY <1>13 DEF SendPacket, userVars, ioVars, chainVars, wireVars, brokerVars, TypeOK, ThreadInv,
      BlameInv, CrashOnlyAfter, Blamed
<1>14. CASE LockAndShut
  BY <1>14 DEF LockAndShut, Shut, HangUp, FreshEnd, userVars, ioVars, chainVars, wireVars, brokerVars, TypeOK,
      ThreadInv, BlameInv, CrashOnlyAfter, Blamed
<1>15. CASE Joined
  BY <1>15 DEF Joined, userVars, ioVars, chainVars, wireVars, brokerVars, TypeOK, ThreadInv,
      BlameInv, CrashOnlyAfter, Blamed
<1>16. CASE PollReturns
  BY <1>16 DEF PollReturns, userVars, ioVars, chainVars, wireVars, brokerVars, TypeOK, ThreadInv,
      BlameInv, CrashOnlyAfter, Blamed
<1>17. CASE IoStarts
  BY <1>17 DEF IoStarts, ReadNext, userVars, ioVars, chainVars, wireVars, brokerVars, TypeOK,
      ThreadInv, BlameInv, CrashOnlyAfter, Blamed
<1>18. CASE IoEnds
  BY <1>18 DEF IoEnds, userVars, ioVars, chainVars, wireVars, brokerVars, TypeOK, ThreadInv,
      BlameInv, CrashOnlyAfter, Blamed
<1>19. ASSUME NEW r \in {"io", "user"}, HandleConnack(r) PROVE BlameInv'
  BY <1>19 DEF HandleConnack, CanReceive, CanRun, userVars, ioVars, chainVars, wireVars, brokerVars,
      TypeOK, ThreadInv, BlameInv, CrashOnlyAfter, Blamed
<1>20. ASSUME NEW r \in {"io", "user"}, HandleAck(r) PROVE BlameInv'
  BY <1>20 DEF HandleAck, CanReceive, CanRun, userVars, ioVars, chainVars, wireVars, brokerVars,
      TypeOK, ThreadInv, BlameInv, CrashOnlyAfter, Blamed
<1>21. ASSUME NEW r \in {"io", "user"}, HandlePublish(r) PROVE BlameInv'
  BY <1>21 DEF HandlePublish, CanReceive, CanRun, userVars, ioVars, chainVars, wireVars, brokerVars,
      TypeOK, ThreadInv, BlameInv, CrashOnlyAfter, Blamed
<1>22. ASSUME NEW r \in {"io", "user"}, ReadFails(r) PROVE BlameInv'
  BY <1>22 DEF ReadFails, CanRun, userVars, ioVars, chainVars, wireVars, brokerVars, TypeOK,
      ThreadInv, BlameInv, CrashOnlyAfter, Blamed
<1>23. CASE LookUp
  BY <1>23 DEF LookUp, ReadNext, userVars, ioVars, chainVars, wireVars, brokerVars, TypeOK,
      ThreadInv, BlameInv, CrashOnlyAfter, Blamed
<1>24. CASE Callback
  BY <1>24 DEF Callback, ReadNext, userVars, ioVars, chainVars, wireVars, brokerVars, TypeOK,
      ThreadInv, BlameInv, CrashOnlyAfter, Blamed
<1>25. CASE IoDisconnects
  BY <1>25 DEF IoDisconnects, Shut, HangUp, FreshEnd, userVars, ioVars, chainVars, wireVars, brokerVars,
      TypeOK, ThreadInv, BlameInv, CrashOnlyAfter, Blamed
<1>26. CASE BrokerStep
  BY <1>26, BrokerSteps DEF userVars, ioVars, chainVars, BlameInv, CrashOnlyAfter, Blamed
<1>27. CASE ConnectionLost
  BY <1>27 DEF ConnectionLost, FreshEnd, userVars, ioVars, chainVars, wireVars, brokerVars, TypeOK, ThreadInv,
      BlameInv, CrashOnlyAfter, Blamed
<1>28. CASE UNCHANGED vars
  BY <1>28 DEF vars, userVars, ioVars, chainVars, wireVars, brokerVars, TypeOK, ThreadInv, BlameInv,
      CrashOnlyAfter, Blamed
<1> QED BY <1>1, <1>2, <1>3, <1>4, <1>5, <1>6, <1>7, <1>8, <1>9, <1>10, <1>11, <1>12,
    <1>13, <1>14, <1>15, <1>16, <1>17, <1>18, <1>19, <1>20, <1>21, <1>22, <1>23, <1>24,
    <1>25, <1>26, <1>27, <1>28 DEF Next, NewCall, InCall, HandlerStep

\* Callbacks after unsubscribe().
LEMMA LateKept ==
  ASSUME TypeOK, ThreadInv, LateInv, [Next]_vars
  PROVE  LateInv'
<1>1. CASE Connect
  BY <1>1 DEF Connect, Call, userVars, ioVars, chainVars, wireVars, brokerVars, TypeOK, ThreadInv,
      LateInv, OneLateCallback
<1>2. CASE Disconnect
  BY <1>2 DEF Disconnect, Call, userVars, ioVars, chainVars, wireVars, brokerVars, TypeOK,
      ThreadInv, LateInv, OneLateCallback
<1>3. CASE Destroy
  BY <1>3 DEF Destroy, Call, Terminate, HangUp, FreshEnd, userVars, ioVars, chainVars, wireVars, brokerVars,
      TypeOK, ThreadInv, LateInv, OneLateCallback
<1>4. CASE Poll
  BY <1>4 DEF Poll, Call, userVars, ioVars, chainVars, wireVars, brokerVars, TypeOK, ThreadInv,
      LateInv, OneLateCallback
<1>5. ASSUME NEW t \in Topics, Subscribe(t) PROVE LateInv'
  BY <1>5 DEF Subscribe, Call, P, userVars, ioVars, chainVars, wireVars, brokerVars, TypeOK,
      ThreadInv, LateInv, OneLateCallback
<1>6. ASSUME NEW t \in Topics, Unsubscribe(t) PROVE LateInv'
  BY <1>6 DEF Unsubscribe, Call, P, userVars, ioVars, chainVars, wireVars, brokerVars, TypeOK,
      ThreadInv, LateInv, OneLateCallback
<1>7. ASSUME NEW t \in Topics, Publish(t) PROVE LateInv'
  BY <1>7 DEF Publish, Call, P, userVars, ioVars, chainVars, wireVars, brokerVars, TypeOK,
      ThreadInv, LateInv, OneLateCallback
<1>8. CASE OpenFails
  BY <1>8 DEF OpenFails, HangUp, FreshEnd, userVars, ioVars, chainVars, wireVars, brokerVars, TypeOK,
      ThreadInv, LateInv, OneLateCallback
<1>9. CASE Open
  BY <1>9 DEF Open, Terminate, HangUp, FreshEnd, P, userVars, ioVars, chainVars, wireVars, brokerVars, TypeOK,
      ThreadInv, LateInv, OneLateCallback
<1>10. CASE ConnectReturns
  BY <1>10 DEF ConnectReturns, userVars, ioVars, chainVars, wireVars, brokerVars, TypeOK, ThreadInv,
      LateInv, OneLateCallback
<1>11. CASE StoreHandler
  BY <1>11 DEF StoreHandler, userVars, ioVars, chainVars, wireVars, brokerVars, TypeOK, ThreadInv,
      LateInv, OneLateCallback
<1>12. CASE EraseHandler
  BY <1>12 DEF EraseHandler, userVars, ioVars, chainVars, wireVars, brokerVars, TypeOK, ThreadInv,
      LateInv, OneLateCallback
<1>13. CASE SendPacket
  BY <1>13 DEF SendPacket, userVars, ioVars, chainVars, wireVars, brokerVars, TypeOK, ThreadInv,
      LateInv, OneLateCallback
<1>14. CASE LockAndShut
  BY <1>14 DEF LockAndShut, Shut, HangUp, FreshEnd, userVars, ioVars, chainVars, wireVars, brokerVars, TypeOK,
      ThreadInv, LateInv, OneLateCallback
<1>15. CASE Joined
  BY <1>15 DEF Joined, userVars, ioVars, chainVars, wireVars, brokerVars, TypeOK, ThreadInv,
      LateInv, OneLateCallback
<1>16. CASE PollReturns
  BY <1>16 DEF PollReturns, userVars, ioVars, chainVars, wireVars, brokerVars, TypeOK, ThreadInv,
      LateInv, OneLateCallback
<1>17. CASE IoStarts
  BY <1>17 DEF IoStarts, ReadNext, userVars, ioVars, chainVars, wireVars, brokerVars, TypeOK,
      ThreadInv, LateInv, OneLateCallback
<1>18. CASE IoEnds
  BY <1>18 DEF IoEnds, userVars, ioVars, chainVars, wireVars, brokerVars, TypeOK, ThreadInv,
      LateInv, OneLateCallback
<1>19. ASSUME NEW r \in {"io", "user"}, HandleConnack(r) PROVE LateInv'
  BY <1>19 DEF HandleConnack, CanReceive, CanRun, userVars, ioVars, chainVars, wireVars, brokerVars,
      TypeOK, ThreadInv, LateInv, OneLateCallback
<1>20. ASSUME NEW r \in {"io", "user"}, HandleAck(r) PROVE LateInv'
  BY <1>20 DEF HandleAck, CanReceive, CanRun, userVars, ioVars, chainVars, wireVars, brokerVars,
      TypeOK, ThreadInv, LateInv, OneLateCallback
<1>21. ASSUME NEW r \in {"io", "user"}, HandlePublish(r) PROVE LateInv'
  BY <1>21 DEF HandlePublish, CanReceive, CanRun, userVars, ioVars, chainVars, wireVars, brokerVars,
      TypeOK, ThreadInv, LateInv, OneLateCallback
<1>22. ASSUME NEW r \in {"io", "user"}, ReadFails(r) PROVE LateInv'
  BY <1>22 DEF ReadFails, CanRun, userVars, ioVars, chainVars, wireVars, brokerVars, TypeOK,
      ThreadInv, LateInv, OneLateCallback
<1>23. CASE LookUp
  BY <1>23 DEF LookUp, ReadNext, userVars, ioVars, chainVars, wireVars, brokerVars, TypeOK,
      ThreadInv, LateInv, OneLateCallback
<1>24. CASE Callback
  BY <1>24 DEF Callback, ReadNext, userVars, ioVars, chainVars, wireVars, brokerVars, TypeOK,
      ThreadInv, LateInv, OneLateCallback
<1>25. CASE IoDisconnects
  BY <1>25 DEF IoDisconnects, Shut, HangUp, FreshEnd, userVars, ioVars, chainVars, wireVars, brokerVars,
      TypeOK, ThreadInv, LateInv, OneLateCallback
<1>26. CASE BrokerStep
  BY <1>26, BrokerSteps DEF userVars, ioVars, chainVars, LateInv, OneLateCallback
<1>27. CASE ConnectionLost
  BY <1>27 DEF ConnectionLost, FreshEnd, userVars, ioVars, chainVars, wireVars, brokerVars, TypeOK, ThreadInv,
      LateInv, OneLateCallback
<1>28. CASE UNCHANGED vars
  BY <1>28 DEF vars, userVars, ioVars, chainVars, wireVars, brokerVars, TypeOK, ThreadInv, LateInv,
      OneLateCallback
<1> QED BY <1>1, <1>2, <1>3, <1>4, <1>5, <1>6, <1>7, <1>8, <1>9, <1>10, <1>11, <1>12,
    <1>13, <1>14, <1>15, <1>16, <1>17, <1>18, <1>19, <1>20, <1>21, <1>22, <1>23, <1>24,
    <1>25, <1>26, <1>27, <1>28 DEF Next, NewCall, InCall, HandlerStep


\* Handlers and subscriptions.
LEMMA HandlersKept ==
  ASSUME TypeOK, ThreadInv, ServiceInv, HandlersMatch, [Next]_vars
  PROVE  HandlersMatch'
<1>1. CASE Connect
  BY <1>1 DEF Connect, Call, userVars, ioVars, chainVars, wireVars, brokerVars, ThreadInv,
      HandlersMatch
<1>2. CASE Disconnect
  BY <1>2 DEF Disconnect, Call, userVars, ioVars, chainVars, wireVars, brokerVars, ThreadInv,
      HandlersMatch
<1>3. CASE Destroy
  BY <1>3 DEF Destroy, Call, Terminate, HangUp, FreshEnd, userVars, ioVars, chainVars, wireVars, brokerVars,
      ThreadInv, HandlersMatch
<1>4. CASE Poll
  BY <1>4 DEF Poll, Call, userVars, ioVars, chainVars, wireVars, brokerVars, ThreadInv,
      HandlersMatch
<1>5. ASSUME NEW t \in Topics, Subscribe(t) PROVE HandlersMatch'
  BY <1>5 DEF Subscribe, Call, P, userVars, ioVars, chainVars, wireVars, brokerVars, ThreadInv,
      HandlersMatch
<1>6. ASSUME NEW t \in Topics, Unsubscribe(t) PROVE HandlersMatch'
  BY <1>6 DEF Unsubscribe, Call, P, userVars, ioVars, chainVars, wireVars, brokerVars, ThreadInv,
      HandlersMatch
<1>7. ASSUME NEW t \in Topics, Publish(t) PROVE HandlersMatch'
  BY <1>7 DEF Publish, Call, P, End!Apply, userVars, ioVars, chainVars, wireVars, brokerVars,
      HandlersMatch
<1>8. CASE OpenFails
  BY <1>8 DEF OpenFails, HangUp, FreshEnd, userVars, ioVars, chainVars, wireVars, brokerVars, ThreadInv,
      HandlersMatch
<1>9. CASE Open
  <2>1. CASE user' = "crashed"
    BY <1>9, <2>1 DEF Open, Terminate, HangUp, FreshEnd, HandlersMatch
  <2>2. CASE user' # "crashed"
    <3>1. /\ io = "none" /\ user = "opening" /\ user' = "waiting" /\ subscribed' = {}
          /\ toBroker' = <<P("CONN", NoTopic)>> /\ handlers' = handlers
      BY <1>9, <2>2 DEF Open, Terminate, FreshEnd
    <3>2. handlers' = {}
      BY <3>1 DEF ThreadInv
    <3>3. DOMAIN toBroker' = {1} /\ toBroker'[1] = P("CONN", NoTopic)
      BY <3>1
    <3>4. \A t \in Topics : P("CONN", NoTopic) # P("SUB", t) /\ P("CONN", NoTopic) # P("UNSUB", t)
      BY DEF P
    <3>5. After(subscribed', toBroker') = {}
      BY <3>1, <3>3, <3>4 DEF After
    <3> QED BY <3>1, <3>2, <3>5 DEF HandlersMatch, After
  <2> QED BY <2>1, <2>2
<1>10. CASE ConnectReturns
  BY <1>10 DEF ConnectReturns, userVars, ioVars, chainVars, wireVars, brokerVars, ThreadInv,
      HandlersMatch
<1>11. CASE StoreHandler
  BY <1>11 DEF StoreHandler, End!Apply, wireVars, brokerVars, ThreadInv, HandlersMatch, After
<1>12. CASE EraseHandler
  BY <1>12 DEF EraseHandler, End!Apply, wireVars, brokerVars, ThreadInv, HandlersMatch, After
<1>13. CASE SendPacket
  <2>1. /\ user = "sending" /\ user' = "idle" /\ up' = up /\ handlers' = handlers
        /\ subscribed' = subscribed /\ (up => toBroker' = Append(toBroker, request))
    BY <1>13 DEF SendPacket, ioVars, brokerVars
  <2>2. After(subscribed, Append(toBroker, request)) = End!Apply(After(subscribed, toBroker), request)
    BY AfterAppend DEF TypeOK, EndTypeOK
  <2> QED BY <2>1, <2>2 DEF HandlersMatch, After
<1>14. CASE LockAndShut
  BY <1>14 DEF LockAndShut, Shut, HangUp, FreshEnd, userVars, ioVars, chainVars, wireVars, brokerVars,
      ThreadInv, HandlersMatch
<1>15. CASE Joined
  BY <1>15 DEF Joined, wireVars, brokerVars, ThreadInv, HandlersMatch
<1>16. CASE PollReturns
  BY <1>16 DEF PollReturns, userVars, ioVars, chainVars, wireVars, brokerVars, ThreadInv,
      HandlersMatch
<1>17. CASE IoStarts
  BY <1>17 DEF IoStarts, ReadNext, userVars, ioVars, chainVars, wireVars, brokerVars, ThreadInv,
      HandlersMatch
<1>18. CASE IoEnds
  BY <1>18 DEF IoEnds, userVars, ioVars, chainVars, wireVars, brokerVars, ThreadInv, HandlersMatch
<1>19. ASSUME NEW r \in {"io", "user"}, HandleConnack(r) PROVE HandlersMatch'
  BY <1>19 DEF HandleConnack, CanReceive, CanRun, userVars, ioVars, chainVars, wireVars, brokerVars,
      ThreadInv, HandlersMatch
<1>20. ASSUME NEW r \in {"io", "user"}, HandleAck(r) PROVE HandlersMatch'
  BY <1>20 DEF HandleAck, CanReceive, CanRun, userVars, ioVars, chainVars, wireVars, brokerVars,
      ThreadInv, HandlersMatch
<1>21. ASSUME NEW r \in {"io", "user"}, HandlePublish(r) PROVE HandlersMatch'
  BY <1>21 DEF HandlePublish, CanReceive, CanRun, userVars, ioVars, chainVars, wireVars, brokerVars,
      ThreadInv, HandlersMatch
<1>22. ASSUME NEW r \in {"io", "user"}, ReadFails(r) PROVE HandlersMatch'
  BY <1>22 DEF ReadFails, CanRun, userVars, ioVars, chainVars, wireVars, brokerVars, ThreadInv,
      HandlersMatch
<1>23. CASE LookUp
  BY <1>23 DEF LookUp, ReadNext, userVars, ioVars, chainVars, wireVars, brokerVars, ThreadInv,
      HandlersMatch
<1>24. CASE Callback
  BY <1>24 DEF Callback, ReadNext, userVars, ioVars, chainVars, wireVars, brokerVars, ThreadInv,
      HandlersMatch
<1>25. CASE IoDisconnects
  BY <1>25 DEF IoDisconnects, Shut, HangUp, FreshEnd, userVars, ioVars, chainVars, wireVars, brokerVars,
      ThreadInv, HandlersMatch
<1>26. CASE BrokerStep
  <2>1. UNCHANGED <<user, up, handlers, request>>
    BY <1>26, BrokerSteps DEF userVars, ioVars
  <2>2. After(subscribed, toBroker)' = After(subscribed, toBroker)
    <3>1. ASSUME toBroker # <<>>, toBroker' = Tail(toBroker), End!Take(Head(toBroker))
          PROVE  After(subscribed, toBroker)' = After(subscribed, toBroker)
      <4>1. subscribed' = End!Apply(subscribed, Head(toBroker))
        BY <3>1 DEF End!Take
      <4>2. After(subscribed, toBroker)
              = After(End!Apply(subscribed, Head(toBroker)), Tail(toBroker))
        BY <3>1, AfterHead DEF TypeOK, EndTypeOK
      <4> QED BY <3>1, <4>1, <4>2 DEF After
    <3>2. ASSUME UNCHANGED toBroker,
                 \/ End!DeliverOwn \/ End!Answer \/ End!TakeOver \/ End!Registered
                 \/ \E t \in Topics : End!Accept(t) \/ End!Deliver(t)
          PROVE  UNCHANGED <<subscribed, toBroker>>
      BY <3>2 DEF ServiceInv, End!DeliverOwn, End!Answer, End!TakeOver, End!Registered,
          End!Accept, End!Deliver
    <3>3. ASSUME toBroker # <<>>, toBroker' = Tail(toBroker), Head(toBroker).type = "PUB",
                 UNCHANGED brokerVars
          PROVE  After(subscribed, toBroker)' = After(subscribed, toBroker)
      <4>1. After(subscribed, toBroker) = After(subscribed, Tail(toBroker))
        BY <3>3, AfterHead DEF End!Apply, TypeOK, EndTypeOK
      <4> QED BY <3>3, <4>1 DEF After, brokerVars
    <3> QED BY <1>26, <3>1, <3>2, <3>3, BrokerSteps DEF After
  <2>3. End!Apply(After(subscribed, toBroker), request)'
          = End!Apply(After(subscribed, toBroker), request)
    BY <2>1, <2>2 DEF End!Apply
  <2> QED BY <2>1, <2>2, <2>3 DEF HandlersMatch
<1>27. CASE ConnectionLost
  BY <1>27 DEF ConnectionLost, FreshEnd, userVars, ioVars, chainVars, wireVars, brokerVars, ThreadInv,
      HandlersMatch
<1>28. CASE UNCHANGED vars
  BY <1>28 DEF vars, userVars, ioVars, chainVars, wireVars, brokerVars, ThreadInv, HandlersMatch
<1> QED BY <1>1, <1>2, <1>3, <1>4, <1>5, <1>6, <1>7, <1>8, <1>9, <1>10, <1>11, <1>12,
    <1>13, <1>14, <1>15, <1>16, <1>17, <1>18, <1>19, <1>20, <1>21, <1>22, <1>23, <1>24,
    <1>25, <1>26, <1>27, <1>28 DEF Next, NewCall, InCall, HandlerStep

-----------------------------------------------------------------------------
(* The theorems.                                                           *)

\* Every reachable state satisfies ClientInv, for all values of the constants.
THEOREM ClientInvariance == Spec => []ClientInv
<1>1. Init => ClientInv
  <2> SUFFICES ASSUME Init PROVE ClientInv
    OBVIOUS
  <2>1. TypeOK
    <3>1. /\ user \in UserSteps /\ request \in End!Request /\ leaving \in BOOLEAN
          /\ reading \in ReadSteps /\ toBroker \in Seq(End!Request) /\ toClient \in Seq(Packet)
      BY Packets DEF Init, UserSteps, ReadSteps
    <3>2. calls \in 0 .. MaxCalls /\ published \in 0 .. MaxPublished /\ late \in [Topics -> Nat]
      BY ClientAssumption DEF Init
    <3> QED BY <3>1, <3>2 DEF Init, TypeOK, EndTypeOK
  <2>2. ThreadInv /\ BlameInv /\ HandlersMatch
    BY DEF Init, ThreadInv, SilentOnceStopped, BlameInv, CrashOnlyAfter, HandlersMatch
  <2>3. LateInv
    BY DEF Init, LateInv, OneLateCallback
  <2>4. ServiceInv
    BY DEF Init, ServiceInv
  <2> QED BY <2>1, <2>2, <2>3, <2>4 DEF ClientInv
<1>2. ClientInv /\ [Next]_vars => ClientInv'
  BY TypesKept, ThreadsKept, BlameKept, LateKept, ServiceKept, HandlersKept DEF ClientInv
<1> QED BY <1>1, <1>2, PTL DEF Spec

\* Every variable of Client keeps its type.
THEOREM ClientTypeCorrect == Spec => []TypeOK
<1>1. ClientInv => TypeOK
  BY DEF ClientInv
<1> QED BY <1>1, ClientInvariance, PTL

\* The process is terminated over a joinable thread only after a connect() that
\* returned false and left a thread behind, or after the loss of a connection.
THEOREM TerminateHasCause == Spec => []CrashOnlyAfter
<1>1. ClientInv => CrashOnlyAfter
  BY DEF ClientInv, BlameInv
<1> QED BY <1>1, ClientInvariance, PTL

\* While the connection is up, the client's handlers are the subscriptions that the
\* broker has or is about to have.
THEOREM HandlersAreSubscriptions == Spec => []HandlersMatch
<1>1. ClientInv => HandlersMatch
  BY DEF ClientInv
<1> QED BY <1>1, ClientInvariance, PTL

\* After unsubscribe() erased a handler, at most one more callback is made.
THEOREM AtMostOneLateCallback == Spec => []OneLateCallback
<1>1. ClientInv => OneLateCallback
  BY DEF ClientInv, LateInv
<1> QED BY <1>1, ClientInvariance, PTL

\* Once io_context_ is stopped and the program is out of disconnect(), no handler runs.
THEOREM StoppedIsSilent == Spec => []SilentOnceStopped
<1>1. ClientInv => SilentOnceStopped
  BY DEF ClientInv, ThreadInv
<1> QED BY <1>1, ClientInvariance, PTL
=============================================================================
