---------------------------- MODULE BridgeProofs ----------------------------
(***************************************************************************)
(* The bridge is one of the programs that Client allows, so what is proved *)
(* of Client holds in the bridge; and which lines it forwards.             *)
(***************************************************************************)
EXTENDS Bridge, ClientProofs, WellFoundedInduction

\* What main() knows of its lines, whatever the library does.
MainInv ==
  /\ at \in BridgeSteps
  /\ device \in 0 .. Len(Devices)
  /\ left \in Seq(Topics \cup {Bad, Cut})
  /\ lines \in Seq(Topics)
  /\ at = "publishing" => lines # <<>>

LEMMA MainInvariance == BridgeSpec => []MainInv
<1>1. BridgeInit => MainInv
  <2>1. Len(Devices) \in Nat
    BY BridgeAssumption, LenProperties
  <2> QED BY <2>1 DEF BridgeInit, MainInv, BridgeSteps
<1>2. MainInv /\ [BridgeNext]_allVars => MainInv'
  <2> SUFFICES ASSUME MainInv, [BridgeNext]_allVars PROVE MainInv'
    OBVIOUS
  <2>1. CASE CallConnect
    BY <2>1 DEF CallConnect, MainInv, BridgeSteps
  <2>2. CASE LeaveConnect
    BY <2>2 DEF LeaveConnect, MainInv, BridgeSteps
  <2>3. CASE Listen
    BY <2>3 DEF Listen, MainInv, BridgeSteps
  <2>4. CASE AcceptDevice
    <3>1. CASE device < Len(Devices) /\ device' = device + 1 /\ left' = Devices[device + 1] /\ at' = "reading"
      <4>1. Len(Devices) \in Nat
        BY BridgeAssumption, LenProperties
      <4>2. device + 1 \in 1 .. Len(Devices)
        BY <3>1, <4>1 DEF MainInv
      <4>3. left' \in Seq(Topics \cup {Bad, Cut})
        BY <3>1, <4>2, BridgeAssumption, ElementOfSeq
      <4> QED BY <2>4, <3>1, <4>1, <4>2, <4>3 DEF AcceptDevice, MainInv, BridgeSteps
    <3>2. CASE at' = "leaving" /\ UNCHANGED <<device, left>>
      BY <2>4, <3>2 DEF AcceptDevice, MainInv, BridgeSteps
    <3> QED BY <2>4, <3>1, <3>2 DEF AcceptDevice
  <2>5. CASE ReadLine
    <3>1. left' \in Seq(Topics \cup {Bad, Cut}) /\ Head(left) \in Topics \cup {Bad, Cut}
      BY <2>5, HeadTailProperties DEF ReadLine, MainInv
    <3>2. CASE Head(left) = Bad /\ UNCHANGED <<at, lines>>
      BY <2>5, <3>1, <3>2 DEF ReadLine, MainInv
    <3>3. CASE Head(left) # Bad /\ at' = "publishing" /\ lines' = Append(lines, Head(left))
      <4>1. Head(left) \in Topics
        BY <2>5, <3>1, <3>3 DEF ReadLine
      <4>2. lines' \in Seq(Topics) /\ lines' # <<>>
        <5>1. lines' \in Seq(Topics) /\ Len(lines') = Len(lines) + 1 /\ Len(lines) \in Nat
          BY <3>3, <4>1, AppendProperties, LenProperties DEF MainInv
        <5> QED BY <5>1, EmptySeq
      <4> QED BY <2>5, <3>1, <3>3, <4>2 DEF ReadLine, MainInv, BridgeSteps
    <3> QED BY <2>5, <3>2, <3>3 DEF ReadLine
  <2>6. CASE DeviceEnds
    BY <2>6 DEF DeviceEnds, MainInv, BridgeSteps
  <2>7. CASE CallPublish
    BY <2>7 DEF CallPublish, MainInv, BridgeSteps
  <2>8. CASE PublishReturns
    BY <2>8 DEF PublishReturns, MainInv, BridgeSteps
  <2>9. CASE Leave \/ IoThread \/ BrokerAnswers \/ Lost \/ UNCHANGED allVars
    BY <2>9 DEF Leave, IoThread, BrokerAnswers, Lost, bridgeVars, allVars, MainInv
  <2>10. CASE BrokerGets
    BY <2>10 DEF BrokerGets, BrokerConnects, BrokerPublishes, BrokerLosesStep, bridgeVars, MainInv
  <2> QED BY <2>1, <2>2, <2>3, <2>4, <2>5, <2>6, <2>7, <2>8, <2>9, <2>10
        DEF BridgeNext, Main
<1> QED BY <1>1, <1>2, PTL DEF BridgeSpec

\* Every step of the bridge is a step of Client or none: main() calls the library one
\* call at a time, and never after the destructor.
THEOREM BridgeUsesClient == BridgeSpec => Spec
<1>1. BridgeInit => Init
  BY DEF BridgeInit
<1>2. MainInv /\ [BridgeNext]_allVars => [Next]_vars
  <2> SUFFICES ASSUME MainInv, BridgeNext PROVE Next \/ UNCHANGED vars
    BY DEF allVars
  <2>1. CASE Main
    <3>1. CallConnect => NewCall
      BY DEF CallConnect, NewCall
    <3>2. LeaveConnect => InCall
      BY DEF LeaveConnect, InCall
    <3>3. Listen \/ AcceptDevice \/ ReadLine \/ DeviceEnds => UNCHANGED vars
      BY DEF Listen, AcceptDevice, ReadLine, DeviceEnds
    <3>4. ASSUME CallPublish PROVE NewCall \/ UNCHANGED vars
      <4>1. CASE connected /\ Publish(Last(lines))
        <5>1. Last(lines) \in Topics
          <6>1. lines \in Seq(Topics) /\ lines # <<>>
            BY <3>4 DEF CallPublish, MainInv
          <6>2. Len(lines) \in 1 .. Len(lines)
            BY <6>1, EmptySeq, LenProperties
          <6> QED BY <6>1, <6>2, ElementOfSeq DEF Last
        <5> QED BY <4>1, <5>1 DEF NewCall
      <4> QED BY <3>4, <4>1 DEF CallPublish
    <3>5. PublishReturns => InCall
      BY DEF PublishReturns, InCall
    <3>6. Leave => NewCall \/ InCall
      BY DEF Leave, NewCall, InCall
    <3> QED BY <2>1, <3>1, <3>2, <3>3, <3>4, <3>5, <3>6 DEF Main, Next
  <2>2. CASE IoThread
    BY <2>2 DEF IoThread, Next, HandlerStep
  <2>3. CASE BrokerGets \/ BrokerAnswers
    BY <2>3 DEF BrokerGets, BrokerConnects, BrokerPublishes, BrokerLosesStep, BrokerAnswers,
        BrokerStep, Next
  <2>4. CASE Lost
    BY <2>4 DEF Lost, Next
  <2> QED BY <2>1, <2>2, <2>3, <2>4 DEF BridgeNext
<1> QED BY <1>1, <1>2, MainInvariance, PTL DEF BridgeSpec, Spec

ForwardedOK ==
  /\ inStep \in BOOLEAN
  /\ reached \in Seq(Topics) /\ forwarded \in Seq(Topics \cup {Misread, Dropped})

\* What the broker's reader does to the histories.
LEMMA GetsLine ==
  ASSUME TypeOK, BrokerPublishes
  PROVE  \E x \in Topics :
           /\ Head(toBroker) \in End!Request /\ Head(toBroker).type = "PUB"
           /\ Head(toBroker).topic = x /\ Made(x) \in Topics \cup {Misread, Dropped}
           /\ reached' = Append(reached, x) /\ forwarded' = Append(forwarded, Made(x))
<1>1. Head(toBroker) \in End!Request
  BY HeadTailProperties DEF BrokerPublishes, TypeOK
<1>2. Head(toBroker).topic \in Topics
  BY <1>1 DEF BrokerPublishes, End!Request
<1>3. Made(Head(toBroker).topic) \in Topics \cup {Misread, Dropped}
  BY <1>2 DEF Made
<1> QED BY <1>1, <1>2, <1>3 DEF BrokerPublishes

LEMMA HistoriesKept ==
  ASSUME [BridgeNext]_allVars, ~BrokerPublishes, ~BrokerLosesStep
  PROVE  UNCHANGED historyVars
BY DEF BridgeNext, Main, CallConnect, LeaveConnect, Listen, AcceptDevice, ReadLine, DeviceEnds,
  CallPublish, PublishReturns, Leave, IoThread, BrokerGets, BrokerConnects, BrokerAnswers, Lost,
  bridgeVars, historyVars, allVars

\* Every variable of the bridge and of the library in it keeps its type.
THEOREM BridgeTypeCorrect == BridgeSpec => []BridgeTypeOK
<1>1. BridgeInit => ForwardedOK
  BY DEF BridgeInit, ForwardedOK
<1>2. TypeOK /\ ForwardedOK /\ [BridgeNext]_allVars => ForwardedOK'
  <2> SUFFICES ASSUME TypeOK, ForwardedOK, [BridgeNext]_allVars
               PROVE  ForwardedOK'
    OBVIOUS
  <2>1. CASE BrokerPublishes
    <3>1. PICK x \in Topics :
            /\ Made(x) \in Topics \cup {Misread, Dropped}
            /\ reached' = Append(reached, x) /\ forwarded' = Append(forwarded, Made(x))
      BY <2>1, GetsLine
    <3>2. reached' \in Seq(Topics) /\ forwarded' \in Seq(Topics \cup {Misread, Dropped})
      BY <3>1, AppendProperties DEF ForwardedOK
    <3> QED BY <2>1, <3>2 DEF BrokerPublishes, ForwardedOK
  <2>2. CASE BrokerLosesStep
    BY <2>2 DEF BrokerLosesStep, ForwardedOK
  <2>3. CASE UNCHANGED historyVars
    BY <2>3 DEF historyVars, ForwardedOK
  <2> QED BY <2>1, <2>2, <2>3, HistoriesKept
<1>3. MainInv /\ TypeOK /\ ForwardedOK => BridgeTypeOK
  BY DEF MainInv, ForwardedOK, BridgeTypeOK
<1>4. BridgeSpec => []TypeOK
  BY BridgeUsesClient, ClientTypeCorrect, PTL
<1> QED BY <1>1, <1>2, <1>3, <1>4, MainInvariance, PTL DEF BridgeSpec

\* The bridge's process is terminated over a joinable thread only after connect()
\* returned false, leaving a thread behind, or after the connection was lost.
COROLLARY BridgeTerminateHasCause == BridgeSpec => []CrashOnlyAfter
BY BridgeUsesClient, TerminateHasCause, PTL

-----------------------------------------------------------------------------
(* The topics of the messages among some packets.  PubTopics is recursive;  *)
(* a set of numbers that is closed under successors stands for the          *)
(* induction.                                                               *)

LEMMA NatClosed ==
  ASSUME NEW S, 0 \in S, \A n \in Nat : n \in S => n + 1 \in S
  PROVE  \A n \in Nat : n \in S
<1> SUFFICES ASSUME Nat \ S # {} PROVE FALSE
  OBVIOUS
<1>1. PICK x \in Nat \ S : \A y \in Nat \ S : <<y, x>> \notin OpToRel(<, Nat)
  <2> HIDE DEF OpToRel
  <2> QED
    BY NatLessThanWellFounded, WFMin
<1>2. x # 0 /\ x - 1 \in Nat /\ x - 1 < x
  OBVIOUS
<1>3. <<x - 1, x>> \in OpToRel(<, Nat)
  <2>1. <<x - 1, x>> \in Nat \X Nat /\ <<x - 1, x>>[1] < <<x - 1, x>>[2]
    BY <1>2
  <2> QED
    BY <2>1 DEF OpToRel
<1>4. x - 1 \in S
  BY <1>1, <1>2, <1>3
<1> QED
  BY <1>2, <1>4

\* g collects the topics of the messages among q, one packet after the other.
Collects(g, q) ==
  /\ g[0] = <<>>
  /\ \A n \in 1 .. Len(q) :
       g[n] = IF q[n].type = "PUB" THEN Append(g[n - 1], q[n].topic) ELSE g[n - 1]

LEMMA CollectsExists ==
  ASSUME NEW q \in Seq(End!Request)
  PROVE  \E g \in [0 .. Len(q) -> Seq(Topics)] : Collects(g, q)
<1> DEFINE Item(g, n) == IF q[n].type = "PUB" THEN Append(g[n - 1], q[n].topic) ELSE g[n - 1]
           Partial(n) == {g \in [0 .. n -> Seq(Topics)] :
                            g[0] = <<>> /\ \A i \in 1 .. n : g[i] = Item(g, i)}
           S == {n \in Nat : n <= Len(q) => Partial(n) # {}}
<1>0. Len(q) \in Nat /\ \A n \in 1 .. Len(q) : q[n] \in End!Request
  BY LenProperties, ElementOfSeq
<1>1. 0 \in S
  <2>1. [i \in 0 .. 0 |-> <<>>] \in Partial(0)
    BY EmptySeq
  <2> QED BY <2>1
<1>2. ASSUME NEW n \in Nat, n \in S PROVE n + 1 \in S
  <2> SUFFICES ASSUME n + 1 <= Len(q) PROVE Partial(n + 1) # {}
    <3> HIDE DEF Partial
    <3> QED OBVIOUS
  <2>0. Partial(n) # {}
    <3>1. n <= Len(q)
      BY <1>0
    <3> HIDE DEF Partial
    <3> QED BY <1>2, <3>1
  <2>1. PICK g \in [0 .. n -> Seq(Topics)] : g[0] = <<>> /\ \A i \in 1 .. n : g[i] = Item(g, i)
    BY <2>0
  <2> DEFINE w == IF q[n + 1].type = "PUB" THEN Append(g[n], q[n + 1].topic) ELSE g[n]
             h == [i \in 0 .. n + 1 |-> IF i = n + 1 THEN w ELSE g[i]]
  <2>2. w \in Seq(Topics)
    <3>1. q[n + 1] \in End!Request /\ g[n] \in Seq(Topics)
      BY <1>0
    <3>2. q[n + 1].type = "PUB" => q[n + 1].topic \in Topics
      BY <3>1 DEF End!Request
    <3> QED BY <3>1, <3>2, AppendProperties
  <2> HIDE DEF w
  <2>3. h \in [0 .. n + 1 -> Seq(Topics)] /\ h[0] = <<>>
    BY <2>1, <2>2
  <2>4. ASSUME NEW i \in 1 .. n + 1 PROVE h[i] = Item(h, i)
    <3>1. CASE i = n + 1
      BY <3>1 DEF w
    <3>2. CASE i \in 1 .. n
      <4>1. h[i] = g[i] /\ h[i - 1] = g[i - 1]
        BY <3>2
      <4> QED BY <2>1, <3>2, <4>1
    <3> QED BY <3>1, <3>2
  <2>5. h \in Partial(n + 1)
    BY <2>3, <2>4
  <2> QED BY <2>5
<1>3. Len(q) \in S
  <2> HIDE DEF S
  <2> QED BY <1>0, <1>1, <1>2, NatClosed
<1> QED BY <1>0, <1>3 DEF Collects

LEMMA CollectsUnique ==
  ASSUME NEW q \in Seq(End!Request), NEW g, NEW h, Collects(g, q), Collects(h, q)
  PROVE  \A n \in 0 .. Len(q) : g[n] = h[n]
<1> DEFINE S == {n \in Nat : n <= Len(q) => g[n] = h[n]}
<1>0. Len(q) \in Nat
  BY LenProperties
<1>1. 0 \in S
  BY DEF Collects
<1>2. ASSUME NEW n \in Nat, n \in S PROVE n + 1 \in S
  <2> SUFFICES ASSUME n + 1 <= Len(q) PROVE g[n + 1] = h[n + 1]
    OBVIOUS
  <2>1. n + 1 \in 1 .. Len(q) /\ (n + 1) - 1 = n /\ g[n] = h[n]
    BY <1>0, <1>2
  <2> QED BY <2>1 DEF Collects
<1> HIDE DEF S
<1>3. \A n \in Nat : n \in S
  BY <1>1, <1>2, NatClosed
<1> QED BY <1>0, <1>3 DEF S

LEMMA PubTopicsCollected ==
  ASSUME NEW q \in Seq(End!Request), NEW g, Collects(g, q)
  PROVE  PubTopics(q) = g[Len(q)] /\ PubTopics(q) \in Seq(Topics)
<1> DEFINE Is(f) == f = [n \in 0 .. Len(q) |->
                           IF n = 0 THEN <<>>
                           ELSE IF q[n].type = "PUB" THEN Append(f[n - 1], q[n].topic)
                                ELSE f[n - 1]]
           f == CHOOSE f : Is(f)
<1>0. Len(q) \in Nat
  BY LenProperties
<1>1. PICK e \in [0 .. Len(q) -> Seq(Topics)] : Collects(e, q)
  BY CollectsExists
<1>2. Is(e)
  <2>1. ASSUME NEW n \in 0 .. Len(q)
        PROVE  e[n] = IF n = 0 THEN <<>>
                      ELSE IF q[n].type = "PUB" THEN Append(e[n - 1], q[n].topic) ELSE e[n - 1]
    <3>1. CASE n = 0
      BY <1>1, <3>1 DEF Collects
    <3>2. CASE n \in 1 .. Len(q)
      BY <1>1, <3>2 DEF Collects
    <3> QED BY <1>0, <3>1, <3>2
  <2> QED BY <1>1, <2>1
<1>3. Is(f)
  BY <1>2
<1>4. Collects(f, q)
  <2> HIDE DEF f
  <2>1. \A n \in 0 .. Len(q) :
          f[n] = IF n = 0 THEN <<>>
                 ELSE IF q[n].type = "PUB" THEN Append(f[n - 1], q[n].topic) ELSE f[n - 1]
    BY <1>3
  <2>2. f[0] = <<>>
    BY <1>0, <2>1
  <2>3. ASSUME NEW n \in 1 .. Len(q)
        PROVE  f[n] = IF q[n].type = "PUB" THEN Append(f[n - 1], q[n].topic) ELSE f[n - 1]
    <3>1. n \in 0 .. Len(q) /\ n # 0
      BY <1>0
    <3> QED BY <2>1, <3>1
  <2> QED BY <2>2, <2>3 DEF Collects
<1>5. PubTopics(q) = f[Len(q)]
  BY DEF PubTopics
<1> HIDE DEF f
<1> QED BY <1>0, <1>1, <1>4, <1>5, CollectsUnique

LEMMA NoPubTopics == PubTopics(<<>>) = <<>>
<1>1. <<>> \in Seq(End!Request) /\ Len(<<>>) = 0
  BY EmptySeq
<1>2. Collects([i \in {0} |-> <<>>], <<>>)
  BY DEF Collects
<1> QED BY <1>1, <1>2, PubTopicsCollected

\* One packet, as a sequence of topics.
Topic(p) == IF p.type = "PUB" THEN <<p.topic>> ELSE <<>>

LEMMA TopicIsSeq ==
  ASSUME NEW p \in End!Request
  PROVE  Topic(p) \in Seq(Topics)
BY DEF Topic, End!Request

LEMMA PubTopicsAppend ==
  ASSUME NEW q \in Seq(End!Request), NEW p \in End!Request
  PROVE  PubTopics(Append(q, p)) = PubTopics(q) \o Topic(p)
<1>0. /\ Len(q) \in Nat /\ Append(q, p) \in Seq(End!Request)
      /\ Len(Append(q, p)) = Len(q) + 1 /\ Append(q, p)[Len(q) + 1] = p
      /\ \A i \in 1 .. Len(q) : Append(q, p)[i] = q[i]
  BY LenProperties, AppendProperties
<1>1. PICK g \in [0 .. Len(q) + 1 -> Seq(Topics)] : Collects(g, Append(q, p))
  BY <1>0, CollectsExists
<1>2. Collects(g, q)
  BY <1>0, <1>1 DEF Collects
<1>3. PubTopics(Append(q, p)) = g[Len(q) + 1] /\ PubTopics(q) = g[Len(q)]
  BY <1>0, <1>1, <1>2, PubTopicsCollected
<1>4. g[Len(q) + 1] = IF p.type = "PUB" THEN Append(g[Len(q)], p.topic) ELSE g[Len(q)]
  <2>1. Len(q) + 1 \in 1 .. Len(Append(q, p)) /\ (Len(q) + 1) - 1 = Len(q)
    BY <1>0
  <2> QED BY <1>0, <1>1, <2>1 DEF Collects
<1>5. g[Len(q)] \in Seq(Topics) /\ (p.type = "PUB" => p.topic \in Topics)
  BY <1>0, <1>1 DEF End!Request
<1>6. CASE p.type = "PUB"
  BY <1>3, <1>4, <1>5, <1>6, AppendIsConcat DEF Topic
<1>7. CASE p.type # "PUB"
  BY <1>3, <1>4, <1>5, <1>7, ConcatEmptySeq DEF Topic
<1> QED BY <1>6, <1>7

LEMMA PubTopicsTail ==
  ASSUME NEW q \in Seq(End!Request), q # <<>>
  PROVE  PubTopics(q) = Topic(Head(q)) \o PubTopics(Tail(q))
<1> DEFINE N == Len(Tail(q))
           w == Topic(Head(q))
<1>0. /\ N \in Nat /\ Len(q) = N + 1 /\ Tail(q) \in Seq(End!Request) /\ Head(q) \in End!Request
      /\ \A i \in 1 .. N : Tail(q)[i] = q[i + 1] /\ q[i + 1] \in End!Request
      /\ Head(q) = q[1]
  BY HeadTailProperties, LenProperties, ElementOfSeq
<1>1. PICK g \in [0 .. N + 1 -> Seq(Topics)] : Collects(g, q)
  BY <1>0, CollectsExists
<1>2. PICK h \in [0 .. N -> Seq(Topics)] : Collects(h, Tail(q))
  BY <1>0, CollectsExists
<1>3. w \in Seq(Topics)
  BY <1>0, TopicIsSeq
<1> DEFINE S == {n \in Nat : n <= N => g[n + 1] = w \o h[n]}
<1>4. 0 \in S
  <2>1. g[1] = IF q[1].type = "PUB" THEN Append(g[0], q[1].topic) ELSE g[0]
    <3>1. 1 \in 1 .. Len(q) /\ 1 - 1 = 0
      BY <1>0
    <3> QED BY <1>1, <3>1 DEF Collects
  <2>2. g[0] = <<>> /\ h[0] = <<>>
    BY <1>1, <1>2 DEF Collects
  <2>3. g[1] = w
    BY <1>0, <2>1, <2>2 DEF Topic
  <2>4. g[1] = w \o h[0]
    BY <1>3, <2>2, <2>3, ConcatEmptySeq
  <2>5. 0 + 1 = 1
    OBVIOUS
  <2> HIDE DEF w, N
  <2> QED BY <2>4, <2>5
<1>5. ASSUME NEW n \in Nat, n \in S PROVE n + 1 \in S
  <2> SUFFICES ASSUME n + 1 <= N PROVE g[n + 2] = w \o h[n + 1]
    OBVIOUS
  <2> DEFINE p == q[n + 2]
  <2>0. n <= N /\ n \in 0 .. N
    BY <1>0
  <2>1. g[n + 1] = w \o h[n] /\ h[n] \in Seq(Topics)
    <3> HIDE DEF w, N
    <3> QED BY <1>2, <1>5, <2>0
  <2>2. p \in End!Request /\ Tail(q)[n + 1] = p /\ n + 1 \in 1 .. N /\ n + 2 \in 1 .. Len(q)
    BY <1>0
  <2>3. g[n + 2] = IF p.type = "PUB" THEN Append(g[n + 1], p.topic) ELSE g[n + 1]
    <3>1. (n + 2) - 1 = n + 1
      OBVIOUS
    <3> QED BY <1>1, <2>2, <3>1 DEF Collects
  <2>4. h[n + 1] = IF p.type = "PUB" THEN Append(h[n], p.topic) ELSE h[n]
    <3>1. (n + 1) - 1 = n
      OBVIOUS
    <3> QED BY <1>2, <2>2, <3>1 DEF Collects
  <2> HIDE DEF p, w
  <2>5. p.type = "PUB" => p.topic \in Topics
    BY <2>2 DEF End!Request
  <2>6. CASE p.type = "PUB"
    <3>1. <<p.topic>> \in Seq(Topics)
      BY <2>5, <2>6
    <3>2. g[n + 2] = (w \o h[n]) \o <<p.topic>>
      BY <1>3, <2>1, <2>3, <2>5, <2>6, AppendIsConcat, ConcatProperties
    <3>3. h[n + 1] = h[n] \o <<p.topic>>
      BY <2>1, <2>4, <2>5, <2>6, AppendIsConcat
    <3>4. (w \o h[n]) \o <<p.topic>> = w \o (h[n] \o <<p.topic>>)
      <4>1. \A s, t, u \in Seq(Topics) : (s \o t) \o u = s \o (t \o u)
        BY ConcatAssociative
      <4> QED BY <1>3, <2>1, <3>1, <4>1
    <3> QED BY <3>2, <3>3, <3>4
  <2>7. CASE p.type # "PUB"
    BY <2>1, <2>3, <2>4, <2>7
  <2> QED BY <2>6, <2>7
<1>6. N \in S
  <2> HIDE DEF S, N
  <2> QED BY <1>0, <1>4, <1>5, NatClosed
<1>7. g[N + 1] = w \o h[N]
  BY <1>0, <1>6
<1> QED BY <1>0, <1>1, <1>2, <1>7, PubTopicsCollected

-----------------------------------------------------------------------------
(* Which lines are forwarded.                                              *)

(***************************************************************************)
(* The inductive invariant: no line is read before the connection is there *)
(* for the first and only time, publish() is called for the last line, and *)
(* while the connection is up it does send it.                             *)
(***************************************************************************)
AfterConnect == {"listening", "accepting", "reading", "publishing", "sending"}

ReachedFirst == IsPrefix(reached, lines)

\* Where the lines are.
WayInv ==
  /\ at \in {"start", "connecting"} => lines = <<>>
  /\ at = "sending" => request = P("PUB", Last(lines))
  /\ up /\ at \in AfterConnect => connected
  /\ NothingLostWhileUp
  /\ ReachedFirst

\* What became of those that got to the broker.
Fates == forwarded = [i \in DOMAIN reached |-> Made(reached[i])]

LinesInv == WayInv /\ Fates

LEMMA PrefixOfConcat ==
  ASSUME NEW s \in Seq(Topics), NEW t \in Seq(Topics)
  PROVE  IsPrefix(s, s \o t)
<1>1. Len(s) \in Nat /\ \A i \in 1 .. Len(s) : s[i] \in Topics
  BY LenProperties, ElementOfSeq
<1>2. /\ s \o t \in Seq(Topics) /\ Len(s \o t) = Len(s) + Len(t) /\ Len(t) \in Nat
      /\ \A i \in 1 .. Len(s) : (s \o t)[i] = s[i]
  BY <1>1, ConcatProperties, LenProperties
<1>3. SubSeq(s \o t, 1, Len(s)) = SubSeq(s, 1, Len(s))
  BY <1>1, <1>2, SubSeqProperties, SeqEqual
<1> QED BY <1>1, <1>2, <1>3 DEF IsPrefix

LEMMA PrefixOfAppend ==
  ASSUME NEW s \in Seq(Topics), NEW t \in Seq(Topics), NEW x \in Topics, IsPrefix(s, t)
  PROVE  IsPrefix(s, Append(t, x))
<1>1. Len(s) \in Nat
  BY LenProperties
<1>2. /\ Len(t) \in Nat /\ Len(s) <= Len(t) /\ Append(t, x) \in Seq(Topics)
      /\ Len(Append(t, x)) = Len(t) + 1
      /\ \A i \in 1 .. Len(t) : Append(t, x)[i] = t[i] /\ t[i] \in Topics
  BY AppendProperties, LenProperties, ElementOfSeq DEF IsPrefix
<1>3. SubSeq(Append(t, x), 1, Len(s)) = SubSeq(t, 1, Len(s))
  BY <1>1, <1>2, SubSeqProperties, SeqEqual
<1> QED BY <1>1, <1>2, <1>3 DEF IsPrefix

LEMMA PubTopicsIsSeq ==
  ASSUME NEW q \in Seq(End!Request)
  PROVE  PubTopics(q) \in Seq(Topics)
<1>1. PICK g \in [0 .. Len(q) -> Seq(Topics)] : Collects(g, q)
  BY CollectsExists
<1>2. PubTopics(q) = g[Len(q)] /\ Len(q) \in 0 .. Len(q)
  BY <1>1, PubTopicsCollected, LenProperties
<1> QED BY <1>1, <1>2

\* Constant operators of primed arguments.
LEMMA Primes ==
  /\ PubTopics(toBroker)' = PubTopics(toBroker')
  /\ ReachedFirst' <=> IsPrefix(reached', lines')
  /\ InHand' = IF at' \in {"publishing", "sending"} THEN <<Last(lines')>> ELSE <<>>
<1>1. PubTopics(toBroker)' = PubTopics(toBroker')
  BY DEF PubTopics
<1>2. ReachedFirst' <=> IsPrefix(reached', lines')
  BY DEF ReachedFirst, IsPrefix
<1>3. InHand' = IF at' \in {"publishing", "sending"} THEN <<Last(lines')>> ELSE <<>>
  BY DEF InHand, Last
<1> QED BY <1>1, <1>2, <1>3

\* The forwarding is as before when nothing that it depends on has changed.
LEMMA ForwardingUntouched ==
  ASSUME NothingLostWhileUp, ReachedFirst, UNCHANGED <<lines, historyVars>>,
         up' => /\ up /\ toBroker' = toBroker
                /\ at' \in {"publishing", "sending"} <=> at \in {"publishing", "sending"}
  PROVE  NothingLostWhileUp' /\ ReachedFirst'
<1>0. UNCHANGED <<inStep, reached>>
  BY DEF historyVars
<1>1. ReachedFirst'
  BY <1>0, Primes DEF ReachedFirst
<1>2. ASSUME up', inStep' PROVE lines' = reached' \o PubTopics(toBroker') \o InHand'
  <2>1. lines = reached \o PubTopics(toBroker) \o InHand
    BY <1>0, <1>2 DEF NothingLostWhileUp, InHand
  <2>2. InHand' = InHand
    BY <1>2, Primes DEF InHand
  <2> QED BY <1>0, <1>2, <2>1, <2>2
<1> QED BY <1>1, <1>2, Primes DEF NothingLostWhileUp, InHand

LEMMA InHandIsSeq ==
  ASSUME MainInv, TypeOK, WayInv
  PROVE  InHand \in Seq(Topics)
<1>1. CASE at = "publishing"
  <2>1. lines \in Seq(Topics) /\ lines # <<>>
    BY <1>1 DEF MainInv
  <2>2. Len(lines) \in 1 .. Len(lines)
    BY <2>1, EmptySeq, LenProperties
  <2>3. Last(lines) \in Topics
    BY <2>1, <2>2, ElementOfSeq DEF Last
  <2> QED BY <1>1, <2>3 DEF InHand
<1>2. CASE at = "sending"
  <2>1. P("PUB", Last(lines)) \in End!Request
    BY <1>2 DEF TypeOK, WayInv
  <2>2. Last(lines) \in Topics
    BY <2>1 DEF P, End!Request
  <2> QED BY <1>2, <2>2 DEF InHand
<1>3. CASE at \notin {"publishing", "sending"}
  BY <1>3 DEF InHand
<1> QED BY <1>1, <1>2, <1>3

\* Where the lines are is kept by every step.
LEMMA WayKept ==
  ASSUME MainInv, TypeOK, ThreadInv, ForwardedOK, WayInv, [BridgeNext]_allVars
  PROVE  WayInv'
<1>0. /\ lines \in Seq(Topics) /\ reached \in Seq(Topics)
      /\ toBroker \in Seq(End!Request) /\ PubTopics(toBroker) \in Seq(Topics)
  BY PubTopicsIsSeq DEF MainInv, ForwardedOK, TypeOK
<1>1. CASE CallConnect
  BY <1>1, ForwardingUntouched DEF CallConnect, Connect, ioVars, wireVars, WayInv, AfterConnect
<1>2. CASE LeaveConnect
  <2>1. UNCHANGED <<lines, historyVars, reached>> /\ lines = <<>> /\ at = "connecting"
    BY <1>2 DEF LeaveConnect, WayInv, historyVars
  <2>2. CASE OpenFails /\ at' = "leaving"
    BY <2>1, <2>2, ForwardingUntouched DEF OpenFails, HangUp, WayInv, AfterConnect
  <2>3. CASE Open /\ UNCHANGED at
    <3>1. ASSUME up' PROVE NothingLostWhileUp'
      <4>1. toBroker' = <<P("CONN", NoTopic)>>
        BY <2>3, <3>1 DEF Open, Terminate, HangUp
      <4>2. PubTopics(toBroker') = <<>>
        <5>1. toBroker' = Append(<<>>, P("CONN", NoTopic))
          BY <4>1
        <5>2. PubTopics(<<>>) = <<>> /\ Topic(P("CONN", NoTopic)) = <<>>
          BY NoPubTopics DEF Topic, P
        <5>3. <<>> \in Seq(End!Request) /\ P("CONN", NoTopic) \in End!Request
          BY Packets
        <5>4. PubTopics(toBroker') = <<>> \o <<>>
          BY <5>1, <5>2, <5>3, PubTopicsAppend
        <5> QED BY <5>4
      <4>3. reached = <<>>
        <5>1. Len(reached) <= Len(lines) /\ Len(lines) = 0 /\ Len(reached) \in Nat
          BY <1>0, <2>1, LenProperties DEF WayInv, ReachedFirst, IsPrefix
        <5> QED BY <1>0, <5>1, EmptySeq
      <4>4. <<>> \o <<>> \o <<>> = <<>>
        OBVIOUS
      <4>5. PubTopics(toBroker)' = <<>>
        BY <4>2 DEF PubTopics
      <4>6. InHand' = <<>>
        BY <2>1, <2>3, Primes
      <4> QED BY <2>1, <2>3, <4>3, <4>4, <4>5, <4>6 DEF NothingLostWhileUp
    <3>2. ~up' => NothingLostWhileUp'
      BY DEF NothingLostWhileUp
    <3> QED BY <2>1, <2>3, <3>1, <3>2, Primes DEF WayInv, AfterConnect, ReachedFirst
  <2>4. CASE ConnectReturns /\ at' = IF connected THEN "listening" ELSE "leaving"
    BY <2>1, <2>4, ForwardingUntouched DEF ConnectReturns, ioVars, wireVars, WayInv, AfterConnect
  <2> QED BY <1>2, <2>2, <2>3, <2>4 DEF LeaveConnect
<1>3. CASE Listen \/ AcceptDevice \/ DeviceEnds
  BY <1>3, ForwardingUntouched DEF Listen, AcceptDevice, DeviceEnds, vars, userVars, ioVars,
      wireVars, WayInv, AfterConnect
<1>4. CASE ReadLine
  <2>1. at = "reading" /\ UNCHANGED <<vars, historyVars, reached, inStep>>
    BY <1>4 DEF ReadLine, historyVars
  <2>2. UNCHANGED <<up, toBroker, connected, request>>
    BY <2>1 DEF vars, userVars, ioVars, wireVars
  <2>3. CASE UNCHANGED <<at, lines>>
    BY <2>1, <2>2, <2>3, ForwardingUntouched DEF WayInv, AfterConnect
  <2>4. CASE Head(left) # Bad /\ at' = "publishing" /\ lines' = Append(lines, Head(left))
    <3> DEFINE x == Head(left)
    <3>1. x \in Topics
      <4>1. x \in Topics \cup {Bad, Cut}
        BY <1>4, HeadTailProperties DEF ReadLine, MainInv
      <4> QED BY <1>4, <2>4, <4>1 DEF ReadLine
    <3> HIDE DEF x
    <3>2. lines' = lines \o <<x>> /\ Last(lines') = x
      BY <1>0, <2>4, <3>1, AppendIsConcat, AppendProperties, LenProperties DEF Last, x
    <3>3. ASSUME up, inStep PROVE lines' = reached' \o PubTopics(toBroker)' \o <<Last(lines')>>
      <4>1. lines = (reached \o PubTopics(toBroker)) \o <<>>
        BY <2>1, <3>3 DEF WayInv, NothingLostWhileUp, InHand
      <4>2. reached \o PubTopics(toBroker) \in Seq(Topics)
        BY <1>0, ConcatProperties
      <4>3. lines = reached \o PubTopics(toBroker)
        BY <4>1, <4>2, ConcatEmptySeq
      <4>4. reached' = reached /\ PubTopics(toBroker)' = PubTopics(toBroker)
        BY <2>1, <2>2, Primes
      <4> QED BY <3>2, <4>3, <4>4
    <3>4. ReachedFirst'
      <4>1. lines' = Append(lines, x) /\ reached' = reached
        BY <2>1, <2>4 DEF x
      <4>2. IsPrefix(reached, Append(lines, x))
        BY <1>0, <3>1, PrefixOfAppend DEF WayInv, ReachedFirst
      <4> QED BY <4>1, <4>2, Primes
    <3>5. NothingLostWhileUp'
      <4>1. InHand' = <<Last(lines')>>
        BY <2>4, Primes
      <4>2. ASSUME up', inStep' PROVE lines' = reached' \o PubTopics(toBroker)' \o InHand'
        BY <2>1, <2>2, <3>3, <4>1, <4>2
      <4> QED BY <4>2 DEF NothingLostWhileUp
    <3> QED BY <2>1, <2>2, <2>4, <3>4, <3>5 DEF WayInv, AfterConnect
  <2> QED BY <1>4, <2>3, <2>4 DEF ReadLine
<1>5. CASE CallPublish
  <2>1. UNCHANGED <<lines, historyVars, up, toBroker, connected>> /\ at = "publishing"
    BY <1>5 DEF CallPublish, Publish, vars, ioVars, wireVars
  <2>3. CASE connected /\ Publish(Last(lines)) /\ at' = "sending"
    <3>1. request' = P("PUB", Last(lines')) /\ NothingLostWhileUp' /\ ReachedFirst'
      BY <2>1, <2>3, ForwardingUntouched DEF Publish, WayInv
    <3> QED BY <2>1, <2>3, <3>1 DEF WayInv, AfterConnect, P, Last
  <2>4. CASE ~connected /\ at' = "reading"
    <3>1. ~up
      BY <2>1, <2>4 DEF WayInv, AfterConnect
    <3> QED BY <2>1, <2>4, <3>1, ForwardingUntouched DEF WayInv, AfterConnect
  <2> QED BY <1>5, <2>3, <2>4 DEF CallPublish
<1>6. CASE PublishReturns
  <2>1. /\ UNCHANGED <<lines, reached, inStep, up, connected>>
        /\ at = "sending" /\ at' = "reading"
        /\ up => toBroker' = Append(toBroker, P("PUB", Last(lines)))
    BY <1>6 DEF PublishReturns, SendPacket, ioVars, WayInv, historyVars
  <2>2. ASSUME up, inStep PROVE lines = reached \o PubTopics(toBroker)' \o <<>>
    <3> DEFINE p == P("PUB", Last(lines))
               r == PubTopics(toBroker)
    <3>1. p \in End!Request /\ p.type = "PUB" /\ p.topic = Last(lines)
      BY <2>1 DEF TypeOK, WayInv, P
    <3>2. Last(lines) \in Topics
      BY <3>1 DEF End!Request
    <3>3. PubTopics(toBroker)' = r \o <<Last(lines)>>
      <4>1. PubTopics(Append(toBroker, p)) = r \o Topic(p) /\ Topic(p) = <<Last(lines)>>
        BY <1>0, <3>1, PubTopicsAppend DEF Topic
      <4> QED BY <2>1, <2>2, <4>1, Primes
    <3>4. lines = (reached \o r) \o <<Last(lines)>>
      BY <2>1, <2>2 DEF WayInv, NothingLostWhileUp, InHand
    <3> HIDE DEF r, p
    <3>5. r \in Seq(Topics) /\ <<Last(lines)>> \in Seq(Topics)
      BY <1>0, <3>2 DEF r
    <3>6. lines = reached \o (r \o <<Last(lines)>>)
      <4>1. \A s, t, u \in Seq(Topics) : (s \o t) \o u = s \o (t \o u)
        BY ConcatAssociative
      <4> QED BY <1>0, <3>4, <3>5, <4>1
    <3> QED BY <1>0, <3>3, <3>6, ConcatEmptySeq
  <2>3. ReachedFirst'
    BY <2>1, Primes DEF WayInv, ReachedFirst
  <2>4. NothingLostWhileUp'
    BY <2>1, <2>2, Primes DEF NothingLostWhileUp
  <2> QED BY <2>1, <2>3, <2>4 DEF WayInv, AfterConnect
<1>7. CASE Leave
  <2>1. UNCHANGED bridgeVars /\ at = "leaving" /\ (~up' \/ UNCHANGED <<up, toBroker>>)
    BY <1>7 DEF Leave, Destroy, LockAndShut, Joined, Shut, Terminate, HangUp, wireVars
  <2>2. NothingLostWhileUp' /\ ReachedFirst'
    BY <2>1, ForwardingUntouched DEF bridgeVars, WayInv
  <2> QED BY <2>1, <2>2 DEF bridgeVars, WayInv, AfterConnect, P, Last
<1>8. CASE IoThread
  <2>1. /\ UNCHANGED <<bridgeVars, request>>
        /\ ~up' \/ UNCHANGED <<up, toBroker, connected>> \/ (UNCHANGED <<up, toBroker>> /\ connected')
    BY <1>8 DEF IoThread, IoStarts, IoEnds, HandleConnack, HandleAck, CanReceive, ReadFails,
        IoDisconnects, Shut, HangUp, userVars, ioVars, wireVars
  <2>2. NothingLostWhileUp' /\ ReachedFirst'
    BY <2>1, ForwardingUntouched DEF bridgeVars, WayInv
  <2> QED BY <2>1, <2>2 DEF bridgeVars, WayInv, AfterConnect, P, Last
<1>9. CASE BrokerLosesStep
  <2>1. UNCHANGED <<lines, reached, at, up, connected, request>> /\ ~inStep'
    BY <1>9, BrokerSteps DEF BrokerLosesStep, BrokerStep, userVars, ioVars
  <2>2. NothingLostWhileUp' /\ ReachedFirst'
    BY <2>1, Primes DEF WayInv, NothingLostWhileUp, ReachedFirst
  <2> QED BY <2>1, <2>2 DEF WayInv, AfterConnect, P, Last
<1>13. CASE BrokerConnects \/ BrokerPublishes
  <2>1. /\ UNCHANGED <<lines, at, up, connected, request, inStep>> /\ up /\ inStep
        /\ toBroker # <<>> /\ toBroker' = Tail(toBroker)
        /\ Head(toBroker) \in End!Request /\ Tail(toBroker) \in Seq(End!Request)
    <3>1. BrokerTakes \/ BrokerIgnores
      BY <1>13 DEF BrokerConnects, BrokerPublishes
    <3>2. /\ UNCHANGED <<up, connected, request>> /\ up
          /\ toBroker # <<>> /\ toBroker' = Tail(toBroker)
      BY <3>1, BrokerSteps DEF BrokerStep, BrokerTakes, BrokerIgnores, userVars, ioVars
    <3>3. UNCHANGED <<lines, at, inStep>> /\ inStep
      BY <1>13 DEF BrokerConnects, BrokerPublishes, bridgeVars, historyVars
    <3> QED BY <3>2, <3>3, HeadTailProperties DEF TypeOK
  <2> DEFINE x == Topic(Head(toBroker))
             r == PubTopics(Tail(toBroker))
  <2>2. PubTopics(toBroker) = x \o r /\ x \in Seq(Topics) /\ r \in Seq(Topics)
    BY <1>0, <2>1, PubTopicsTail, TopicIsSeq, PubTopicsIsSeq
  <2>3. reached' = reached \o x
    <3>1. CASE BrokerPublishes
      <4>1. PICK t \in Topics :
              /\ Head(toBroker).type = "PUB" /\ Head(toBroker).topic = t
              /\ reached' = Append(reached, t)
        BY <3>1, GetsLine
      <4> QED BY <1>0, <4>1, AppendIsConcat DEF Topic
    <3>2. CASE BrokerConnects
      BY <1>0, <3>2, ConcatEmptySeq DEF BrokerConnects, bridgeVars, historyVars, Topic
    <3> QED BY <1>13, <3>1, <3>2
  <2>4. PubTopics(toBroker)' = r
    BY <2>1, Primes
  <2> HIDE DEF x, r
  <2>5. /\ reached' \in Seq(Topics)
        /\ reached' \o r = reached \o PubTopics(toBroker)
    <3>1. \A s, t, u \in Seq(Topics) : (s \o t) \o u = s \o (t \o u)
      BY ConcatAssociative
    <3>2. (reached \o x) \o r = reached \o (x \o r)
      BY <1>0, <2>2, <3>1
    <3> QED BY <1>0, <2>2, <2>3, <3>2, ConcatProperties
  <2>6. NothingLostWhileUp'
    <3>1. lines = (reached \o PubTopics(toBroker)) \o InHand
      BY <2>1 DEF WayInv, NothingLostWhileUp, InHand
    <3>2. lines = (reached' \o r) \o InHand
      BY <2>5, <3>1
    <3> QED BY <2>1, <2>4, <3>2, Primes DEF NothingLostWhileUp, InHand
  <2>7. ReachedFirst'
    <3>1. InHand \in Seq(Topics) /\ r \o InHand \in Seq(Topics)
      BY <2>2, InHandIsSeq, ConcatProperties
    <3>2. lines = (reached' \o r) \o InHand
      BY <2>1, <2>5 DEF WayInv, NothingLostWhileUp, InHand
    <3>3. (reached' \o r) \o InHand = reached' \o (r \o InHand)
      <4>1. \A s, t, u \in Seq(Topics) : (s \o t) \o u = s \o (t \o u)
        BY ConcatAssociative
      <4> QED BY <2>2, <2>5, <3>1, <4>1
    <3>4. IsPrefix(reached', reached' \o (r \o InHand))
      BY <2>5, <3>1, PrefixOfConcat
    <3> QED BY <2>1, <3>2, <3>3, <3>4, Primes
  <2> QED BY <2>1, <2>6, <2>7 DEF WayInv, AfterConnect, P, Last
<1>10. CASE BrokerAnswers
  <2>1. UNCHANGED <<bridgeVars, up, toBroker, connected, request>>
    BY <1>10 DEF BrokerAnswers, BrokerServes, userVars, ioVars
  <2>2. NothingLostWhileUp' /\ ReachedFirst'
    BY <2>1, ForwardingUntouched DEF bridgeVars, WayInv
  <2> QED BY <2>1, <2>2 DEF bridgeVars, WayInv, AfterConnect, P, Last
<1>11. CASE Lost
  <2>1. UNCHANGED <<bridgeVars, request>> /\ ~up'
    BY <1>11 DEF Lost, ConnectionLost, userVars
  <2>2. NothingLostWhileUp' /\ ReachedFirst'
    BY <2>1, ForwardingUntouched DEF bridgeVars, WayInv
  <2> QED BY <2>1, <2>2 DEF bridgeVars, WayInv, AfterConnect, P, Last
<1>12. CASE UNCHANGED allVars
  <2>1. UNCHANGED <<bridgeVars, request, up, toBroker, connected>>
    BY <1>12 DEF allVars, vars, userVars, ioVars, wireVars
  <2>2. NothingLostWhileUp' /\ ReachedFirst'
    BY <2>1, ForwardingUntouched DEF bridgeVars, WayInv
  <2> QED BY <2>1, <2>2 DEF bridgeVars, WayInv, AfterConnect, P, Last
<1> QED BY <1>1, <1>2, <1>3, <1>4, <1>5, <1>6, <1>7, <1>8, <1>9, <1>10, <1>11, <1>12, <1>13
    DEF BridgeNext, Main, BrokerGets

\* What became of the lines is kept: the broker gets one more, or none.
LEMMA FatesAppend ==
  ASSUME NEW s \in Seq(Topics), NEW x \in Topics
  PROVE  Append([i \in DOMAIN s |-> Made(s[i])], Made(x))
           = [i \in DOMAIN Append(s, x) |-> Made(Append(s, x)[i])]
<1> DEFINE S == Topics \cup {Misread, Dropped}
           n == Len(s)
           m == [i \in DOMAIN s |-> Made(s[i])]
           r == Append(s, x)
           q == [i \in DOMAIN r |-> Made(r[i])]
<1>1. ASSUME NEW t \in Topics PROVE Made(t) \in S
  BY <1>1 DEF Made
<1>2. /\ n \in Nat /\ DOMAIN s = 1 .. n /\ \A i \in 1 .. n : s[i] \in Topics
      /\ r \in Seq(Topics) /\ Len(r) = n + 1 /\ r[n + 1] = x
      /\ \A i \in 1 .. n : r[i] = s[i]
  BY LenProperties, ElementOfSeq, AppendProperties
<1>3. DOMAIN r = 1 .. n + 1 /\ \A i \in 1 .. n + 1 : r[i] \in Topics
  BY <1>2, LenProperties, ElementOfSeq
<1> HIDE DEF S, n, r
<1>4. m \in [1 .. n -> S] /\ q \in [1 .. n + 1 -> S]
  BY <1>1, <1>2, <1>3
<1>5. m \in Seq(S) /\ Len(m) = n /\ q \in Seq(S) /\ Len(q) = n + 1
  <2>1. m \in Seq(S) /\ q \in Seq(S)
    BY <1>2, <1>4
  <2>2. DOMAIN m = 1 .. n /\ DOMAIN q = 1 .. n + 1
    BY <1>2, <1>3
  <2> HIDE DEF m, q
  <2> QED BY <1>2, <2>1, <2>2, LenProperties
<1>6. \A i \in 1 .. n : m[i] = Made(r[i]) /\ q[i] = Made(r[i])
  BY <1>2, <1>3
<1>7. q[n + 1] = Made(x)
  BY <1>2, <1>3
<1>8. Made(x) \in S
  BY <1>1
<1> HIDE DEF m, q
<1>9. /\ Append(m, Made(x)) \in Seq(S) /\ Len(Append(m, Made(x))) = n + 1
      /\ \A i \in 1 .. n : Append(m, Made(x))[i] = m[i]
      /\ Append(m, Made(x))[n + 1] = Made(x)
  BY <1>5, <1>8, AppendProperties
<1>10. \A i \in 1 .. n + 1 : Append(m, Made(x))[i] = q[i]
  BY <1>2, <1>6, <1>7, <1>9
<1>11. Append(m, Made(x)) = q
  BY <1>5, <1>9, <1>10, SeqEqual
<1> QED BY <1>11 DEF m, q, r

LEMMA FatesKept ==
  ASSUME TypeOK, ForwardedOK, Fates, [BridgeNext]_allVars
  PROVE  Fates'
<1>1. CASE BrokerPublishes
  <2>1. PICK x \in Topics : reached' = Append(reached, x) /\ forwarded' = Append(forwarded, Made(x))
    BY <1>1, GetsLine
  <2>2. Append(forwarded, Made(x))
          = [i \in DOMAIN Append(reached, x) |-> Made(Append(reached, x)[i])]
    BY FatesAppend DEF Fates, ForwardedOK
  <2> QED BY <2>1, <2>2 DEF Fates, Made
<1>2. CASE UNCHANGED <<reached, forwarded>>
  BY <1>2 DEF Fates, Made
<1> QED BY <1>1, <1>2, HistoriesKept DEF BrokerLosesStep, historyVars

\* The invariant of the forwarding holds in every reachable state, whatever the io
\* thread, the broker and the network do between the steps of main(): where each line
\* is, and what became of it at the broker.
THEOREM LinesInvariance == BridgeSpec => []LinesInv
<1>1. BridgeInit => LinesInv
  <2> SUFFICES ASSUME BridgeInit PROVE LinesInv
    OBVIOUS
  <2>1. lines = <<>> /\ reached = <<>> /\ forwarded = <<>> /\ at = "start" /\ ~up
    BY DEF BridgeInit, Init
  <2>2. IsPrefix(reached, lines)
    <3>1. <<>> \in Seq(Topics) /\ <<>> \o <<>> = <<>>
      OBVIOUS
    <3>2. IsPrefix(<<>>, <<>> \o <<>>)
      BY <3>1, PrefixOfConcat
    <3> QED BY <2>1, <3>1, <3>2
  <2>3. Fates
    BY <2>1 DEF Fates
  <2> QED BY <2>1, <2>2, <2>3
          DEF LinesInv, WayInv, AfterConnect, NothingLostWhileUp, ReachedFirst
<1>2. MainInv /\ ClientInv /\ BridgeTypeOK /\ LinesInv /\ [BridgeNext]_allVars => LinesInv'
  BY WayKept, FatesKept DEF ClientInv, BridgeTypeOK, ForwardedOK, LinesInv
<1>3. BridgeSpec => []ClientInv
  BY BridgeUsesClient, ClientInvariance, PTL
<1> QED BY <1>1, <1>2, <1>3, MainInvariance, BridgeTypeCorrect, PTL DEF BridgeSpec

\* As long as the connection is up and no payload was too long for its length, every
\* line taken for publishing has got to the broker, is on its way or is about to be sent,
\* once and in order.
THEOREM NoLineLost == BridgeSpec => []NothingLostWhileUp
<1>1. LinesInv => NothingLostWhileUp
  BY DEF LinesInv, WayInv
<1> QED BY <1>1, LinesInvariance, PTL

\* However the connection ends, the broker gets the first of the lines, up to the first
\* payload too long for its length, and each of them has the fate that its topic and its
\* data give it: published, published under another topic, or dropped.
THEOREM NoGapInLines == BridgeSpec => []FirstLinesForwarded
<1>1. LinesInv => FirstLinesForwarded
  BY DEF LinesInv, WayInv, ReachedFirst, Fates, FirstLinesForwarded
<1> QED BY <1>1, LinesInvariance, PTL

-----------------------------------------------------------------------------
(* The bridge implements Relay.                                            *)

\* Once lost, the connection stays lost: connect() was called before and is not again.
\* Once out of step, the reader stays so.
LEMMA StaysClosed ==
  ASSUME BridgeNext, ~MayForward
  PROVE  ~MayForward'
<1>1. CASE inStep
  <2>1. ~up /\ at \notin {"start", "connecting"}
    BY <1>1 DEF MayForward
  <2>2. CASE Main
    <3>1. CASE CallConnect \/ LeaveConnect
      BY <2>1, <3>1 DEF CallConnect, LeaveConnect
    <3>2. CASE Listen \/ AcceptDevice \/ ReadLine \/ DeviceEnds
      BY <2>1, <3>2 DEF Listen, AcceptDevice, ReadLine, DeviceEnds, vars, wireVars, MayForward
    <3>3. CASE CallPublish \/ PublishReturns
      BY <2>1, <3>3 DEF CallPublish, PublishReturns, Publish, SendPacket, vars, wireVars,
          MayForward
    <3>4. CASE Leave
      BY <2>1, <3>4 DEF Leave, Destroy, LockAndShut, Joined, Shut, Terminate, HangUp, wireVars,
          bridgeVars, MayForward
    <3> QED BY <2>2, <3>1, <3>2, <3>3, <3>4 DEF Main
  <2>3. CASE IoThread
    BY <2>1, <2>3 DEF IoThread, IoStarts, IoEnds, HandleConnack, HandleAck, ReadFails,
        IoDisconnects, Shut, HangUp, wireVars, bridgeVars, MayForward
  <2>4. CASE BrokerGets
    <3>1. BrokerTakes \/ BrokerIgnores
      BY <2>4 DEF BrokerGets, BrokerConnects, BrokerPublishes, BrokerLosesStep
    <3>2. UNCHANGED <<up, at>>
      BY <2>4, <3>1 DEF BrokerGets, BrokerConnects, BrokerPublishes, BrokerLosesStep,
          BrokerTakes, BrokerIgnores, bridgeVars
    <3> QED BY <2>1, <3>2 DEF MayForward
  <2>5. CASE BrokerAnswers
    BY <2>1, <2>5 DEF BrokerAnswers, BrokerServes, bridgeVars, MayForward
  <2>6. CASE Lost
    BY <2>1, <2>6 DEF Lost, ConnectionLost, bridgeVars, MayForward
  <2> QED BY <2>2, <2>3, <2>4, <2>5, <2>6 DEF BridgeNext
<1>2. CASE ~inStep
  <2>1. ~BrokerPublishes /\ ~BrokerLosesStep
    BY <1>2 DEF BrokerPublishes, BrokerLosesStep
  <2>2. inStep' = inStep
    BY <2>1, HistoriesKept DEF historyVars
  <2> QED BY <1>2, <2>2 DEF MayForward
<1> QED BY <1>1, <1>2

\* As many fates as lines at the broker.
LEMMA SameLength ==
  ASSUME ForwardedOK, Fates
  PROVE  Len(forwarded) = Len(reached) /\ Len(reached) \in Nat
<1>1. /\ Len(reached) \in Nat /\ DOMAIN reached = 1 .. Len(reached)
      /\ Len(forwarded) \in Nat /\ DOMAIN forwarded = 1 .. Len(forwarded)
  BY LenProperties DEF ForwardedOK
<1>2. DOMAIN forwarded = DOMAIN reached
  BY DEF Fates
<1>3. 1 .. Len(forwarded) = 1 .. Len(reached)
  BY <1>1, <1>2
<1>4. \A m, n \in Nat : 1 .. m = 1 .. n => m = n
  <2> SUFFICES ASSUME NEW m \in Nat, NEW n \in Nat, 1 .. m = 1 .. n PROVE m = n
    OBVIOUS
  <2>1. m > 0 => m \in 1 .. n
    OBVIOUS
  <2>2. n > 0 => n \in 1 .. m
    OBVIOUS
  <2> QED BY <2>1, <2>2
<1> QED BY <1>1, <1>3, <1>4

\* A message that the broker gets is the next line.
LEMMA NextLineGiven ==
  ASSUME MainInv, TypeOK, ForwardedOK, Fates, BrokerPublishes, ReachedFirst'
  PROVE  /\ Len(forwarded) < Len(lines)
         /\ lines[Len(forwarded) + 1] \in Topics
         /\ forwarded' = Append(forwarded, Made(lines[Len(forwarded) + 1]))
<1> DEFINE n == Len(reached) + 1
<1>1. PICK x \in Topics : reached' = Append(reached, x) /\ forwarded' = Append(forwarded, Made(x))
  BY GetsLine
<1>2. IsPrefix(Append(reached, x), lines)
  BY <1>1, Primes DEF BrokerPublishes
<1>3. /\ Len(reached) \in Nat /\ Len(lines) \in Nat /\ Append(reached, x) \in Seq(Topics)
      /\ Len(Append(reached, x)) = n /\ Append(reached, x)[n] = x
      /\ \A i \in 1 .. n : Append(reached, x)[i] \in Topics
      /\ \A i \in 1 .. Len(lines) : lines[i] \in Topics
  BY <1>1, AppendProperties, LenProperties, ElementOfSeq DEF MainInv, ForwardedOK
<1>4. n <= Len(lines) /\ SubSeq(Append(reached, x), 1, n) = SubSeq(lines, 1, n)
  BY <1>2, <1>3 DEF IsPrefix
<1>5. SubSeq(Append(reached, x), 1, n)[n] = x /\ SubSeq(lines, 1, n)[n] = lines[n]
  BY <1>3, <1>4, SubSeqProperties
<1>6. Len(forwarded) + 1 = n /\ lines[n] = x
  BY <1>4, <1>5, SameLength
<1> QED BY <1>1, <1>3, <1>4, <1>6

\* Every step of the bridge is a step of Relay or none.
LEMMA RelayStep ==
  ASSUME MainInv, TypeOK, ForwardedOK, LinesInv, ReachedFirst', BridgeNext
  PROVE  RL!Next \/ UNCHANGED RL!vars
<1>1. CASE ReadLine
  <2>1. UNCHANGED <<up, forwarded>> /\ (MayForward' <=> MayForward)
    BY <1>1 DEF ReadLine, vars, wireVars, historyVars, MayForward
  <2>2. CASE UNCHANGED lines
    BY <2>1, <2>2 DEF RL!vars, MayForward
  <2>3. CASE Head(left) # Bad /\ lines' = Append(lines, Head(left))
    <3>1. Head(left) \in Topics
      <4>1. Head(left) \in Topics \cup {Bad, Cut}
        BY <1>1, HeadTailProperties DEF ReadLine, MainInv
      <4> QED BY <1>1, <2>3, <4>1 DEF ReadLine
    <3> QED BY <2>1, <2>3, <3>1 DEF RL!Next, RL!Take, MayForward
  <2> QED BY <1>1, <2>2, <2>3 DEF ReadLine
<1>2. CASE BrokerGets
  <2>1. up /\ up' = up /\ inStep /\ lines' = lines /\ at' = at
    <3>1. BrokerStep
      BY <1>2 DEF BrokerGets, BrokerConnects, BrokerPublishes, BrokerLosesStep, BrokerStep
    <3> QED BY <1>2, <3>1, BrokerSteps
        DEF BrokerGets, BrokerConnects, BrokerPublishes, BrokerLosesStep, bridgeVars
  <2>2. CASE BrokerPublishes
    BY <2>1, <2>2, NextLineGiven DEF RL!Next, RL!Give, MayForward, LinesInv, BrokerPublishes
  <2>3. CASE BrokerConnects
    BY <2>1, <2>3 DEF BrokerConnects, bridgeVars, historyVars, RL!vars, MayForward
  <2>4. CASE BrokerLosesStep
    BY <2>1, <2>4 DEF BrokerLosesStep, RL!Next, RL!Close, MayForward
  <2> QED BY <1>2, <2>2, <2>3, <2>4 DEF BrokerGets
<1>3. ASSUME ~ReadLine, ~BrokerGets PROVE RL!Next \/ UNCHANGED RL!vars
  <2>1. UNCHANGED <<lines, forwarded>>
    BY <1>3 DEF BridgeNext, Main, CallConnect, LeaveConnect, Listen, AcceptDevice, DeviceEnds,
        CallPublish, PublishReturns, Leave, IoThread, BrokerAnswers, Lost, bridgeVars, historyVars
  <2>2. MayForward' => MayForward
    BY StaysClosed
  <2> QED BY <2>1, <2>2 DEF RL!Next, RL!Close, RL!vars, MayForward
<1> QED BY <1>1, <1>2, <1>3

\* The bridge implements Relay for any devices, any topics and any number of lines: a
\* line has its fate at the broker when it is the next one, and none is promised once
\* the connection was lost or a payload was too long for its length.
THEOREM RelayImplemented == BridgeSpec => ImplementsRelay
<1>1. BridgeInit => RL!Init
  BY DEF BridgeInit, RL!Init, MayForward
<1>2. MainInv /\ BridgeTypeOK /\ LinesInv /\ LinesInv' /\ [BridgeNext]_allVars
        => [RL!Next]_(RL!vars)
  <2> SUFFICES ASSUME MainInv, BridgeTypeOK, LinesInv, LinesInv', [BridgeNext]_allVars
               PROVE  RL!Next \/ UNCHANGED RL!vars
    OBVIOUS
  <2>1. TypeOK /\ ForwardedOK /\ ReachedFirst'
    BY DEF BridgeTypeOK, ForwardedOK, LinesInv, WayInv
  <2>2. CASE BridgeNext
    BY <2>1, <2>2, RelayStep
  <2>3. CASE UNCHANGED allVars
    BY <2>3 DEF allVars, vars, wireVars, bridgeVars, historyVars, RL!vars, MayForward
  <2> QED BY <2>2, <2>3
<1> QED BY <1>1, <1>2, MainInvariance, BridgeTypeCorrect, LinesInvariance, PTL
      DEF BridgeSpec, ImplementsRelay, RL!Spec
=============================================================================
