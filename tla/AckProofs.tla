------------------------------ MODULE AckProofs -----------------------------
(***************************************************************************)
(* Proofs about what the acknowledgements tell a client: AcknowledgedState,*)
(* QuietIsRegistered and LateDeliveryBound, for all values of the          *)
(* constants.  They rest on IInv and on the invariants below.              *)
(***************************************************************************)
EXTENDS BrokerProofs, FiniteSetTheorems

\* A session is without client_id_ exactly until its first CONNACK is handed to
\* async_write, and till then nothing else is, nor removed, nor about to be sent.
Named(s) ==
  /\ client_id[s] = NoClient =>
       out[s] = <<>> /\ erasing[s] = 0 /\ \A p \in Sessions : left[p][s] = 0
  /\ client_id[s] # NoClient => \E i \in DOMAIN out[s] : out[s][i].type = "CONNACK"

NameInv == \A s \in Sessions : Named(s)

\* No other session completed CONN with the id of s / s sent CONN at most once.
Alone(s) ==
  client_id[s] = NoClient \/ \A r \in Sessions \ {s} : client_id[r] # client_id[s]

OneConn(s) ==
  \A i, j \in DOMAIN out[s] :
    out[s][i].type = "CONNACK" /\ out[s][j].type = "CONNACK" => i = j

\* Between CONNs, a session that is up and alone is in the registry.
HasEntry(s) ==
  /\ socket[s] = "open" /\ Alone(s)
  /\ client_id[s] # NoClient /\ step[s] # "connecting" /\ ~Registering(s)
  => sessions[client_id[s]] = s

EntryInv == OneIdentity => \A s \in Sessions : HasEntry(s)

\* What s was told about t, or is about to be told.
Told(s, t) ==
  \/ step[s] = "suback" /\ topic[s] = t
  \/ ~(step[s] = "unsuback" /\ topic[s] = t) /\ Acknowledged(s, t)

\* The table says what s was told.  While its only CONN registers s, no entry leads
\* to it, so that it is not its own old session.
AsTold(s) ==
  socket[s] = "open" /\ Alone(s) /\ OneConn(s) =>
    /\ \A t \in Topics : topic_subscribers[t][s] = IF Told(s, t) THEN 1 ELSE 0
    /\ Registering(s) => \A c \in ClientIds : sessions[c] # s

ToldInv == OneIdentity => \A s \in Sessions : AsTold(s)

\* The UNSUBACK for t at i is the last word: no SUBACK for t follows, nor is one due.
Off(r, i, t) ==
  /\ out[r][i].type = "UNSUBACK" /\ out[r][i].topic = t
  /\ \A m \in DOMAIN out[r] :
       m > i => ~(out[r][m].type = "SUBACK" /\ out[r][m].topic = t)
  /\ ~(step[r] = "suback" /\ topic[r] = t)

\* p is about to send r a message of t.
Sending(p, r, t) == step[p] = "fanout" /\ topic[p] = t /\ left[p][r] > 0

\* After such an UNSUBACK r is not in the list of t; and a publisher that has sent r a
\* message of t since then has no other for it in its copy.
Silent(r, t) ==
  /\ step[r] = "unsuback" /\ topic[r] = t => topic_subscribers[t][r] = 0
  /\ \A i \in DOMAIN out[r] : Off(r, i, t) =>
       /\ topic_subscribers[t][r] = 0
       /\ \A j \in DOMAIN out[r] :
            j > i /\ out[r][j].type = "PUB" /\ out[r][j].topic = t
              => ~Sending(out[r][j].from, r, t)

OffInv ==
  \A r \in Sessions :
    /\ step[r] = "unsuback" => topic[r] \in Topics
    /\ \A i \in DOMAIN out[r] : out[r][i].type = "UNSUBACK" => out[r][i].topic \in Topics
    /\ \A t \in Topics : Silent(r, t)

AckInv == NameInv /\ EntryInv /\ ToldInv /\ OffInv /\ LateDeliveryBound

-----------------------------------------------------------------------------
(* Sending.                                                                *)

\* What was sent stays where it is.
LEMMA SendKeeps ==
  ASSUME TypeOK, NEW r \in Sessions, NEW s \in Sessions,
         NEW type \in Acks \cup {"PUB"}, Send(r, type, s),
         NEW q \in Sessions, NEW i \in DOMAIN out[q]
  PROVE  i \in DOMAIN out'[q] /\ out'[q][i] = out[q][i]
<1>1. CASE q # r
  <2>1. out'[q] = out[q]
    BY <1>1, SendShape
  <2> QED
    BY <2>1
<1>2. CASE q = r
  <2>1. /\ DOMAIN out[r] = 1 .. Len(out[r]) /\ DOMAIN out'[r] = 1 .. Len(out[r]) + 1
        /\ Len(out[r]) \in Nat /\ \A k \in 1 .. Len(out[r]) : out'[r][k] = out[r][k]
    BY SendShape
  <2> QED
    BY <1>2, <2>1
<1> QED
  BY <1>1, <1>2

\* What is sent comes after it.
LEMMA SendLast ==
  ASSUME TypeOK, NEW r \in Sessions, NEW s \in Sessions,
         NEW type \in Acks \cup {"PUB"}, Send(r, type, s)
  PROVE  \E n \in DOMAIN out'[r] :
           /\ \A i \in DOMAIN out[r] : i < n
           /\ out'[r][n] = [type |-> type, from |-> s, seq |-> received[s],
                            topic |-> topic[s]]
<1>1. /\ Len(out[r]) \in Nat
      /\ DOMAIN out[r] = 1 .. Len(out[r]) /\ DOMAIN out'[r] = 1 .. Len(out[r]) + 1
      /\ out'[r][Len(out[r]) + 1] = [type |-> type, from |-> s, seq |-> received[s],
                                      topic |-> topic[s]]
  BY SendShape
<1>2. Len(out[r]) + 1 \in DOMAIN out'[r] /\ \A i \in DOMAIN out[r] : i < Len(out[r]) + 1
  BY <1>1
<1> QED
  BY <1>1, <1>2

\* A packet is one that was sent before, or the new one.
LEMMA SendSplit ==
  ASSUME TypeOK, NEW r \in Sessions, NEW s \in Sessions,
         NEW type \in Acks \cup {"PUB"}, Send(r, type, s),
         NEW q \in Sessions, NEW i \in DOMAIN out'[q]
  PROVE  \/ i \in DOMAIN out[q] /\ out'[q][i] = out[q][i]
         \/ /\ q = r
            /\ out'[q][i] = [type |-> type, from |-> s, seq |-> received[s],
                             topic |-> topic[s]]
            /\ \A j \in DOMAIN out'[q] : j <= i
<1>1. CASE q # r
  <2>1. out'[q] = out[q]
    BY <1>1, SendShape
  <2> QED
    BY <2>1
<1>2. CASE q = r
  <2>1. /\ Len(out[r]) \in Nat
        /\ DOMAIN out[r] = 1 .. Len(out[r]) /\ DOMAIN out'[r] = 1 .. Len(out[r]) + 1
        /\ \A k \in 1 .. Len(out[r]) : out'[r][k] = out[r][k]
        /\ out'[r][Len(out[r]) + 1] = [type |-> type, from |-> s, seq |-> received[s],
                                        topic |-> topic[s]]
    BY SendShape
  <2>2. CASE i \in 1 .. Len(out[r])
    BY <1>2, <2>1, <2>2
  <2>3. CASE i = Len(out[r]) + 1
    <3>1. \A j \in DOMAIN out'[q] : j <= i
      BY <1>2, <2>1, <2>3
    <3> QED
      BY <1>2, <2>1, <2>3, <3>1
  <2> QED
    BY <1>2, <2>1, <2>2, <2>3
<1> QED
  BY <1>1, <1>2

LEMMA TypeNames ==
  /\ {"CONNACK", "PUBACK", "SUBACK", "UNSUBACK"} = Acks
  /\ "PUB" \notin Acks
  BY DEF Acks


-----------------------------------------------------------------------------
(* Names.                                                                  *)

\* A session that has its name keeps it, and what proves it, through a Send.
LEMMA NamedSend ==
  ASSUME TypeOK, NEW r \in Sessions, NEW p \in Sessions,
         NEW type \in Acks \cup {"PUB"}, Send(r, type, p),
         NEW s \in Sessions, Named(s), client_id' = client_id, erasing' = erasing,
         client_id[r] # NoClient, \A q \in Sessions : left'[q][s] <= left[q][s],
         left' \in [Sessions -> [Sessions -> Nat]]
  PROVE  Named(s)'
<1>1. CASE client_id[s] = NoClient
  <2>1. out'[s] = out[s]
    BY <1>1, SendShape
  <2>2. \A q \in Sessions : left[q][s] = 0
    BY <1>1 DEF Named
  <2>3. \A q \in Sessions : left'[q][s] = 0
    BY <2>2
  <2> QED
    BY <1>1, <2>1, <2>3 DEF Named
<1>2. CASE client_id[s] # NoClient
  <2>1. PICK i \in DOMAIN out[s] : out[s][i].type = "CONNACK"
    BY <1>2 DEF Named
  <2>2. i \in DOMAIN out'[s] /\ out'[s][i] = out[s][i]
    BY SendKeeps
  <2> QED
    BY <1>2, <2>1, <2>2 DEF Named
<1> QED
  BY <1>1, <1>2

LEMMA NameStep ==
  ASSUME TypeOK, IdentityInv, NameInv, [Next]_vars
  PROVE  NameInv'
<1> SUFFICES ASSUME NEW s \in Sessions PROVE Named(s)'
  BY DEF NameInv
<1>0. /\ step \in [Sessions -> Steps]
      /\ client_id \in [Sessions -> ClientIds \cup {NoClient}]
      /\ new_id \in [Sessions -> ClientIds \cup {NoClient}]
      /\ left \in [Sessions -> [Sessions -> Nat]]
      /\ topic_subscribers \in [Topics -> [Sessions -> Nat]]
      /\ erasing \in [Sessions -> Nat]
      /\ NoClient \notin ClientIds
      /\ Named(s)
  BY BrokerAssumption DEF TypeOK, NameInv
<1>a. \A p \in Sessions : /\ step[p] = "connecting" => new_id[p] \in ClientIds
                          /\ step[p] \in {"suback", "unsuback", "fanout"}
                               => client_id[p] # NoClient
  BY BrokerAssumption DEF IdentityInv, Resting
<1>b. \A t \in Topics : client_id[s] = NoClient => topic_subscribers[t][s] = 0
  BY <1>0 DEF IdentityInv
<1>c. \A q \in Sessions : left[q][s] <= left[q][s]
  BY <1>0
<1>1. ASSUME NEW p \in Sessions, HandlerStep(p) PROVE Named(s)'
  <2>1. CASE AssignIdentity(p)
    <3>1. Send(p, "CONNACK", p) /\ client_id' = [client_id EXCEPT ![p] = new_id[p]]
          /\ new_id[p] \in ClientIds /\ erasing' = erasing /\ left' = left
      BY <2>1, <1>a DEF AssignIdentity, completionVars
    <3>2. CASE s = p
      <4>1. client_id'[s] # NoClient
        BY <1>0, <3>1, <3>2
      <4>2. \E n \in DOMAIN out'[s] : out'[s][n].type = "CONNACK"
        <5>1. "CONNACK" \in Acks \cup {"PUB"}
          BY TypeNames
        <5>2. PICK n \in DOMAIN out'[p] :
                out'[p][n] = [type |-> "CONNACK", from |-> p, seq |-> received[p],
                              topic |-> topic[p]]
          BY <3>1, <5>1, SendLast
        <5> QED
          BY <3>2, <5>2
      <4> QED
        BY <4>1, <4>2 DEF Named
    <3>3. CASE s # p
      <4>1. out'[s] = out[s] /\ client_id'[s] = client_id[s]
        BY <1>0, <3>1, <3>3, SendShape, TypeNames
      <4> QED
        BY <1>0, <3>1, <4>1 DEF Named
    <3> QED
      BY <3>2, <3>3
  <2>2. CASE LookUpClient(p)
    BY <2>2, <1>0 DEF Named, LookUpClient, identityVars, chainVars, completionVars
  <2>3. CASE PurgeOld(p)
    BY <2>3, <1>0 DEF Named, PurgeOld, RemoveEverywhere, identityVars, chainVars,
      completionVars
  <2>4. CASE StoreSession(p)
    BY <2>4, <1>0 DEF Named, StoreSession, ReadNext, identityVars, chainVars,
      completionVars
  <2>5. CASE SendSuback(p)
    <3>1. Send(p, "SUBACK", p) /\ client_id' = client_id /\ erasing' = erasing /\ left' = left
          /\ client_id[p] # NoClient
      BY <2>5, <1>0, <1>a DEF SendSuback, ReadNext, identityVars, completionVars
    <3> QED
      BY <1>0, <1>c, <3>1, NamedSend, TypeNames
  <2>6. CASE SendUnsuback(p)
    <3>1. Send(p, "UNSUBACK", p) /\ client_id' = client_id /\ erasing' = erasing /\ left' = left
          /\ client_id[p] # NoClient
      BY <2>6, <1>0, <1>a DEF SendUnsuback, ReadNext, identityVars, completionVars
    <3> QED
      BY <1>0, <1>c, <3>1, NamedSend, TypeNames
  <2>7. ASSUME NEW x \in Sessions, FanOut(p, x) PROVE Named(s)'
    <3>1. Send(x, "PUB", p) /\ client_id' = client_id /\ erasing' = erasing
          /\ left[p][x] > 0 /\ left' = [left EXCEPT ![p][x] = @ - 1]
      BY <2>7 DEF FanOut, identityVars, completionVars
    <3>2. left' \in [Sessions -> [Sessions -> Nat]]
          /\ \A q \in Sessions : left'[q][s] <= left[q][s]
      BY <1>0, <3>1
    <3>3. client_id[x] # NoClient
      BY <1>0, <3>1 DEF NameInv, Named
    <3> QED
      BY <1>0, <3>1, <3>2, <3>3, NamedSend
  <2>8. CASE SendPuback(p)
    <3>1. Send(p, "PUBACK", p) /\ client_id' = client_id /\ erasing' = erasing /\ left' = left
          /\ client_id[p] # NoClient
      BY <2>8, <1>0, <1>a DEF SendPuback, ReadNext, identityVars, completionVars
    <3> QED
      BY <1>0, <1>c, <3>1, NamedSend, TypeNames
  <2>9. CASE EraseSession(p)
    BY <2>9, <1>0 DEF Named, EraseSession, EraseEntry, identityVars, chainVars,
      completionVars
  <2>10. CASE PurgeSession(p)
    BY <2>10, <1>0 DEF Named, PurgeSession, RemoveEverywhere, identityVars, chainVars,
      completionVars
  <2> QED
    BY <1>1, <2>1, <2>2, <2>3, <2>4, <2>5, <2>6, <2>7, <2>8, <2>9, <2>10 DEF
      HandlerStep
<1>2. ASSUME NEW p \in Sessions, CompletionStep(p) PROVE Named(s)'
  <2>1. CASE CompletionErase(p)
    BY <2>1, <1>0 DEF Named, CompletionErase, EraseEntry, identityVars, chainVars,
      completionVars
  <2>2. CASE CompletionPurge(p)
    BY <2>2, <1>0 DEF Named, CompletionPurge, RemoveEverywhere, identityVars,
      chainVars, completionVars
  <2> QED
    BY <1>2, <2>1, <2>2 DEF CompletionStep
<1>3. ASSUME NEW p \in Sessions, Start(p) PROVE Named(s)'
  <2>1. CASE Accept(p)
    BY <2>1, <1>0 DEF Named, Accept, identityVars, chainVars, completionVars
  <2>2. CASE IgnorePacket(p)
    BY <2>2, <1>0 DEF Named, IgnorePacket, Dispatch, identityVars, chainVars,
      completionVars
  <2>3. CASE RejectConnect(p)
    BY <2>3, <1>0 DEF Named, RejectConnect, Dispatch, identityVars, chainVars,
      completionVars
  <2>4. ASSUME NEW d \in Identity[p], ReceiveConnect(p, d) PROVE Named(s)'
    BY <2>4, <1>0, <1>a DEF Named, ReceiveConnect, Dispatch, identityVars, chainVars,
      completionVars
  <2>5. ASSUME NEW u \in Topics, ReceiveSubscribe(p, u) PROVE Named(s)'
    BY <2>5, <1>0 DEF Named, ReceiveSubscribe, Dispatch, AddSubscriber, identityVars,
      chainVars, completionVars
  <2>6. ASSUME NEW u \in Topics, ReceiveUnsubscribe(p, u) PROVE Named(s)'
    BY <2>6, <1>0 DEF Named, ReceiveUnsubscribe, Dispatch, RemoveSubscriber,
      identityVars, chainVars, completionVars
  <2>7. ASSUME NEW u \in Topics, ReceivePublish(p, u) PROVE Named(s)'
    BY <2>7, <1>0, <1>b DEF Named, ReceivePublish, Dispatch, identityVars, chainVars,
      completionVars
  <2>8. CASE ReadError(p)
    BY <2>8, <1>0 DEF Named, ReadError, identityVars, chainVars, completionVars
  <2>9. CASE WriteFails(p)
    <3>1. CASE s = p /\ client_id[s] = NoClient
      <4>1. failed[s] < Len(out[s]) /\ out[s] = <<>> /\ failed[s] \in Nat
        BY <2>9, <1>0, <3>1 DEF WriteFails, Named, TypeOK
      <4> QED
        BY <4>1
    <3>2. CASE ~(s = p /\ client_id[s] = NoClient)
      <4>1. client_id' = client_id /\ out' = out /\ left' = left
            /\ (s # p => erasing'[s] = erasing[s])
        BY <2>9, <1>0 DEF WriteFails, identityVars, chainVars
      <4> QED
        BY <1>0, <3>2, <4>1 DEF Named
    <3> QED
      BY <3>1, <3>2
  <2> QED
    BY <1>3, <2>1, <2>2, <2>3, <2>4, <2>5, <2>6, <2>7, <2>8, <2>9 DEF Start
<1>4. ASSUME NEW p \in Sessions, PeerCloses(p) PROVE Named(s)'
  BY <1>4, <1>0 DEF Named, PeerCloses, identityVars, chainVars, completionVars
<1>5. CASE Idle \/ UNCHANGED vars
  BY <1>5, <1>0 DEF Named, Idle, vars, identityVars, chainVars, completionVars
<1> QED
  BY <1>1, <1>2, <1>3, <1>4, <1>5 DEF Next

-----------------------------------------------------------------------------
(* The registry's entry of a session that is alone with its id.            *)

\* With one id per connection, a session that has its name keeps it.
LEMMA NameKept ==
  ASSUME TypeOK, IdentityInv, OneIdentity, [Next]_vars,
         NEW s \in Sessions, client_id[s] # NoClient
  PROVE  client_id'[s] = client_id[s]
<1>0. /\ client_id \in [Sessions -> ClientIds \cup {NoClient}]
      /\ step[s] = "connecting" => new_id[s] = client_id[s]
  BY DEF TypeOK, IdentityInv, OneIdentity
<1>1. ASSUME NEW p \in Sessions, HandlerStep(p) PROVE client_id'[s] = client_id[s]
  <2>1. CASE AssignIdentity(p)
    BY <2>1, <1>0 DEF AssignIdentity, identityVars, chainVars, completionVars
  <2>2. CASE LookUpClient(p)
    BY <2>2, <1>0 DEF LookUpClient, identityVars, chainVars, completionVars
  <2>3. CASE PurgeOld(p)
    BY <2>3, <1>0 DEF PurgeOld, RemoveEverywhere, identityVars, chainVars,
      completionVars
  <2>4. CASE StoreSession(p)
    BY <2>4, <1>0 DEF StoreSession, ReadNext, identityVars, chainVars, completionVars
  <2>5. CASE SendSuback(p)
    BY <2>5, <1>0 DEF SendSuback, ReadNext, identityVars, chainVars, completionVars
  <2>6. CASE SendUnsuback(p)
    BY <2>6, <1>0 DEF SendUnsuback, ReadNext, identityVars, chainVars, completionVars
  <2>7. ASSUME NEW x \in Sessions, FanOut(p, x) PROVE client_id'[s] = client_id[s]
    BY <2>7, <1>0 DEF FanOut, identityVars, chainVars, completionVars
  <2>8. CASE SendPuback(p)
    BY <2>8, <1>0 DEF SendPuback, ReadNext, identityVars, chainVars, completionVars
  <2>9. CASE EraseSession(p)
    BY <2>9, <1>0 DEF EraseSession, EraseEntry, identityVars, chainVars,
      completionVars
  <2>10. CASE PurgeSession(p)
    BY <2>10, <1>0 DEF PurgeSession, RemoveEverywhere, identityVars, chainVars,
      completionVars
  <2> QED
    BY <1>1, <2>1, <2>2, <2>3, <2>4, <2>5, <2>6, <2>7, <2>8, <2>9, <2>10 DEF
      HandlerStep
<1>2. ASSUME NEW p \in Sessions, CompletionStep(p) PROVE client_id'[s] = client_id[s]
  <2>1. CASE CompletionErase(p)
    BY <2>1, <1>0 DEF CompletionErase, EraseEntry, identityVars, chainVars,
      completionVars
  <2>2. CASE CompletionPurge(p)
    BY <2>2, <1>0 DEF CompletionPurge, RemoveEverywhere, identityVars, chainVars,
      completionVars
  <2> QED
    BY <1>2, <2>1, <2>2 DEF CompletionStep
<1>3. ASSUME NEW p \in Sessions, Start(p) PROVE client_id'[s] = client_id[s]
  <2>1. CASE Accept(p)
    BY <2>1, <1>0 DEF Accept, identityVars, chainVars, completionVars
  <2>2. CASE IgnorePacket(p)
    BY <2>2, <1>0 DEF IgnorePacket, Dispatch, identityVars, chainVars, completionVars
  <2>3. CASE RejectConnect(p)
    BY <2>3, <1>0 DEF RejectConnect, Dispatch, identityVars, chainVars, completionVars
  <2>4. ASSUME NEW d \in Identity[p], ReceiveConnect(p, d) PROVE client_id'[s] = client_id[s]
    BY <2>4, <1>0 DEF ReceiveConnect, Dispatch, identityVars, chainVars,
      completionVars
  <2>5. ASSUME NEW u \in Topics, ReceiveSubscribe(p, u) PROVE client_id'[s] = client_id[s]
    BY <2>5, <1>0 DEF ReceiveSubscribe, Dispatch, AddSubscriber, identityVars,
      chainVars, completionVars
  <2>6. ASSUME NEW u \in Topics, ReceiveUnsubscribe(p, u) PROVE client_id'[s] = client_id[s]
    BY <2>6, <1>0 DEF ReceiveUnsubscribe, Dispatch, RemoveSubscriber, identityVars,
      chainVars, completionVars
  <2>7. ASSUME NEW u \in Topics, ReceivePublish(p, u) PROVE client_id'[s] = client_id[s]
    BY <2>7, <1>0 DEF ReceivePublish, Dispatch, identityVars, chainVars,
      completionVars
  <2>8. CASE ReadError(p)
    BY <2>8, <1>0 DEF ReadError, identityVars, chainVars, completionVars
  <2>9. CASE WriteFails(p)
    BY <2>9, <1>0 DEF WriteFails, identityVars, chainVars, completionVars
  <2> QED
    BY <1>3, <2>1, <2>2, <2>3, <2>4, <2>5, <2>6, <2>7, <2>8, <2>9 DEF Start
<1>4. ASSUME NEW p \in Sessions, PeerCloses(p) PROVE client_id'[s] = client_id[s]
  BY <1>4, <1>0 DEF PeerCloses, identityVars, chainVars, completionVars
<1>5. CASE Idle \/ UNCHANGED vars
  BY <1>5, <1>0 DEF Idle, vars, identityVars, chainVars, completionVars
<1> QED
  BY <1>1, <1>2, <1>3, <1>4, <1>5 DEF Next

\* Who shares its id with nobody did not before.
LEMMA AloneBefore ==
  ASSUME TypeOK, IdentityInv, OneIdentity, [Next]_vars, NEW s \in Sessions, Alone(s)'
  PROVE  Alone(s)
<1> SUFFICES ASSUME client_id[s] # NoClient, NEW q \in Sessions \ {s},
                    client_id[q] = client_id[s]
             PROVE  FALSE
  BY DEF Alone
<1>1. client_id'[s] = client_id[s] /\ client_id'[q] = client_id[q]
  BY NameKept
<1> QED
  BY <1>1 DEF Alone

\* What is read from client_id_ while it is assigned is the same id, if it is one.
LEMMA ReadableKnown ==
  ASSUME TypeOK, IdentityInv, NameInv, OneIdentity,
         NEW s \in Sessions, erasing[s] > 0, NEW c \in ReadableIds(s)
  PROVE  c \in {client_id[s], NoClient}
<1>1. client_id[s] # NoClient
  BY DEF NameInv, Named, TypeOK
<1>2. step[s] = "connecting" => new_id[s] = client_id[s]
  BY <1>1 DEF IdentityInv, OneIdentity
<1> QED
  BY <1>2 DEF ReadableIds

LEMMA EntryStep ==
  ASSUME TypeOK, LinkInv, IdentityInv, NameInv, EntryInv, [Next]_vars
  PROVE  EntryInv'
<1> SUFFICES ASSUME OneIdentity, NEW s \in Sessions,
                    socket'[s] = "open", Alone(s)', client_id'[s] # NoClient,
                    step'[s] # "connecting", ~Registering(s)'
             PROVE  sessions'[client_id'[s]] = s
  BY DEF EntryInv, HasEntry
<1>0. /\ step \in [Sessions -> Steps]
      /\ socket \in [Sessions -> SocketStates]
      /\ client_id \in [Sessions -> ClientIds \cup {NoClient}]
      /\ sessions \in [ClientIds -> Sessions \cup {NoSession}]
      /\ erasing \in [Sessions -> Nat]
      /\ NoClient \notin ClientIds
  BY BrokerAssumption DEF TypeOK
<1>a. /\ Alone(s)
      /\ \A q \in Sessions \ {s} : client_id[s] # NoClient => client_id[q] # client_id[s]
  BY AloneBefore DEF Alone
<1>b. /\ socket[s] = "open" /\ client_id[s] # NoClient /\ step[s] # "connecting"
         /\ step[s] \notin {"registering", "purging_old", "storing"}
           => sessions[client_id[s]] = s
      /\ step'[s] \notin {"registering", "purging_old", "storing"}
  BY <1>a DEF EntryInv, HasEntry, Registering
<1>c. /\ step[s] = "none" => client_id[s] = NoClient
      /\ step[s] \in {"erasing", "purging", "ended"} \/ erasing[s] > 0 \/ purging[s] > 0
           => socket[s] # "open"
  BY DEF IdentityInv, LinkInv, Leaving
<1>1. ASSUME NEW p \in Sessions, HandlerStep(p) PROVE sessions'[client_id'[s]] = s
  <2>1. CASE AssignIdentity(p)
    BY <2>1, <1>0, <1>b DEF AssignIdentity, identityVars, chainVars, completionVars
  <2>2. CASE LookUpClient(p)
    BY <2>2, <1>0, <1>b DEF LookUpClient, identityVars, chainVars, completionVars
  <2>3. CASE PurgeOld(p)
    BY <2>3, <1>0, <1>b DEF PurgeOld, RemoveEverywhere, identityVars, chainVars,
      completionVars
  <2>4. CASE StoreSession(p)
    BY <2>4, <1>0, <1>b, <1>a DEF StoreSession, ReadNext, identityVars, chainVars,
      completionVars
  <2>5. CASE SendSuback(p)
    BY <2>5, <1>0, <1>b DEF SendSuback, ReadNext, identityVars, chainVars,
      completionVars
  <2>6. CASE SendUnsuback(p)
    BY <2>6, <1>0, <1>b DEF SendUnsuback, ReadNext, identityVars, chainVars,
      completionVars
  <2>7. ASSUME NEW x \in Sessions, FanOut(p, x) PROVE sessions'[client_id'[s]] = s
    BY <2>7, <1>0, <1>b DEF FanOut, identityVars, chainVars, completionVars
  <2>8. CASE SendPuback(p)
    BY <2>8, <1>0, <1>b DEF SendPuback, ReadNext, identityVars, chainVars,
      completionVars
  <2>9. CASE EraseSession(p)
    BY <2>9, <1>0, <1>b, <1>a, <1>c DEF EraseSession, EraseEntry, identityVars,
      chainVars, completionVars
  <2>10. CASE PurgeSession(p)
    BY <2>10, <1>0, <1>b DEF PurgeSession, RemoveEverywhere, identityVars, chainVars,
      completionVars
  <2> QED
    BY <1>1, <2>1, <2>2, <2>3, <2>4, <2>5, <2>6, <2>7, <2>8, <2>9, <2>10 DEF
      HandlerStep
<1>2. ASSUME NEW p \in Sessions, CompletionStep(p) PROVE sessions'[client_id'[s]] = s
  <2>1. CASE CompletionErase(p)
    <3>1. p # s /\ client_id' = client_id /\ socket' = socket /\ step' = step
      BY <2>1, <1>c DEF CompletionErase, identityVars, chainVars
    <3>2. PICK c \in ReadableIds(p) : sessions' = EraseEntry(c)
      BY <2>1 DEF CompletionErase
    <3>3. c \in {client_id[p], NoClient}
      BY <2>1, <3>2, ReadableKnown DEF CompletionErase
    <3>4. c # client_id[s]
      BY <1>a, <3>1, <3>3
    <3> QED
      BY <1>0, <1>b, <3>1, <3>2, <3>4 DEF EraseEntry
  <2>2. CASE CompletionPurge(p)
    BY <2>2, <1>0, <1>b DEF CompletionPurge, RemoveEverywhere, identityVars,
      chainVars, completionVars
  <2> QED
    BY <1>2, <2>1, <2>2 DEF CompletionStep
<1>3. ASSUME NEW p \in Sessions, Start(p) PROVE sessions'[client_id'[s]] = s
  <2>1. CASE Accept(p)
    BY <2>1, <1>0, <1>b, <1>c DEF Accept, identityVars, chainVars, completionVars
  <2>2. CASE IgnorePacket(p)
    BY <2>2, <1>0, <1>b DEF IgnorePacket, Dispatch, identityVars, chainVars,
      completionVars
  <2>3. CASE RejectConnect(p)
    BY <2>3, <1>0, <1>b DEF RejectConnect, Dispatch, identityVars, chainVars,
      completionVars
  <2>4. ASSUME NEW d \in Identity[p], ReceiveConnect(p, d) PROVE sessions'[client_id'[s]] = s
    BY <2>4, <1>0, <1>b DEF ReceiveConnect, Dispatch, identityVars, chainVars,
      completionVars
  <2>5. ASSUME NEW u \in Topics, ReceiveSubscribe(p, u) PROVE sessions'[client_id'[s]] = s
    BY <2>5, <1>0, <1>b DEF ReceiveSubscribe, Dispatch, AddSubscriber, identityVars,
      chainVars, completionVars
  <2>6. ASSUME NEW u \in Topics, ReceiveUnsubscribe(p, u) PROVE sessions'[client_id'[s]] = s
    BY <2>6, <1>0, <1>b DEF ReceiveUnsubscribe, Dispatch, RemoveSubscriber,
      identityVars, chainVars, completionVars
  <2>7. ASSUME NEW u \in Topics, ReceivePublish(p, u) PROVE sessions'[client_id'[s]] = s
    BY <2>7, <1>0, <1>b DEF ReceivePublish, Dispatch, identityVars, chainVars,
      completionVars
  <2>8. CASE ReadError(p)
    BY <2>8, <1>0, <1>b DEF ReadError, identityVars, chainVars, completionVars
  <2>9. CASE WriteFails(p)
    BY <2>9, <1>0, <1>b DEF WriteFails, identityVars, chainVars, completionVars
  <2> QED
    BY <1>3, <2>1, <2>2, <2>3, <2>4, <2>5, <2>6, <2>7, <2>8, <2>9 DEF Start
<1>4. ASSUME NEW p \in Sessions, PeerCloses(p) PROVE sessions'[client_id'[s]] = s
  BY <1>4, <1>0, <1>b DEF PeerCloses, identityVars, chainVars, completionVars
<1>5. CASE Idle \/ UNCHANGED vars
  BY <1>5, <1>0, <1>b DEF Idle, vars, identityVars, chainVars, completionVars
<1> QED
  BY <1>1, <1>2, <1>3, <1>4, <1>5 DEF Next

-----------------------------------------------------------------------------
(* What the acknowledgements said.                                         *)

LEMMA ConnectedOnceBefore ==
  ASSUME TypeOK, NEW s \in Sessions, OneConn(s)',
         out' = out \/ \E r, p \in Sessions : \E type \in Acks \cup {"PUB"} : Send(r, type, p)
  PROVE  OneConn(s)
<1>1. CASE out' = out
  BY <1>1 DEF OneConn
<1>2. CASE \E r, p \in Sessions : \E type \in Acks \cup {"PUB"} : Send(r, type, p)
  <2>1. PICK r \in Sessions, p \in Sessions, type \in Acks \cup {"PUB"} : Send(r, type, p)
    BY <1>2
  <2>2. \A i \in DOMAIN out[s] : i \in DOMAIN out'[s] /\ out'[s][i] = out[s][i]
    BY <2>1, SendKeeps
  <2> QED
    BY <2>2 DEF OneConn
<1> QED
  BY <1>1, <1>2

LEMMA AcknowledgedKept ==
  ASSUME NEW s \in Sessions, NEW t \in Topics, out'[s] = out[s]
  PROVE  Acknowledged(s, t)' <=> Acknowledged(s, t)
  BY DEF Acknowledged

\* Of a new packet, only SUBACK and UNSUBACK for t say something about t.
LEMMA AcknowledgedSend ==
  ASSUME TypeOK, NEW p \in Sessions, NEW s \in Sessions, NEW t \in Topics,
         NEW type \in Acks \cup {"PUB"}, Send(s, type, p)
  PROVE  /\ type = "SUBACK" /\ topic[p] = t => Acknowledged(s, t)'
         /\ type = "UNSUBACK" /\ topic[p] = t => ~Acknowledged(s, t)'
         /\ ~(type \in {"SUBACK", "UNSUBACK"} /\ topic[p] = t)
              => (Acknowledged(s, t)' <=> Acknowledged(s, t))
<1> DEFINE e == [type |-> type, from |-> p, seq |-> received[p], topic |-> topic[p]]
<1>1. PICK n \in DOMAIN out'[s] : (\A i \in DOMAIN out[s] : i < n) /\ out'[s][n] = e
  BY SendLast
<1>2. \A i \in DOMAIN out[s] : i \in DOMAIN out'[s] /\ out'[s][i] = out[s][i]
  BY SendKeeps
<1>3. \A i \in DOMAIN out'[s] :
        \/ i \in DOMAIN out[s] /\ out'[s][i] = out[s][i]
        \/ out'[s][i] = e /\ \A j \in DOMAIN out'[s] : j <= i
  BY SendSplit
<1>4. e.type = type /\ e.topic = topic[p]
  OBVIOUS
<1>5. \A i, j \in DOMAIN out'[s] : i \in Int /\ j \in Int
  <2>1. out' \in [Sessions -> Seq(Packet)]
    BY SendTypes
  <2> QED
    BY <2>1
<1> HIDE DEF e
<1>6. ASSUME type = "SUBACK", topic[p] = t PROVE Acknowledged(s, t)'
  <2>1. \A j \in DOMAIN out'[s] :
          j > n => ~(out'[s][j].type = "UNSUBACK" /\ out'[s][j].topic = t)
    BY <1>1, <1>3, <1>4, <1>5, <1>6
  <2> QED
    BY <1>1, <1>4, <1>6, <2>1 DEF Acknowledged
<1>7. ASSUME type = "UNSUBACK", topic[p] = t, Acknowledged(s, t)' PROVE FALSE
  <2>1. PICK i \in DOMAIN out'[s] :
          /\ out'[s][i].type = "SUBACK" /\ out'[s][i].topic = t
          /\ \A j \in DOMAIN out'[s] :
               j > i => ~(out'[s][j].type = "UNSUBACK" /\ out'[s][j].topic = t)
    BY <1>7 DEF Acknowledged
  <2>2. i \in DOMAIN out[s]
    BY <1>3, <1>4, <1>7, <2>1
  <2>3. n > i
    BY <1>1, <1>2, <1>5, <2>2
  <2> QED
    BY <1>1, <1>4, <1>7, <2>1, <2>3
<1>8. ASSUME ~(type \in {"SUBACK", "UNSUBACK"} /\ topic[p] = t)
      PROVE  Acknowledged(s, t)' <=> Acknowledged(s, t)
  <2>1. ASSUME Acknowledged(s, t)' PROVE Acknowledged(s, t)
    <3>1. PICK i \in DOMAIN out'[s] :
            /\ out'[s][i].type = "SUBACK" /\ out'[s][i].topic = t
            /\ \A j \in DOMAIN out'[s] :
                 j > i => ~(out'[s][j].type = "UNSUBACK" /\ out'[s][j].topic = t)
      BY <2>1 DEF Acknowledged
    <3>2. i \in DOMAIN out[s] /\ out'[s][i] = out[s][i]
      BY <1>3, <1>4, <1>8, <3>1
    <3>3. ASSUME NEW j \in DOMAIN out[s], j > i
          PROVE  ~(out[s][j].type = "UNSUBACK" /\ out[s][j].topic = t)
      BY <1>2, <3>1, <3>3
    <3> QED
      BY <3>1, <3>2, <3>3 DEF Acknowledged
  <2>2. ASSUME Acknowledged(s, t) PROVE Acknowledged(s, t)'
    <3>1. PICK i \in DOMAIN out[s] :
            /\ out[s][i].type = "SUBACK" /\ out[s][i].topic = t
            /\ \A j \in DOMAIN out[s] :
                 j > i => ~(out[s][j].type = "UNSUBACK" /\ out[s][j].topic = t)
      BY <2>2 DEF Acknowledged
    <3>2. i \in DOMAIN out'[s] /\ out'[s][i] = out[s][i]
      BY <1>2
    <3>3. ASSUME NEW j \in DOMAIN out'[s], j > i
          PROVE  ~(out'[s][j].type = "UNSUBACK" /\ out'[s][j].topic = t)
      <4>1. CASE j \in DOMAIN out[s] /\ out'[s][j] = out[s][j]
        BY <3>1, <3>3, <4>1
      <4>2. CASE out'[s][j] = e
        BY <1>4, <1>8, <4>2
      <4> QED
        BY <1>3, <4>1, <4>2
    <3> QED
      BY <3>1, <3>2, <3>3 DEF Acknowledged
  <2> QED
    BY <2>1, <2>2
<1> QED
  BY <1>6, <1>7, <1>8

\* Who sends what to whom.
SendsRightly(q, p, type) ==
  /\ Send(q, type, p)
  /\ type \in Acks => q = p
  /\ type = "PUB" => step[p] = "fanout" /\ left[p][q] > 0 /\ left'[p][q] = left[p][q] - 1
  /\ type = "SUBACK" => step[p] = "suback"
  /\ type = "UNSUBACK" => step[p] = "unsuback"

LEMMA SendFacts ==
  ASSUME TypeOK, [Next]_vars
  PROVE  \/ out' = out
         \/ \E q, p \in Sessions : \E type \in Acks \cup {"PUB"} : SendsRightly(q, p, type)
<1> DEFINE Goal == \/ out' = out
                   \/ \E q, p \in Sessions : \E type \in Acks \cup {"PUB"} :
                        SendsRightly(q, p, type)
<1> SUFFICES Goal
  OBVIOUS
<1>0. left \in [Sessions -> [Sessions -> Nat]]
  BY DEF TypeOK
<1>1. ASSUME NEW p \in Sessions, HandlerStep(p) PROVE Goal
  <2>1. CASE AssignIdentity(p)
    <3>1. SendsRightly(p, p, "CONNACK")
      BY <2>1, TypeNames DEF SendsRightly, AssignIdentity
    <3> QED
      BY <3>1, TypeNames
  <2>2. CASE LookUpClient(p)
    BY <2>2, <1>0 DEF LookUpClient, identityVars, chainVars, completionVars
  <2>3. CASE PurgeOld(p)
    BY <2>3, <1>0 DEF PurgeOld, RemoveEverywhere, identityVars, chainVars,
      completionVars
  <2>4. CASE StoreSession(p)
    BY <2>4, <1>0 DEF StoreSession, ReadNext, identityVars, chainVars, completionVars
  <2>5. CASE SendSuback(p)
    <3>1. SendsRightly(p, p, "SUBACK")
      BY <2>5, TypeNames DEF SendsRightly, SendSuback
    <3> QED
      BY <3>1, TypeNames
  <2>6. CASE SendUnsuback(p)
    <3>1. SendsRightly(p, p, "UNSUBACK")
      BY <2>6, TypeNames DEF SendsRightly, SendUnsuback
    <3> QED
      BY <3>1, TypeNames
  <2>7. ASSUME NEW x \in Sessions, FanOut(p, x) PROVE Goal
    <3>1. SendsRightly(x, p, "PUB")
      BY <2>7, <1>0, TypeNames DEF SendsRightly, FanOut
    <3> QED
      BY <3>1
  <2>8. CASE SendPuback(p)
    <3>1. SendsRightly(p, p, "PUBACK")
      BY <2>8, TypeNames DEF SendsRightly, SendPuback
    <3> QED
      BY <3>1, TypeNames
  <2>9. CASE EraseSession(p)
    BY <2>9, <1>0 DEF EraseSession, EraseEntry, identityVars, chainVars,
      completionVars
  <2>10. CASE PurgeSession(p)
    BY <2>10, <1>0 DEF PurgeSession, RemoveEverywhere, identityVars, chainVars,
      completionVars
  <2> QED
    BY <1>1, <2>1, <2>2, <2>3, <2>4, <2>5, <2>6, <2>7, <2>8, <2>9, <2>10 DEF
      HandlerStep
<1>2. ASSUME NEW p \in Sessions, CompletionStep(p) PROVE Goal
  <2>1. CASE CompletionErase(p)
    BY <2>1, <1>0 DEF CompletionErase, EraseEntry, identityVars, chainVars,
      completionVars
  <2>2. CASE CompletionPurge(p)
    BY <2>2, <1>0 DEF CompletionPurge, RemoveEverywhere, identityVars, chainVars,
      completionVars
  <2> QED
    BY <1>2, <2>1, <2>2 DEF CompletionStep
<1>3. ASSUME NEW p \in Sessions, Start(p) PROVE Goal
  <2>1. CASE Accept(p)
    BY <2>1, <1>0 DEF Accept, identityVars, chainVars, completionVars
  <2>2. CASE IgnorePacket(p)
    BY <2>2, <1>0 DEF IgnorePacket, Dispatch, identityVars, chainVars, completionVars
  <2>3. CASE RejectConnect(p)
    BY <2>3, <1>0 DEF RejectConnect, Dispatch, identityVars, chainVars, completionVars
  <2>4. ASSUME NEW d \in Identity[p], ReceiveConnect(p, d) PROVE Goal
    BY <2>4, <1>0 DEF ReceiveConnect, Dispatch, identityVars, chainVars,
      completionVars
  <2>5. ASSUME NEW u \in Topics, ReceiveSubscribe(p, u) PROVE Goal
    BY <2>5, <1>0 DEF ReceiveSubscribe, Dispatch, AddSubscriber, identityVars,
      chainVars, completionVars
  <2>6. ASSUME NEW u \in Topics, ReceiveUnsubscribe(p, u) PROVE Goal
    BY <2>6, <1>0 DEF ReceiveUnsubscribe, Dispatch, RemoveSubscriber, identityVars,
      chainVars, completionVars
  <2>7. ASSUME NEW u \in Topics, ReceivePublish(p, u) PROVE Goal
    BY <2>7, <1>0 DEF ReceivePublish, Dispatch, identityVars, chainVars,
      completionVars
  <2>8. CASE ReadError(p)
    BY <2>8, <1>0 DEF ReadError, identityVars, chainVars, completionVars
  <2>9. CASE WriteFails(p)
    BY <2>9, <1>0 DEF WriteFails, identityVars, chainVars, completionVars
  <2> QED
    BY <1>3, <2>1, <2>2, <2>3, <2>4, <2>5, <2>6, <2>7, <2>8, <2>9 DEF Start
<1>4. ASSUME NEW p \in Sessions, PeerCloses(p) PROVE Goal
  BY <1>4, <1>0 DEF PeerCloses, identityVars, chainVars, completionVars
<1>5. CASE Idle \/ UNCHANGED vars
  BY <1>5, <1>0 DEF Idle, vars, identityVars, chainVars, completionVars
<1> QED
  BY <1>1, <1>2, <1>3, <1>4, <1>5 DEF Next

\* What an invariant of a session s that is up, alone and connected once may use.
LEMMA ToldBefore ==
  ASSUME TypeOK, LinkInv, IdentityInv, TopicInv, ToldInv, OneIdentity, [Next]_vars,
         NEW s \in Sessions, Alone(s)', OneConn(s)'
  PROVE  /\ \A q \in Sessions \ {s} : client_id[s] # NoClient => client_id[q] # client_id[s]
         /\ socket[s] = "open" => AsTold(s) /\ Alone(s) /\ OneConn(s)
         /\ step[s] = "none" => client_id[s] = NoClient
         /\ step[s] \in {"erasing", "purging", "ended"} \/ erasing[s] > 0 \/ purging[s] > 0
              => socket[s] # "open"
         /\ \A t \in Topics : /\ topic_subscribers[t][s] \in {0, 1}
                              /\ client_id[s] = NoClient => topic_subscribers[t][s] = 0
         /\ \A c \in ClientIds : sessions[c] = s => client_id[s] = c
<1>1. Alone(s)
  BY AloneBefore
<1>2. OneConn(s)
  <2>1. out' = out \/ \E r, p \in Sessions : \E type \in Acks \cup {"PUB"} : Send(r, type, p)
    BY SendFacts DEF SendsRightly
  <2> QED
    BY <2>1, ConnectedOnceBefore
<1>3. AsTold(s)
  BY DEF ToldInv
<1>4. \A q \in Sessions \ {s} : client_id[s] # NoClient => client_id[q] # client_id[s]
  BY <1>1 DEF Alone
<1>5. /\ step[s] = "none" => client_id[s] = NoClient
      /\ step[s] \in {"erasing", "purging", "ended"} \/ erasing[s] > 0 \/ purging[s] > 0
           => socket[s] # "open"
  BY DEF IdentityInv, LinkInv, Leaving
<1>6. \A t \in Topics : /\ topic_subscribers[t][s] \in {0, 1}
                        /\ client_id[s] = NoClient => topic_subscribers[t][s] = 0
  BY DEF TopicInv, IdentityInv, TypeOK
<1>7. \A c \in ClientIds : sessions[c] = s => client_id[s] = c
  BY BrokerAssumption DEF IdentityInv, OneIdentity
<1> QED
  BY <1>1, <1>2, <1>3, <1>4, <1>5, <1>6, <1>7

\* While its only CONN registers s, no entry leads to s.
LEMMA RegisteringStep ==
  ASSUME TypeOK, LinkInv, IdentityInv, TopicInv, NameInv, ToldInv, OneIdentity, [Next]_vars,
         NEW s \in Sessions, socket'[s] = "open", Alone(s)', OneConn(s)', Registering(s)',
         NEW c \in ClientIds
  PROVE  sessions'[c] # s
<1>0. /\ step \in [Sessions -> Steps]
      /\ client_id \in [Sessions -> ClientIds \cup {NoClient}]
      /\ sessions \in [ClientIds -> Sessions \cup {NoSession}]
      /\ NoClient \notin ClientIds /\ NoSession \notin Sessions
      /\ step'[s] \in {"registering", "purging_old", "storing"}
  BY BrokerAssumption DEF TypeOK, Registering
<1>a. /\ socket[s] = "open" => AsTold(s) /\ Alone(s) /\ OneConn(s)
      /\ step[s] = "none" => client_id[s] = NoClient
      /\ \A d \in ClientIds : sessions[d] = s => client_id[s] = d
  BY ToldBefore
<1>b. socket[s] = "open" /\ step[s] \in {"registering", "purging_old", "storing"}
        => sessions[c] # s
  BY <1>a DEF AsTold, Registering
<1>1. ASSUME NEW p \in Sessions, HandlerStep(p) PROVE sessions'[c] # s
  <2>1. CASE AssignIdentity(p)
    <3>1. CASE p = s
      <4>1. Send(s, "CONNACK", s) /\ sessions' = sessions
        BY <2>1, <3>1 DEF AssignIdentity
      <4>2. CASE client_id[s] # NoClient
        <5>1. PICK i \in DOMAIN out[s] : out[s][i].type = "CONNACK"
          BY <4>2 DEF NameInv, Named
        <5>2. i \in DOMAIN out'[s] /\ out'[s][i] = out[s][i]
          BY <4>1, TypeNames, SendKeeps
        <5>3. "CONNACK" \in Acks \cup {"PUB"}
          BY TypeNames
        <5>4. PICK n \in DOMAIN out'[s] :
                /\ \A k \in DOMAIN out[s] : k < n
                /\ out'[s][n] = [type |-> "CONNACK", from |-> s, seq |-> received[s],
                                 topic |-> topic[s]]
          BY <4>1, <5>3, SendLast
        <5>5. n = i
          BY <5>1, <5>2, <5>4 DEF OneConn
        <5>6. out[s] \in Seq(Packet)
          BY DEF TypeOK
        <5> QED
          BY <5>4, <5>5, <5>6
      <4>3. CASE client_id[s] = NoClient
        BY <1>0, <1>a, <4>1, <4>3
      <4> QED
        BY <4>2, <4>3
    <3>2. CASE p # s
      BY <2>1, <1>0, <1>b, <3>2 DEF AssignIdentity
    <3> QED
      BY <3>1, <3>2
  <2>2. CASE LookUpClient(p)
    BY <2>2, <1>0, <1>b DEF LookUpClient, identityVars, chainVars, completionVars
  <2>3. CASE PurgeOld(p)
    BY <2>3, <1>0, <1>b DEF PurgeOld, RemoveEverywhere, identityVars, chainVars,
      completionVars
  <2>4. CASE StoreSession(p)
    BY <2>4, <1>0, <1>b DEF StoreSession, ReadNext, identityVars, chainVars,
      completionVars
  <2>5. CASE SendSuback(p)
    BY <2>5, <1>0, <1>b DEF SendSuback, ReadNext, identityVars, chainVars,
      completionVars
  <2>6. CASE SendUnsuback(p)
    BY <2>6, <1>0, <1>b DEF SendUnsuback, ReadNext, identityVars, chainVars,
      completionVars
  <2>7. ASSUME NEW x \in Sessions, FanOut(p, x) PROVE sessions'[c] # s
    BY <2>7, <1>0, <1>b DEF FanOut, identityVars, chainVars, completionVars
  <2>8. CASE SendPuback(p)
    BY <2>8, <1>0, <1>b DEF SendPuback, ReadNext, identityVars, chainVars,
      completionVars
  <2>9. CASE EraseSession(p)
    BY <2>9, <1>0, <1>b DEF EraseSession, EraseEntry, identityVars, chainVars,
      completionVars
  <2>10. CASE PurgeSession(p)
    BY <2>10, <1>0, <1>b DEF PurgeSession, RemoveEverywhere, identityVars, chainVars,
      completionVars
  <2> QED
    BY <1>1, <2>1, <2>2, <2>3, <2>4, <2>5, <2>6, <2>7, <2>8, <2>9, <2>10 DEF
      HandlerStep
<1>2. ASSUME NEW p \in Sessions, CompletionStep(p) PROVE sessions'[c] # s
  <2>1. CASE CompletionErase(p)
    BY <2>1, <1>0, <1>b DEF CompletionErase, EraseEntry, identityVars, chainVars,
      completionVars
  <2>2. CASE CompletionPurge(p)
    BY <2>2, <1>0, <1>b DEF CompletionPurge, RemoveEverywhere, identityVars,
      chainVars, completionVars
  <2> QED
    BY <1>2, <2>1, <2>2 DEF CompletionStep
<1>3. ASSUME NEW p \in Sessions, Start(p) PROVE sessions'[c] # s
  <2>1. CASE Accept(p)
    BY <2>1, <1>0, <1>b DEF Accept, identityVars, chainVars, completionVars
  <2>2. CASE IgnorePacket(p)
    BY <2>2, <1>0, <1>b DEF IgnorePacket, Dispatch, identityVars, chainVars,
      completionVars
  <2>3. CASE RejectConnect(p)
    BY <2>3, <1>0, <1>b DEF RejectConnect, Dispatch, identityVars, chainVars,
      completionVars
  <2>4. ASSUME NEW d \in Identity[p], ReceiveConnect(p, d) PROVE sessions'[c] # s
    BY <2>4, <1>0, <1>b DEF ReceiveConnect, Dispatch, identityVars, chainVars,
      completionVars
  <2>5. ASSUME NEW u \in Topics, ReceiveSubscribe(p, u) PROVE sessions'[c] # s
    BY <2>5, <1>0, <1>b DEF ReceiveSubscribe, Dispatch, AddSubscriber, identityVars,
      chainVars, completionVars
  <2>6. ASSUME NEW u \in Topics, ReceiveUnsubscribe(p, u) PROVE sessions'[c] # s
    BY <2>6, <1>0, <1>b DEF ReceiveUnsubscribe, Dispatch, RemoveSubscriber,
      identityVars, chainVars, completionVars
  <2>7. ASSUME NEW u \in Topics, ReceivePublish(p, u) PROVE sessions'[c] # s
    BY <2>7, <1>0, <1>b DEF ReceivePublish, Dispatch, identityVars, chainVars,
      completionVars
  <2>8. CASE ReadError(p)
    BY <2>8, <1>0, <1>b DEF ReadError, identityVars, chainVars, completionVars
  <2>9. CASE WriteFails(p)
    BY <2>9, <1>0, <1>b DEF WriteFails, identityVars, chainVars, completionVars
  <2> QED
    BY <1>3, <2>1, <2>2, <2>3, <2>4, <2>5, <2>6, <2>7, <2>8, <2>9 DEF Start
<1>4. ASSUME NEW p \in Sessions, PeerCloses(p) PROVE sessions'[c] # s
  BY <1>4, <1>0, <1>b DEF PeerCloses, identityVars, chainVars, completionVars
<1>5. CASE Idle \/ UNCHANGED vars
  BY <1>5, <1>0, <1>b DEF Idle, vars, identityVars, chainVars, completionVars
<1> QED
  BY <1>1, <1>2, <1>3, <1>4, <1>5 DEF Next

\* The table goes on saying what s was told: only its own handlers change its entries,
\* for its own removal needs a lost connection, and another session's CONN its id.
LEMMA TableStep ==
  ASSUME TypeOK, LinkInv, IdentityInv, MutexInv, TopicInv, NameInv, ToldInv, OneIdentity,
         [Next]_vars,
         NEW s \in Sessions, socket'[s] = "open", Alone(s)', OneConn(s)', NEW t \in Topics
  PROVE  topic_subscribers'[t][s] = IF Told(s, t)' THEN 1 ELSE 0
<1> DEFINE Goal == topic_subscribers'[t][s] = IF Told(s, t)' THEN 1 ELSE 0
<1> SUFFICES Goal
  OBVIOUS
<1>0. /\ step \in [Sessions -> Steps]
      /\ socket \in [Sessions -> SocketStates]
      /\ topic \in [Sessions -> Topics \cup {NoTopic}]
      /\ topic_subscribers \in [Topics -> [Sessions -> Nat]]
      /\ NoTopic \notin Topics
  BY BrokerAssumption DEF TypeOK
<1>a. /\ \A q \in Sessions \ {s} : client_id[s] # NoClient => client_id[q] # client_id[s]
      /\ step[s] = "none" => client_id[s] = NoClient
      /\ step[s] \in {"erasing", "purging", "ended"} \/ erasing[s] > 0 \/ purging[s] > 0
           => socket[s] # "open"
      /\ topic_subscribers[t][s] \in {0, 1}
      /\ client_id[s] = NoClient => topic_subscribers[t][s] = 0 /\ ~Acknowledged(s, t)
  <2>1. client_id[s] = NoClient => ~Acknowledged(s, t)
    BY DEF NameInv, Named, Acknowledged
  <2> QED
    BY <2>1, ToldBefore
<1>b. socket[s] = "open" =>
        topic_subscribers[t][s] = IF Told(s, t) THEN 1 ELSE 0
  BY ToldBefore DEF AsTold
<1>c. out'[s] = out[s] => (Acknowledged(s, t)' <=> Acknowledged(s, t))
  BY AcknowledgedKept
<1>1. ASSUME NEW p \in Sessions, HandlerStep(p) PROVE Goal
  <2>1. CASE AssignIdentity(p)
    <3>1. Send(p, "CONNACK", p) /\ "CONNACK" \in Acks \cup {"PUB"}
      BY <2>1, TypeNames DEF AssignIdentity
    <3>2. CASE p = s
      <4>1. /\ "CONNACK" = "SUBACK" /\ topic[s] = t => Acknowledged(s, t)'
            /\ "CONNACK" = "UNSUBACK" /\ topic[s] = t => ~Acknowledged(s, t)'
            /\ ~("CONNACK" \in {"SUBACK", "UNSUBACK"} /\ topic[s] = t)
                 => (Acknowledged(s, t)' <=> Acknowledged(s, t))
        BY <3>1, <3>2, AcknowledgedSend
      <4> QED
        BY <2>1, <1>0, <1>b, <3>2, <4>1 DEF Told, AssignIdentity, ReadNext, identityVars, completionVars
    <3>3. CASE p # s
      <4>1. out'[s] = out[s]
        BY <3>1, <3>3, SendShape
      <4> QED
        BY <2>1, <1>0, <1>b, <1>c, <3>3, <4>1 DEF Told, AssignIdentity, ReadNext, identityVars,
          completionVars
    <3> QED
      BY <3>2, <3>3
  <2>2. CASE LookUpClient(p)
    BY <2>2, <1>0, <1>b, <1>c DEF Told, LookUpClient, identityVars, chainVars,
      completionVars
  <2>3. CASE PurgeOld(p)
    <3>1. old[p] # s
      <4>1. /\ sessions[client_id[p]] = old[p] /\ client_id[p] \in ClientIds
        BY <2>3, BrokerAssumption DEF MutexInv, IdentityInv, PurgeOld, Resting
      <4>2. CASE p = s
        <5>1. socket[s] = "open" /\ Registering(s)
          BY <2>3, <4>2 DEF PurgeOld, Registering
        <5> QED
          BY <4>1, <4>2, <5>1, ToldBefore DEF AsTold
      <4>3. CASE p # s
        <5>1. ASSUME old[p] = s PROVE FALSE
          <6>1. client_id[s] = client_id[p] /\ client_id[s] # NoClient
            BY <4>1, <5>1, ToldBefore, BrokerAssumption
          <6> QED
            BY <1>a, <4>3, <6>1
        <5> QED
          BY <5>1
      <4> QED
        BY <4>2, <4>3
    <3>2. topic_subscribers'[t][s] = topic_subscribers[t][s]
      BY <2>3, <1>0, <3>1 DEF PurgeOld, RemoveEverywhere
    <3> QED
      BY <2>3, <1>0, <1>b, <1>c, <3>2 DEF Told, PurgeOld, identityVars, chainVars, completionVars
  <2>4. CASE StoreSession(p)
    BY <2>4, <1>0, <1>b, <1>c DEF Told, StoreSession, ReadNext, identityVars,
      chainVars, completionVars
  <2>5. CASE SendSuback(p)
    <3>1. Send(p, "SUBACK", p) /\ "SUBACK" \in Acks \cup {"PUB"}
      BY <2>5, TypeNames DEF SendSuback
    <3>2. CASE p = s
      <4>1. /\ "SUBACK" = "SUBACK" /\ topic[s] = t => Acknowledged(s, t)'
            /\ "SUBACK" = "UNSUBACK" /\ topic[s] = t => ~Acknowledged(s, t)'
            /\ ~("SUBACK" \in {"SUBACK", "UNSUBACK"} /\ topic[s] = t)
                 => (Acknowledged(s, t)' <=> Acknowledged(s, t))
        BY <3>1, <3>2, AcknowledgedSend
      <4> QED
        BY <2>5, <1>0, <1>b, <3>2, <4>1 DEF Told, SendSuback, ReadNext, identityVars, completionVars
    <3>3. CASE p # s
      <4>1. out'[s] = out[s]
        BY <3>1, <3>3, SendShape
      <4> QED
        BY <2>5, <1>0, <1>b, <1>c, <3>3, <4>1 DEF Told, SendSuback, ReadNext, identityVars,
          completionVars
    <3> QED
      BY <3>2, <3>3
  <2>6. CASE SendUnsuback(p)
    <3>1. Send(p, "UNSUBACK", p) /\ "UNSUBACK" \in Acks \cup {"PUB"}
      BY <2>6, TypeNames DEF SendUnsuback
    <3>2. CASE p = s
      <4>1. /\ "UNSUBACK" = "SUBACK" /\ topic[s] = t => Acknowledged(s, t)'
            /\ "UNSUBACK" = "UNSUBACK" /\ topic[s] = t => ~Acknowledged(s, t)'
            /\ ~("UNSUBACK" \in {"SUBACK", "UNSUBACK"} /\ topic[s] = t)
                 => (Acknowledged(s, t)' <=> Acknowledged(s, t))
        BY <3>1, <3>2, AcknowledgedSend
      <4> QED
        BY <2>6, <1>0, <1>b, <3>2, <4>1 DEF Told, SendUnsuback, ReadNext, identityVars, completionVars
    <3>3. CASE p # s
      <4>1. out'[s] = out[s]
        BY <3>1, <3>3, SendShape
      <4> QED
        BY <2>6, <1>0, <1>b, <1>c, <3>3, <4>1 DEF Told, SendUnsuback, ReadNext, identityVars,
          completionVars
    <3> QED
      BY <3>2, <3>3
  <2>7. ASSUME NEW x \in Sessions, FanOut(p, x) PROVE Goal
    <3>1. Send(x, "PUB", p)
      BY <2>7 DEF FanOut
    <3>2. Acknowledged(s, t)' <=> Acknowledged(s, t)
      <4>1. CASE x = s
        BY <3>1, <4>1, AcknowledgedSend
      <4>2. CASE x # s
        <5>1. out'[s] = out[s]
          BY <3>1, <4>2, SendShape
        <5> QED
          BY <5>1, <1>c
      <4> QED
        BY <4>1, <4>2
    <3> QED
      BY <2>7, <1>0, <1>b, <3>2 DEF Told, FanOut, identityVars, completionVars
  <2>8. CASE SendPuback(p)
    <3>1. Send(p, "PUBACK", p) /\ "PUBACK" \in Acks \cup {"PUB"}
      BY <2>8, TypeNames DEF SendPuback
    <3>2. CASE p = s
      <4>1. /\ "PUBACK" = "SUBACK" /\ topic[s] = t => Acknowledged(s, t)'
            /\ "PUBACK" = "UNSUBACK" /\ topic[s] = t => ~Acknowledged(s, t)'
            /\ ~("PUBACK" \in {"SUBACK", "UNSUBACK"} /\ topic[s] = t)
                 => (Acknowledged(s, t)' <=> Acknowledged(s, t))
        BY <3>1, <3>2, AcknowledgedSend
      <4> QED
        BY <2>8, <1>0, <1>b, <3>2, <4>1 DEF Told, SendPuback, ReadNext, identityVars, completionVars
    <3>3. CASE p # s
      <4>1. out'[s] = out[s]
        BY <3>1, <3>3, SendShape
      <4> QED
        BY <2>8, <1>0, <1>b, <1>c, <3>3, <4>1 DEF Told, SendPuback, ReadNext, identityVars,
          completionVars
    <3> QED
      BY <3>2, <3>3
  <2>9. CASE EraseSession(p)
    BY <2>9, <1>0, <1>b, <1>c DEF Told, EraseSession, EraseEntry, identityVars,
      chainVars, completionVars
  <2>10. CASE PurgeSession(p)
    BY <2>10, <1>0, <1>b, <1>c, <1>a DEF Told, PurgeSession, RemoveEverywhere,
      identityVars, chainVars, completionVars
  <2> QED
    BY <1>1, <2>1, <2>2, <2>3, <2>4, <2>5, <2>6, <2>7, <2>8, <2>9, <2>10 DEF
      HandlerStep
<1>2. ASSUME NEW p \in Sessions, CompletionStep(p) PROVE Goal
  <2>1. CASE CompletionErase(p)
    BY <2>1, <1>0, <1>b, <1>c DEF Told, CompletionErase, EraseEntry, identityVars,
      chainVars, completionVars
  <2>2. CASE CompletionPurge(p)
    BY <2>2, <1>0, <1>b, <1>c, <1>a DEF Told, CompletionPurge, RemoveEverywhere,
      identityVars, chainVars, completionVars
  <2> QED
    BY <1>2, <2>1, <2>2 DEF CompletionStep
<1>3. ASSUME NEW p \in Sessions, Start(p) PROVE Goal
  <2>1. CASE Accept(p)
    BY <2>1, <1>0, <1>b, <1>c, <1>a DEF Told, Accept, identityVars, chainVars,
      completionVars
  <2>2. CASE IgnorePacket(p)
    BY <2>2, <1>0, <1>b, <1>c DEF Told, IgnorePacket, Dispatch, identityVars,
      chainVars, completionVars
  <2>3. CASE RejectConnect(p)
    BY <2>3, <1>0, <1>b, <1>c DEF Told, RejectConnect, Dispatch, identityVars,
      chainVars, completionVars
  <2>4. ASSUME NEW d \in Identity[p], ReceiveConnect(p, d) PROVE Goal
    BY <2>4, <1>0, <1>b, <1>c DEF Told, ReceiveConnect, Dispatch, identityVars,
      chainVars, completionVars
  <2>5. ASSUME NEW u \in Topics, ReceiveSubscribe(p, u) PROVE Goal
    BY <2>5, <1>0, <1>b, <1>c, <1>a DEF Told, ReceiveSubscribe, Dispatch,
      AddSubscriber, identityVars, chainVars, completionVars
  <2>6. ASSUME NEW u \in Topics, ReceiveUnsubscribe(p, u) PROVE Goal
    BY <2>6, <1>0, <1>b, <1>c DEF Told, ReceiveUnsubscribe, Dispatch,
      RemoveSubscriber, identityVars, chainVars, completionVars
  <2>7. ASSUME NEW u \in Topics, ReceivePublish(p, u) PROVE Goal
    BY <2>7, <1>0, <1>b, <1>c DEF Told, ReceivePublish, Dispatch, identityVars,
      chainVars, completionVars
  <2>8. CASE ReadError(p)
    BY <2>8, <1>0, <1>b, <1>c DEF Told, ReadError, identityVars, chainVars,
      completionVars
  <2>9. CASE WriteFails(p)
    BY <2>9, <1>0, <1>b, <1>c DEF Told, WriteFails, identityVars, chainVars,
      completionVars
  <2> QED
    BY <1>3, <2>1, <2>2, <2>3, <2>4, <2>5, <2>6, <2>7, <2>8, <2>9 DEF Start
<1>4. ASSUME NEW p \in Sessions, PeerCloses(p) PROVE Goal
  BY <1>4, <1>0, <1>b, <1>c DEF Told, PeerCloses, identityVars, chainVars,
    completionVars
<1>5. CASE Idle \/ UNCHANGED vars
  BY <1>5, <1>0, <1>b, <1>c DEF Told, Idle, vars, identityVars, chainVars,
    completionVars
<1> QED
  BY <1>1, <1>2, <1>3, <1>4, <1>5 DEF Next

LEMMA ToldStep ==
  ASSUME TypeOK, LinkInv, IdentityInv, MutexInv, TopicInv, NameInv, ToldInv, [Next]_vars
  PROVE  ToldInv'
<1> SUFFICES ASSUME OneIdentity, NEW s \in Sessions,
                    socket'[s] = "open", Alone(s)', OneConn(s)'
             PROVE  /\ \A t \in Topics :
                         topic_subscribers'[t][s] = IF Told(s, t)' THEN 1 ELSE 0
                    /\ Registering(s)' => \A c \in ClientIds : sessions'[c] # s
  BY DEF ToldInv, AsTold
<1>1. \A t \in Topics : topic_subscribers'[t][s] = IF Told(s, t)' THEN 1 ELSE 0
  BY TableStep
<1>2. ASSUME Registering(s)', NEW c \in ClientIds PROVE sessions'[c] # s
  BY <1>2, RegisteringStep
<1> QED
  BY <1>1, <1>2

-----------------------------------------------------------------------------
(* After an UNSUBACK.                                                      *)

\* What turns an entry of the table on, and the steps "suback", "unsuback" and "fanout".
LEMMA Turns ==
  ASSUME TypeOK, [Next]_vars, NEW r \in Sessions, NEW q \in Sessions, NEW t \in Topics
  PROVE  /\ topic_subscribers'[t][r] > 0 =>
              topic_subscribers[t][r] > 0 \/ (step'[r] = "suback" /\ topic'[r] = t)
         /\ step[r] = "suback" /\ topic[r] = t =>
              (step'[r] = "suback" /\ topic'[r] = t) \/ Send(r, "SUBACK", r)
         /\ Sending(q, r, t)' => Sending(q, r, t) \/ topic_subscribers[t][r] > 0
         /\ step'[r] = "unsuback" /\ topic'[r] = t =>
              topic_subscribers'[t][r] = 0 \/ (step[r] = "unsuback" /\ topic[r] = t)
<1> DEFINE Goal ==
         /\ topic_subscribers'[t][r] > 0 =>
              topic_subscribers[t][r] > 0 \/ (step'[r] = "suback" /\ topic'[r] = t)
         /\ step[r] = "suback" /\ topic[r] = t =>
              (step'[r] = "suback" /\ topic'[r] = t) \/ Send(r, "SUBACK", r)
         /\ Sending(q, r, t)' => Sending(q, r, t) \/ topic_subscribers[t][r] > 0
         /\ step'[r] = "unsuback" /\ topic'[r] = t =>
              topic_subscribers'[t][r] = 0 \/ (step[r] = "unsuback" /\ topic[r] = t)
<1> SUFFICES Goal
  OBVIOUS
<1>0. /\ step \in [Sessions -> Steps]
      /\ topic \in [Sessions -> Topics \cup {NoTopic}]
      /\ left \in [Sessions -> [Sessions -> Nat]]
      /\ topic_subscribers \in [Topics -> [Sessions -> Nat]]
      /\ NoTopic \notin Topics
  BY BrokerAssumption DEF TypeOK
<1>1. ASSUME NEW p \in Sessions, HandlerStep(p) PROVE Goal
  <2>1. CASE AssignIdentity(p)
    BY <2>1, <1>0 DEF Sending, AssignIdentity, identityVars, chainVars, completionVars
  <2>2. CASE LookUpClient(p)
    BY <2>2, <1>0 DEF Sending, LookUpClient, identityVars, chainVars, completionVars
  <2>3. CASE PurgeOld(p)
    BY <2>3, <1>0 DEF Sending, PurgeOld, RemoveEverywhere, identityVars, chainVars,
      completionVars
  <2>4. CASE StoreSession(p)
    BY <2>4, <1>0 DEF Sending, StoreSession, ReadNext, identityVars, chainVars,
      completionVars
  <2>5. CASE SendSuback(p)
    BY <2>5, <1>0 DEF Sending, SendSuback, ReadNext, identityVars, chainVars,
      completionVars
  <2>6. CASE SendUnsuback(p)
    BY <2>6, <1>0 DEF Sending, SendUnsuback, ReadNext, identityVars, chainVars,
      completionVars
  <2>7. ASSUME NEW x \in Sessions, FanOut(p, x) PROVE Goal
    BY <2>7, <1>0 DEF Sending, FanOut, identityVars, chainVars, completionVars
  <2>8. CASE SendPuback(p)
    BY <2>8, <1>0 DEF Sending, SendPuback, ReadNext, identityVars, chainVars,
      completionVars
  <2>9. CASE EraseSession(p)
    BY <2>9, <1>0 DEF Sending, EraseSession, EraseEntry, identityVars, chainVars,
      completionVars
  <2>10. CASE PurgeSession(p)
    BY <2>10, <1>0 DEF Sending, PurgeSession, RemoveEverywhere, identityVars,
      chainVars, completionVars
  <2> QED
    BY <1>1, <2>1, <2>2, <2>3, <2>4, <2>5, <2>6, <2>7, <2>8, <2>9, <2>10 DEF
      HandlerStep
<1>2. ASSUME NEW p \in Sessions, CompletionStep(p) PROVE Goal
  <2>1. CASE CompletionErase(p)
    BY <2>1, <1>0 DEF Sending, CompletionErase, EraseEntry, identityVars, chainVars,
      completionVars
  <2>2. CASE CompletionPurge(p)
    BY <2>2, <1>0 DEF Sending, CompletionPurge, RemoveEverywhere, identityVars,
      chainVars, completionVars
  <2> QED
    BY <1>2, <2>1, <2>2 DEF CompletionStep
<1>3. ASSUME NEW p \in Sessions, Start(p) PROVE Goal
  <2>1. CASE Accept(p)
    BY <2>1, <1>0 DEF Sending, Accept, identityVars, chainVars, completionVars
  <2>2. CASE IgnorePacket(p)
    BY <2>2, <1>0 DEF Sending, IgnorePacket, Dispatch, identityVars, chainVars,
      completionVars
  <2>3. CASE RejectConnect(p)
    BY <2>3, <1>0 DEF Sending, RejectConnect, Dispatch, identityVars, chainVars,
      completionVars
  <2>4. ASSUME NEW d \in Identity[p], ReceiveConnect(p, d) PROVE Goal
    BY <2>4, <1>0 DEF Sending, ReceiveConnect, Dispatch, identityVars, chainVars,
      completionVars
  <2>5. ASSUME NEW u \in Topics, ReceiveSubscribe(p, u) PROVE Goal
    BY <2>5, <1>0 DEF Sending, ReceiveSubscribe, Dispatch, AddSubscriber,
      identityVars, chainVars, completionVars
  <2>6. ASSUME NEW u \in Topics, ReceiveUnsubscribe(p, u) PROVE Goal
    BY <2>6, <1>0 DEF Sending, ReceiveUnsubscribe, Dispatch, RemoveSubscriber,
      identityVars, chainVars, completionVars
  <2>7. ASSUME NEW u \in Topics, ReceivePublish(p, u) PROVE Goal
    BY <2>7, <1>0 DEF Sending, ReceivePublish, Dispatch, identityVars, chainVars,
      completionVars
  <2>8. CASE ReadError(p)
    BY <2>8, <1>0 DEF Sending, ReadError, identityVars, chainVars, completionVars
  <2>9. CASE WriteFails(p)
    BY <2>9, <1>0 DEF Sending, WriteFails, identityVars, chainVars, completionVars
  <2> QED
    BY <1>3, <2>1, <2>2, <2>3, <2>4, <2>5, <2>6, <2>7, <2>8, <2>9 DEF Start
<1>4. ASSUME NEW p \in Sessions, PeerCloses(p) PROVE Goal
  BY <1>4, <1>0 DEF Sending, PeerCloses, identityVars, chainVars, completionVars
<1>5. CASE Idle \/ UNCHANGED vars
  BY <1>5, <1>0 DEF Sending, Idle, vars, identityVars, chainVars, completionVars
<1> QED
  BY <1>1, <1>2, <1>3, <1>4, <1>5 DEF Next

\* UNSUB names a topic.
LEMMA TopicNamed ==
  ASSUME TypeOK, [Next]_vars, NEW r \in Sessions, step'[r] = "unsuback"
  PROVE  topic'[r] \in Topics \/ (step[r] = "unsuback" /\ topic'[r] = topic[r])
<1> DEFINE Goal == topic'[r] \in Topics \/ (step[r] = "unsuback" /\ topic'[r] = topic[r])
<1> SUFFICES Goal
  OBVIOUS
<1>0. /\ step \in [Sessions -> Steps]
      /\ topic \in [Sessions -> Topics \cup {NoTopic}]
  BY DEF TypeOK
<1>1. ASSUME NEW p \in Sessions, HandlerStep(p) PROVE Goal
  <2>1. CASE AssignIdentity(p)
    BY <2>1, <1>0 DEF AssignIdentity, identityVars, chainVars, completionVars
  <2>2. CASE LookUpClient(p)
    BY <2>2, <1>0 DEF LookUpClient, identityVars, chainVars, completionVars
  <2>3. CASE PurgeOld(p)
    BY <2>3, <1>0 DEF PurgeOld, RemoveEverywhere, identityVars, chainVars,
      completionVars
  <2>4. CASE StoreSession(p)
    BY <2>4, <1>0 DEF StoreSession, ReadNext, identityVars, chainVars, completionVars
  <2>5. CASE SendSuback(p)
    BY <2>5, <1>0 DEF SendSuback, ReadNext, identityVars, chainVars, completionVars
  <2>6. CASE SendUnsuback(p)
    BY <2>6, <1>0 DEF SendUnsuback, ReadNext, identityVars, chainVars, completionVars
  <2>7. ASSUME NEW x \in Sessions, FanOut(p, x) PROVE Goal
    BY <2>7, <1>0 DEF FanOut, identityVars, chainVars, completionVars
  <2>8. CASE SendPuback(p)
    BY <2>8, <1>0 DEF SendPuback, ReadNext, identityVars, chainVars, completionVars
  <2>9. CASE EraseSession(p)
    BY <2>9, <1>0 DEF EraseSession, EraseEntry, identityVars, chainVars,
      completionVars
  <2>10. CASE PurgeSession(p)
    BY <2>10, <1>0 DEF PurgeSession, RemoveEverywhere, identityVars, chainVars,
      completionVars
  <2> QED
    BY <1>1, <2>1, <2>2, <2>3, <2>4, <2>5, <2>6, <2>7, <2>8, <2>9, <2>10 DEF
      HandlerStep
<1>2. ASSUME NEW p \in Sessions, CompletionStep(p) PROVE Goal
  <2>1. CASE CompletionErase(p)
    BY <2>1, <1>0 DEF CompletionErase, EraseEntry, identityVars, chainVars,
      completionVars
  <2>2. CASE CompletionPurge(p)
    BY <2>2, <1>0 DEF CompletionPurge, RemoveEverywhere, identityVars, chainVars,
      completionVars
  <2> QED
    BY <1>2, <2>1, <2>2 DEF CompletionStep
<1>3. ASSUME NEW p \in Sessions, Start(p) PROVE Goal
  <2>1. CASE Accept(p)
    BY <2>1, <1>0 DEF Accept, identityVars, chainVars, completionVars
  <2>2. CASE IgnorePacket(p)
    BY <2>2, <1>0 DEF IgnorePacket, Dispatch, identityVars, chainVars, completionVars
  <2>3. CASE RejectConnect(p)
    BY <2>3, <1>0 DEF RejectConnect, Dispatch, identityVars, chainVars, completionVars
  <2>4. ASSUME NEW d \in Identity[p], ReceiveConnect(p, d) PROVE Goal
    BY <2>4, <1>0 DEF ReceiveConnect, Dispatch, identityVars, chainVars,
      completionVars
  <2>5. ASSUME NEW u \in Topics, ReceiveSubscribe(p, u) PROVE Goal
    BY <2>5, <1>0 DEF ReceiveSubscribe, Dispatch, AddSubscriber, identityVars,
      chainVars, completionVars
  <2>6. ASSUME NEW u \in Topics, ReceiveUnsubscribe(p, u) PROVE Goal
    BY <2>6, <1>0 DEF ReceiveUnsubscribe, Dispatch, RemoveSubscriber, identityVars,
      chainVars, completionVars
  <2>7. ASSUME NEW u \in Topics, ReceivePublish(p, u) PROVE Goal
    BY <2>7, <1>0 DEF ReceivePublish, Dispatch, identityVars, chainVars,
      completionVars
  <2>8. CASE ReadError(p)
    BY <2>8, <1>0 DEF ReadError, identityVars, chainVars, completionVars
  <2>9. CASE WriteFails(p)
    BY <2>9, <1>0 DEF WriteFails, identityVars, chainVars, completionVars
  <2> QED
    BY <1>3, <2>1, <2>2, <2>3, <2>4, <2>5, <2>6, <2>7, <2>8, <2>9 DEF Start
<1>4. ASSUME NEW p \in Sessions, PeerCloses(p) PROVE Goal
  BY <1>4, <1>0 DEF PeerCloses, identityVars, chainVars, completionVars
<1>5. CASE Idle \/ UNCHANGED vars
  BY <1>5, <1>0 DEF Idle, vars, identityVars, chainVars, completionVars
<1> QED
  BY <1>1, <1>2, <1>3, <1>4, <1>5 DEF Next

\* An UNSUBACK that is the last word after a step was so before it.
LEMMA OffBefore ==
  ASSUME TypeOK, [Next]_vars, NEW r \in Sessions, NEW t \in Topics,
         NEW i \in DOMAIN out[r], Off(r, i, t)'
  PROVE  Off(r, i, t)
<1>1. /\ out'[r][i].type = "UNSUBACK" /\ out'[r][i].topic = t
      /\ \A m \in DOMAIN out'[r] :
           m > i => ~(out'[r][m].type = "SUBACK" /\ out'[r][m].topic = t)
      /\ ~(step'[r] = "suback" /\ topic'[r] = t)
  BY DEF Off
<1>2. \A m \in DOMAIN out[r] : m \in DOMAIN out'[r] /\ out'[r][m] = out[r][m]
  BY SendFacts, SendKeeps DEF SendsRightly
<1>3. ASSUME step[r] = "suback", topic[r] = t PROVE FALSE
  <2>1. Send(r, "SUBACK", r) /\ "SUBACK" \in Acks \cup {"PUB"}
    BY <1>1, <1>3, Turns, TypeNames
  <2>2. PICK n \in DOMAIN out'[r] :
          /\ \A k \in DOMAIN out[r] : k < n
          /\ out'[r][n] = [type |-> "SUBACK", from |-> r, seq |-> received[r],
                           topic |-> topic[r]]
    BY <2>1, SendLast
  <2>3. out' \in [Sessions -> Seq(Packet)]
    BY <2>1, SendTypes
  <2>4. n > i
    BY <1>2, <2>2, <2>3
  <2> QED
    BY <1>1, <1>3, <2>2, <2>4
<1> QED
  BY <1>1, <1>2, <1>3 DEF Off

\* Indices of what is sent.
LEMMA Indices ==
  ASSUME NEW f \in [Sessions -> Seq(Packet)], NEW r \in Sessions
  PROVE  DOMAIN f[r] \subseteq Nat /\ \A i \in DOMAIN f[r] : f[r][i] \in Packet
<1>1. f[r] \in Seq(Packet)
  OBVIOUS
<1> QED
  BY <1>1

\* A packet sent by the step comes last, and was sent rightly.
LEMMA NewPacket ==
  ASSUME TypeOK, [Next]_vars, NEW r \in Sessions, NEW k \in DOMAIN out'[r]
  PROVE  \/ k \in DOMAIN out[r] /\ out'[r][k] = out[r][k]
         \/ \E p \in Sessions : \E type \in Acks \cup {"PUB"} :
              /\ SendsRightly(r, p, type)
              /\ out'[r][k].type = type /\ out'[r][k].from = p
              /\ out'[r][k].topic = topic[p]
              /\ \A j \in DOMAIN out'[r] : j <= k
<1>1. CASE out' = out
  BY <1>1
<1>2. ASSUME NEW q \in Sessions, NEW p \in Sessions, NEW type \in Acks \cup {"PUB"},
             SendsRightly(q, p, type)
      PROVE  \/ k \in DOMAIN out[r] /\ out'[r][k] = out[r][k]
             \/ /\ q = r
                /\ out'[r][k].type = type /\ out'[r][k].from = p
                /\ out'[r][k].topic = topic[p]
                /\ \A j \in DOMAIN out'[r] : j <= k
  <2>1. Send(q, type, p)
    BY <1>2 DEF SendsRightly
  <2>2. \/ k \in DOMAIN out[r] /\ out'[r][k] = out[r][k]
        \/ /\ r = q
           /\ out'[r][k] = [type |-> type, from |-> p, seq |-> received[p],
                            topic |-> topic[p]]
           /\ \A j \in DOMAIN out'[r] : j <= k
    BY <2>1, SendSplit
  <2> QED
    BY <2>2
<1> QED
  BY <1>1, <1>2, SendFacts

\* A session that was told UNSUBACK gets at most what is in the copies.
LEMMA SilentStep ==
  ASSUME TypeOK, TypeOK', TopicInv, OffInv, [Next]_vars,
         NEW r \in Sessions, NEW t \in Topics
  PROVE  Silent(r, t)'
<1>0. /\ topic_subscribers \in [Topics -> [Sessions -> Nat]]
      /\ topic_subscribers' \in [Topics -> [Sessions -> Nat]]
      /\ left \in [Sessions -> [Sessions -> Nat]]
      /\ Silent(r, t)
  BY DEF TypeOK, OffInv
<1>1. ASSUME step'[r] = "unsuback", topic'[r] = t PROVE topic_subscribers'[t][r] = 0
  <2>1. topic_subscribers'[t][r] = 0 \/ topic_subscribers[t][r] = 0
    BY <1>0, <1>1, Turns DEF Silent
  <2> QED
    BY <1>0, <1>1, <2>1, Turns
<1>2. ASSUME NEW i \in DOMAIN out'[r], Off(r, i, t)'
      PROVE  topic_subscribers[t][r] = 0
  <2>1. CASE i \in DOMAIN out[r]
    BY <1>0, <1>2, <2>1, OffBefore DEF Silent
  <2>2. CASE i \notin DOMAIN out[r]
    <3>1. PICK p \in Sessions, type \in Acks \cup {"PUB"} :
            /\ SendsRightly(r, p, type)
            /\ out'[r][i].type = type /\ out'[r][i].topic = topic[p]
      BY <2>2, NewPacket
    <3>2. type = "UNSUBACK" /\ topic[p] = t
      BY <1>2, <3>1 DEF Off
    <3>3. p = r /\ step[r] = "unsuback"
      BY <3>1, <3>2, TypeNames DEF SendsRightly
    <3> QED
      BY <1>0, <3>2, <3>3 DEF Silent
  <2> QED
    BY <2>1, <2>2
<1>3. ASSUME NEW i \in DOMAIN out'[r], Off(r, i, t)'
      PROVE  topic_subscribers'[t][r] = 0
  <2>1. ~(step'[r] = "suback" /\ topic'[r] = t)
    BY <1>3 DEF Off
  <2> QED
    BY <1>0, <1>2, <1>3, <2>1, Turns
<1>4. ASSUME NEW i \in DOMAIN out'[r], Off(r, i, t)', NEW j \in DOMAIN out'[r], j > i,
             out'[r][j].type = "PUB", out'[r][j].topic = t
      PROVE  ~Sending(out[r][j].from, r, t)'
  <2>0. DOMAIN out'[r] \subseteq Nat /\ out'[r][j].from \in Sessions
    BY Indices DEF TypeOK, Packet
  <2>1. PICK p \in Sessions : p = out'[r][j].from
    BY <2>0
  <2>2. SUFFICES ASSUME Sending(p, r, t)' PROVE FALSE
    BY <2>1 DEF Sending
  <2>3. Sending(p, r, t)
    BY <1>0, <1>2, <1>4, <2>2, Turns
  <2>4. CASE j \in DOMAIN out[r] /\ out'[r][j] = out[r][j]
    <3>1. i \in DOMAIN out[r]
      BY <1>4, <2>0, NewPacket
    <3> QED
      BY <1>0, <1>4, <2>1, <2>3, <2>4, <3>1, OffBefore DEF Silent
  <2>5. ASSUME NEW q \in Sessions, NEW type \in Acks \cup {"PUB"}, SendsRightly(r, q, type),
               out'[r][j].type = type, out'[r][j].from = q
        PROVE  FALSE
    <3>1. left[p][r] \in Nat /\ left[p][r] <= 1 /\ left'[p][r] = left[p][r] - 1
      BY <1>0, <1>4, <2>1, <2>5 DEF SendsRightly, TopicInv
    <3>2. left'[p][r] > 0
      BY <2>2 DEF Sending
    <3> QED
      BY <3>1, <3>2
  <2> QED
    BY <2>4, <2>5, NewPacket
<1> QED
  BY <1>1, <1>3, <1>4 DEF Silent

LEMMA OffStep ==
  ASSUME TypeOK, TypeOK', TopicInv, OffInv, [Next]_vars
  PROVE  OffInv'
<1>1. ASSUME NEW r \in Sessions, step'[r] = "unsuback" PROVE topic'[r] \in Topics
  BY <1>1, TopicNamed DEF OffInv
<1>2. ASSUME NEW r \in Sessions, NEW i \in DOMAIN out'[r], out'[r][i].type = "UNSUBACK"
      PROVE  out'[r][i].topic \in Topics
  <2>1. CASE i \in DOMAIN out[r] /\ out'[r][i] = out[r][i]
    BY <1>2, <2>1 DEF OffInv
  <2>2. ASSUME NEW p \in Sessions, NEW type \in Acks \cup {"PUB"}, SendsRightly(r, p, type),
               out'[r][i].type = type, out'[r][i].topic = topic[p]
        PROVE  out'[r][i].topic \in Topics
    BY <1>2, <2>2 DEF OffInv, SendsRightly
  <2> QED
    BY <2>1, <2>2, NewPacket
<1>3. \A r \in Sessions : \A t \in Topics : Silent(r, t)'
  BY SilentStep
<1> QED
  BY <1>1, <1>2, <1>3 DEF OffInv

\* Of two messages of a topic and publisher after an UNSUBACK, the second cannot be sent.
LEMMA LateStep ==
  ASSUME TypeOK, TypeOK', OffInv, OffInv', LateDeliveryBound, [Next]_vars
  PROVE  LateDeliveryBound'
<1> SUFFICES ASSUME NEW r \in Sessions, NEW i \in DOMAIN out'[r], NEW j \in DOMAIN out'[r],
                    NEW k \in DOMAIN out'[r], i < j, j < k,
                    out'[r][i].type = "UNSUBACK",
                    out'[r][j].type = "PUB", out'[r][k].type = "PUB",
                    out'[r][j].topic = out'[r][i].topic, out'[r][k].topic = out'[r][i].topic,
                    out'[r][j].from = out'[r][k].from,
                    ~\E m \in DOMAIN out'[r] :
                       m > i /\ out'[r][m].type = "SUBACK"
                         /\ out'[r][m].topic = out'[r][i].topic,
                    ~(step'[r] = "suback" /\ topic'[r] = out'[r][i].topic)
             PROVE  FALSE
  BY DEF LateDeliveryBound
<1>0. DOMAIN out'[r] \subseteq Nat
  BY Indices DEF TypeOK
<1>1. PICK t \in Topics : t = out'[r][i].topic
  BY DEF OffInv
<1>2. Off(r, i, t)'
  BY <1>1 DEF Off
<1>3. /\ i \in DOMAIN out[r] /\ out'[r][i] = out[r][i]
      /\ j \in DOMAIN out[r] /\ out'[r][j] = out[r][j]
  BY <1>0, NewPacket
<1>4. Off(r, i, t)
  BY <1>2, <1>3, OffBefore
<1>5. CASE k \in DOMAIN out[r] /\ out'[r][k] = out[r][k]
  <2>1. /\ ~\E m \in DOMAIN out[r] :
              m > i /\ out[r][m].type = "SUBACK" /\ out[r][m].topic = out[r][i].topic
        /\ ~(step[r] = "suback" /\ topic[r] = out[r][i].topic)
    BY <1>1, <1>3, <1>4 DEF Off
  <2> QED
    BY <1>3, <1>5, <2>1 DEF LateDeliveryBound
<1>6. ASSUME NEW p \in Sessions, NEW type \in Acks \cup {"PUB"}, SendsRightly(r, p, type),
             out'[r][k].type = type, out'[r][k].from = p, out'[r][k].topic = topic[p]
      PROVE  FALSE
  <2>1. Sending(out[r][j].from, r, t)
    BY <1>1, <1>3, <1>6 DEF SendsRightly, Sending
  <2> QED
    BY <1>1, <1>3, <1>4, <2>1 DEF OffInv, Silent
<1> QED
  BY <1>5, <1>6, NewPacket

-----------------------------------------------------------------------------
(* The theorems.                                                           *)

LEMMA InitAck == Init => AckInv
<1> SUFFICES ASSUME Init PROVE AckInv
  OBVIOUS
<1> USE BrokerAssumption DEF Init
<1>1. NameInv
  BY DEF NameInv, Named, EmptyBag
<1>2. EntryInv
  BY DEF EntryInv, HasEntry
<1>3. ToldInv
  BY DEF ToldInv, AsTold
<1>4. OffInv /\ LateDeliveryBound
  BY DEF OffInv, Silent, LateDeliveryBound
<1> QED
  BY <1>1, <1>2, <1>3, <1>4 DEF AckInv

LEMMA NextAck == TypeOK /\ TypeOK' /\ TablesInv /\ AckInv /\ [Next]_vars => AckInv'
<1> SUFFICES ASSUME TypeOK, TypeOK', TablesInv, AckInv, [Next]_vars PROVE AckInv'
  OBVIOUS
<1> USE DEF TablesInv, AckInv
<1>1. NameInv'
  BY NameStep
<1>2. EntryInv'
  BY EntryStep
<1>3. ToldInv'
  BY ToldStep
<1>4. OffInv'
  BY OffStep
<1>5. LateDeliveryBound'
  BY <1>4, LateStep
<1> QED
  BY <1>1, <1>2, <1>3, <1>4, <1>5

\* The inductive invariant of what follows, on top of the types and TablesInv.
THEOREM AckInvariance == Spec => [](TypeOK /\ AckInv)
<1>1. TypeOK /\ TablesInv /\ AckInv /\ [Next]_vars => TypeOK' /\ TablesInv' /\ AckInv'
  BY NextTables, NextAck
<1>2. Init => TypeOK /\ TablesInv /\ AckInv
  BY InitTypes, InitTables, InitAck
<1> QED
  BY <1>1, <1>2, PTL DEF Spec

\* A quiet session sent one CONN.
LEMMA QuietConn ==
  ASSUME TypeOK, NameInv, NEW s \in Sessions, Quiet(s)
  PROVE  Alone(s) /\ OneConn(s) /\ client_id[s] # NoClient
<1> DEFINE C == {i \in DOMAIN out[s] : out[s][i].type = "CONNACK"}
<1>1. out[s] \in Seq(Packet)
  BY DEF TypeOK
<1>2. DOMAIN out[s] = 1 .. Len(out[s]) /\ Len(out[s]) \in Nat
  BY <1>1
<1>3. IsFiniteSet(DOMAIN out[s])
  BY <1>2, FS_Interval
<1>4. IsFiniteSet(C)
  BY <1>3, FS_Subset
<1>5. Cardinality(C) = 1
  BY DEF Quiet
<1>6. PICK x : C = {x}
  BY <1>4, <1>5, FS_Singleton
<1>7. OneConn(s)
  BY <1>6 DEF OneConn
<1>8. client_id[s] # NoClient
  <2>1. x \in DOMAIN out[s]
    BY <1>6
  <2> QED
    BY <1>2, <2>1 DEF NameInv, Named
<1> QED
  BY <1>7, <1>8 DEF Quiet, Alone

\* What the acks told a quiet session is what the topic table says, for any number of
\* sessions, topics and failures: no other session ever costs it a subscription.
THEOREM AcksTellTheTable == Spec => []AcknowledgedState
<1>1. TypeOK /\ AckInv => AcknowledgedState
  <2> SUFFICES ASSUME TypeOK, AckInv, OneIdentity, NEW s \in Sessions, Quiet(s),
                      NEW t \in Topics
               PROVE  topic_subscribers[t][s] = IF Acknowledged(s, t) THEN 1 ELSE 0
    BY DEF AcknowledgedState
  <2>1. AsTold(s) /\ Alone(s) /\ OneConn(s)
    BY QuietConn DEF AckInv, ToldInv
  <2>2. step[s] = "reading" /\ socket[s] = "open"
    BY DEF Quiet
  <2>3. Told(s, t) <=> Acknowledged(s, t)
    BY <2>2 DEF Told
  <2> QED
    BY <2>1, <2>2, <2>3 DEF AsTold
<1> QED
  BY <1>1, AckInvariance, PTL

\* The registry knows every quiet session under its client id.
THEOREM QuietRegistered == Spec => []QuietIsRegistered
<1>1. TypeOK /\ AckInv => QuietIsRegistered
  <2> SUFFICES ASSUME TypeOK, AckInv, OneIdentity, NEW s \in Sessions, Quiet(s)
               PROVE  sessions[client_id[s]] = s
    BY DEF QuietIsRegistered
  <2>1. HasEntry(s) /\ Alone(s) /\ client_id[s] # NoClient
    BY QuietConn DEF AckInv, EntryInv
  <2> QED
    BY <2>1 DEF HasEntry, Quiet, Registering
<1> QED
  BY <1>1, AckInvariance, PTL

\* After UNSUBACK a session gets at most one message of the topic from each publisher
\* until it subscribes again, for any number of publishers and threads.
THEOREM LateDeliveryBounded == Spec => []LateDeliveryBound
<1>1. AckInv => LateDeliveryBound
  BY DEF AckInv
<1> QED
  BY <1>1, AckInvariance, PTL
=============================================================================
