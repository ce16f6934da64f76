---------------------------- MODULE TableProofs -----------------------------
(***************************************************************************)
(* Proofs about the broker's tables: type correctness and TablesInv, and   *)
(* what follows from them about the registry and the topic table.          *)
(***************************************************************************)
EXTENDS BrokerInvariant, TLAPS

-----------------------------------------------------------------------------
(* Facts about sequences and sending.                                      *)

LEMMA AppendFacts ==
  ASSUME NEW S, NEW q \in Seq(S), NEW e \in S
  PROVE  /\ Append(q, e) \in Seq(S)
         /\ Len(Append(q, e)) = Len(q) + 1
         /\ DOMAIN Append(q, e) = 1 .. Len(q) + 1
         /\ DOMAIN q = 1 .. Len(q)
         /\ Len(q) \in Nat
         /\ \A i \in DOMAIN q : Append(q, e)[i] = q[i]
         /\ Append(q, e)[Len(q) + 1] = e
  OBVIOUS

\* Sending appends one well-formed packet to one connection.
LEMMA SendTypes ==
  ASSUME TypeOK, NEW r \in Sessions, NEW s \in Sessions,
         NEW type \in Acks \cup {"PUB"}, Send(r, type, s)
  PROVE  out' \in [Sessions -> Seq(Packet)]
<1> DEFINE e == [type |-> type, from |-> s, seq |-> received[s], topic |-> topic[s]]
<1>1. e \in Packet
  BY DEF TypeOK, Packet
<1>2. out[r] \in Seq(Packet)
  BY DEF TypeOK
<1>3. Append(out[r], e) \in Seq(Packet)
  BY <1>1, <1>2, AppendFacts
<1> QED
  BY <1>3 DEF TypeOK, Send

-----------------------------------------------------------------------------
(* Type correctness.                                                       *)

LEMMA InitTypes == Init => TypeOK
<1> SUFFICES ASSUME Init PROVE TypeOK
  OBVIOUS
<1> USE BrokerAssumption DEF Init
<1>1. EmptyBag \in [Sessions -> Nat]
  BY DEF EmptyBag
<1> QED
  BY <1>1 DEF TypeOK, SocketStates, Steps, Resting

\* The topic table keeps its type under the three operations on it.
LEMMA TableTypes ==
  ASSUME TypeOK, NEW t \in Topics, NEW s \in Sessions
  PROVE  /\ AddSubscriber(t, s) \in [Topics -> [Sessions -> Nat]]
         /\ RemoveSubscriber(t, s) \in [Topics -> [Sessions -> Nat]]
  BY DEF TypeOK, AddSubscriber, RemoveSubscriber

LEMMA PurgeTypes ==
  ASSUME TypeOK, NEW s \in Sessions \cup {NoSession}
  PROVE  RemoveEverywhere(s) \in [Topics -> [Sessions -> Nat]]
  BY DEF TypeOK, RemoveEverywhere

\* The id looked up by register_session() is a client's id: types alone do not
\* say so, IdentityInv does.
LEMMA NextTypes == TypeOK /\ IdentityInv /\ [Next]_vars => TypeOK'
<1> SUFFICES ASSUME TypeOK, IdentityInv, [Next]_vars PROVE TypeOK'
  OBVIOUS
<1> USE BrokerAssumption
<1>1. ASSUME NEW s \in Sessions, HandlerStep(s) PROVE TypeOK'
  <2>1. CASE AssignIdentity(s)
    BY <2>1, SendTypes DEF TypeOK, AssignIdentity, Steps, Acks, completionVars
  <2>2. CASE LookUpClient(s)
    <3>1. client_id[s] \in ClientIds
      BY <2>2 DEF TypeOK, IdentityInv, LookUpClient, Resting
    <3> QED
      BY <2>2, <3>1 DEF TypeOK, LookUpClient, Steps, identityVars, completionVars
  <2>3. CASE PurgeOld(s)
    <3>1. old[s] \in Sessions \cup {NoSession}
      BY DEF TypeOK
    <3>2. topic_subscribers' \in [Topics -> [Sessions -> Nat]]
      BY <2>3, <3>1, PurgeTypes DEF PurgeOld
    <3> QED
      BY <2>3, <3>2 DEF TypeOK, PurgeOld, Steps, chainVars, identityVars, completionVars
  <2>4. CASE StoreSession(s)
    BY <2>4 DEF TypeOK, StoreSession, ReadNext, Steps, Resting, identityVars, completionVars
  <2>5. CASE SendSuback(s)
    BY <2>5, SendTypes DEF TypeOK, SendSuback, ReadNext, Steps, Resting, Acks, identityVars, completionVars
  <2>6. CASE SendUnsuback(s)
    BY <2>6, SendTypes DEF TypeOK, SendUnsuback, ReadNext, Steps, Resting, Acks, identityVars, completionVars
  <2>7. ASSUME NEW r \in Sessions, FanOut(s, r) PROVE TypeOK'
    <3>1. left' \in [Sessions -> [Sessions -> Nat]]
      BY <2>7 DEF TypeOK, FanOut
    <3>2. out' \in [Sessions -> Seq(Packet)]
      BY <2>7, SendTypes DEF FanOut
    <3> QED
      BY <2>7, <3>1, <3>2 DEF TypeOK, FanOut, identityVars, completionVars
  <2>8. CASE SendPuback(s)
    BY <2>8, SendTypes DEF TypeOK, SendPuback, ReadNext, Steps, Resting, Acks, identityVars, completionVars
  <2>9. CASE EraseSession(s)
    BY <2>9 DEF TypeOK, EraseSession, EraseEntry, Steps, identityVars, chainVars, completionVars
  <2>10. CASE PurgeSession(s)
    BY <2>10, PurgeTypes DEF TypeOK, PurgeSession, Steps, Resting, identityVars, chainVars, completionVars
  <2> QED
    BY <1>1, <2>1, <2>2, <2>3, <2>4, <2>5, <2>6, <2>7, <2>8, <2>9, <2>10 DEF HandlerStep
<1>2. ASSUME NEW s \in Sessions, CompletionStep(s) PROVE TypeOK'
  <2>1. CASE CompletionErase(s)
    BY <2>1 DEF TypeOK, CompletionErase, EraseEntry, identityVars, chainVars
  <2>2. CASE CompletionPurge(s)
    <3>1. topic_subscribers' \in [Topics -> [Sessions -> Nat]]
      BY <2>2, PurgeTypes DEF CompletionPurge
    <3> QED
      BY <2>2, <3>1 DEF TypeOK, CompletionPurge, identityVars, chainVars
  <2> QED
    BY <1>2, <2>1, <2>2 DEF CompletionStep
<1>3. ASSUME NEW s \in Sessions, Start(s) PROVE TypeOK'
  <2>1. CASE Accept(s)
    BY <2>1 DEF TypeOK, Accept, Steps, Resting, SocketStates, identityVars, chainVars, completionVars
  <2>2. CASE IgnorePacket(s)
    BY <2>2, SMTT(30) DEF TypeOK, IgnorePacket, Dispatch, identityVars, chainVars, completionVars
  <2>3. CASE RejectConnect(s)
    BY <2>3, SMTT(30) DEF TypeOK, RejectConnect, Dispatch, SocketStates, identityVars, chainVars, completionVars
  <2>4. ASSUME NEW c \in Identity[s], ReceiveConnect(s, c) PROVE TypeOK'
    <3>1. c \in ClientIds
      BY <2>4, BrokerAssumption
    <3> QED
      BY <2>4, <3>1, SMTT(30) DEF TypeOK, ReceiveConnect, Dispatch, Steps, identityVars, completionVars
  <2>5. ASSUME NEW t \in Topics, ReceiveSubscribe(s, t) PROVE TypeOK'
    <3>1. topic_subscribers' \in [Topics -> [Sessions -> Nat]]
      BY <2>5, TableTypes DEF ReceiveSubscribe
    <3> QED
      BY <2>5, <3>1, SMTT(30) DEF TypeOK, ReceiveSubscribe, Dispatch, Steps, identityVars, completionVars
  <2>6. ASSUME NEW t \in Topics, ReceiveUnsubscribe(s, t) PROVE TypeOK'
    <3>1. topic_subscribers' \in [Topics -> [Sessions -> Nat]]
      BY <2>6, TableTypes DEF ReceiveUnsubscribe
    <3> QED
      BY <2>6, <3>1, SMTT(30) DEF TypeOK, ReceiveUnsubscribe, Dispatch, Steps, identityVars, completionVars
  <2>7. ASSUME NEW t \in Topics, ReceivePublish(s, t) PROVE TypeOK'
    BY <2>7, SMTT(30) DEF TypeOK, ReceivePublish, Dispatch, Steps, identityVars, completionVars
  <2>8. CASE ReadError(s)
    BY <2>8 DEF TypeOK, ReadError, Steps, Resting, identityVars, chainVars, completionVars
  <2>9. CASE WriteFails(s)
    BY <2>9 DEF TypeOK, WriteFails, identityVars, chainVars
  <2> QED
    BY <1>3, <2>1, <2>2, <2>3, <2>4, <2>5, <2>6, <2>7, <2>8, <2>9 DEF Start
<1>4. ASSUME NEW s \in Sessions, PeerCloses(s) PROVE TypeOK'
  BY <1>4 DEF TypeOK, PeerCloses, SocketStates, identityVars, chainVars, completionVars
<1>5. CASE Idle \/ UNCHANGED vars
  BY <1>5 DEF TypeOK, Idle, vars, identityVars, chainVars, completionVars
<1> QED
  BY <1>1, <1>2, <1>3, <1>4, <1>5 DEF Next

-----------------------------------------------------------------------------
(* The parts of TablesInv, one step lemma each.                             *)

\* A session is removed only after its connection is lost: steps of LinkInv.
LEMMA LinkStep ==
  ASSUME TypeOK, LinkInv, [Next]_vars
  PROVE  LinkInv'
<1>0. /\ socket \in [Sessions -> SocketStates] /\ step \in [Sessions -> Steps]
      /\ erasing \in [Sessions -> Nat] /\ purging \in [Sessions -> Nat]
  BY DEF TypeOK
<1>1. ASSUME NEW s \in Sessions, HandlerStep(s) PROVE LinkInv'
  <2>1. CASE AssignIdentity(s)
    BY <2>1, <1>0 DEF LinkInv, Leaving, AssignIdentity, completionVars
  <2>2. CASE LookUpClient(s)
    BY <2>2, <1>0 DEF LinkInv, Leaving, LookUpClient, identityVars,
      completionVars
  <2>3. CASE PurgeOld(s)
    BY <2>3, <1>0 DEF LinkInv, Leaving, PurgeOld, identityVars, chainVars,
      completionVars
  <2>4. CASE StoreSession(s)
    BY <2>4, <1>0 DEF LinkInv, Leaving, StoreSession, ReadNext, identityVars,
      completionVars
  <2>5. CASE SendSuback(s)
    BY <2>5, <1>0 DEF LinkInv, Leaving, SendSuback, ReadNext, identityVars,
      completionVars
  <2>6. CASE SendUnsuback(s)
    BY <2>6, <1>0 DEF LinkInv, Leaving, SendUnsuback, ReadNext, identityVars,
      completionVars
  <2>7. ASSUME NEW r \in Sessions, FanOut(s, r) PROVE LinkInv'
    BY <2>7, <1>0 DEF LinkInv, Leaving, FanOut, identityVars, completionVars
  <2>8. CASE SendPuback(s)
    BY <2>8, <1>0 DEF LinkInv, Leaving, SendPuback, ReadNext, identityVars,
      completionVars
  <2>9. CASE EraseSession(s)
    BY <2>9, <1>0 DEF LinkInv, Leaving, EraseSession, identityVars, chainVars,
      completionVars
  <2>10. CASE PurgeSession(s)
    BY <2>10, <1>0 DEF LinkInv, Leaving, PurgeSession, identityVars,
      chainVars, completionVars
  <2> QED
    BY <1>1, <2>1, <2>2, <2>3, <2>4, <2>5, <2>6, <2>7, <2>8, <2>9,
      <2>10 DEF HandlerStep
<1>2. ASSUME NEW s \in Sessions, CompletionStep(s) PROVE LinkInv'
  <2>1. CASE CompletionErase(s)
    BY <2>1, <1>0 DEF LinkInv, Leaving, CompletionErase, identityVars,
      chainVars
  <2>2. CASE CompletionPurge(s)
    BY <2>2, <1>0 DEF LinkInv, Leaving, CompletionPurge, identityVars,
      chainVars
  <2> QED
    BY <1>2, <2>1, <2>2 DEF CompletionStep
<1>3. ASSUME NEW s \in Sessions, Start(s) PROVE LinkInv'
  <2>1. CASE Accept(s)
    BY <2>1, <1>0 DEF LinkInv, Leaving, Accept, identityVars, chainVars,
      completionVars
  <2>2. CASE IgnorePacket(s)
    BY <2>2, <1>0 DEF LinkInv, Leaving, IgnorePacket, Dispatch, identityVars,
      chainVars, completionVars
  <2>3. CASE RejectConnect(s)
    BY <2>3, <1>0 DEF LinkInv, Leaving, RejectConnect, Dispatch, identityVars,
      chainVars, completionVars
  <2>4. ASSUME NEW c \in Identity[s], ReceiveConnect(s, c) PROVE LinkInv'
    BY <2>4, <1>0 DEF LinkInv, Leaving, ReceiveConnect, Dispatch,
      identityVars, completionVars
  <2>5. ASSUME NEW t \in Topics, ReceiveSubscribe(s, t) PROVE LinkInv'
    BY <2>5, <1>0 DEF LinkInv, Leaving, ReceiveSubscribe, Dispatch,
      identityVars, completionVars
  <2>6. ASSUME NEW t \in Topics, ReceiveUnsubscribe(s, t) PROVE LinkInv'
    BY <2>6, <1>0 DEF LinkInv, Leaving, ReceiveUnsubscribe, Dispatch,
      identityVars, completionVars
  <2>7. ASSUME NEW t \in Topics, ReceivePublish(s, t) PROVE LinkInv'
    BY <2>7, <1>0 DEF LinkInv, Leaving, ReceivePublish, Dispatch,
      identityVars, completionVars
  <2>8. CASE ReadError(s)
    BY <2>8, <1>0 DEF LinkInv, Leaving, ReadError, identityVars, chainVars,
      completionVars
  <2>9. CASE WriteFails(s)
    BY <2>9, <1>0 DEF LinkInv, Leaving, WriteFails, identityVars, chainVars
  <2> QED
    BY <1>3, <2>1, <2>2, <2>3, <2>4, <2>5, <2>6, <2>7, <2>8, <2>9 DEF Start
<1>4. ASSUME NEW s \in Sessions, PeerCloses(s) PROVE LinkInv'
  BY <1>4, <1>0 DEF LinkInv, Leaving, PeerCloses, identityVars, chainVars,
    completionVars
<1>5. CASE Idle \/ UNCHANGED vars
  BY <1>5, <1>0 DEF LinkInv, Leaving, Idle, vars, identityVars, chainVars,
    completionVars
<1> QED
  BY <1>1, <1>2, <1>3, <1>4, <1>5 DEF Next

\* Ids are those the peer presents: steps of IdentityInv.
LEMMA IdentityStep ==
  ASSUME TypeOK, IdentityInv, [Next]_vars
  PROVE  IdentityInv'
<1>0. /\ NoSession \notin Sessions /\ NoClient \notin ClientIds
      /\ Identity \in [Sessions -> SUBSET ClientIds]
      /\ step \in [Sessions -> Steps]
      /\ client_id \in [Sessions -> ClientIds \cup {NoClient}]
      /\ new_id \in [Sessions -> ClientIds \cup {NoClient}]
      /\ is_authenticated \in [Sessions -> BOOLEAN]
      /\ sessions \in [ClientIds -> Sessions \cup {NoSession}]
      /\ topic_subscribers \in [Topics -> [Sessions -> Nat]]
  BY BrokerAssumption DEF TypeOK
<1>1. ASSUME NEW s \in Sessions, HandlerStep(s) PROVE IdentityInv'
  <2>1. CASE AssignIdentity(s)
    BY <2>1, <1>0 DEF IdentityInv, Resting, AssignIdentity, completionVars
  <2>2. CASE LookUpClient(s)
    BY <2>2, <1>0 DEF IdentityInv, Resting, LookUpClient, identityVars,
      completionVars
  <2>3. CASE PurgeOld(s)
    BY <2>3, <1>0 DEF IdentityInv, Resting, PurgeOld, identityVars, chainVars,
      completionVars, RemoveEverywhere
  <2>4. CASE StoreSession(s)
    BY <2>4, <1>0 DEF IdentityInv, Resting, StoreSession, ReadNext,
      identityVars, completionVars
  <2>5. CASE SendSuback(s)
    BY <2>5, <1>0 DEF IdentityInv, Resting, SendSuback, ReadNext,
      identityVars, completionVars
  <2>6. CASE SendUnsuback(s)
    BY <2>6, <1>0 DEF IdentityInv, Resting, SendUnsuback, ReadNext,
      identityVars, completionVars
  <2>7. ASSUME NEW r \in Sessions, FanOut(s, r) PROVE IdentityInv'
    BY <2>7, <1>0 DEF IdentityInv, Resting, FanOut, identityVars,
      completionVars
  <2>8. CASE SendPuback(s)
    BY <2>8, <1>0 DEF IdentityInv, Resting, SendPuback, ReadNext,
      identityVars, completionVars
  <2>9. CASE EraseSession(s)
    BY <2>9, <1>0 DEF IdentityInv, Resting, EraseSession, identityVars,
      chainVars, completionVars, EraseEntry
  <2>10. CASE PurgeSession(s)
    BY <2>10, <1>0 DEF IdentityInv, Resting, PurgeSession, identityVars,
      chainVars, completionVars, RemoveEverywhere
  <2> QED
    BY <1>1, <2>1, <2>2, <2>3, <2>4, <2>5, <2>6, <2>7, <2>8, <2>9,
      <2>10 DEF HandlerStep
<1>2. ASSUME NEW s \in Sessions, CompletionStep(s) PROVE IdentityInv'
  <2>1. CASE CompletionErase(s)
    BY <2>1, <1>0 DEF IdentityInv, Resting, CompletionErase, identityVars,
      chainVars, EraseEntry
  <2>2. CASE CompletionPurge(s)
    BY <2>2, <1>0 DEF IdentityInv, Resting, CompletionPurge, identityVars,
      chainVars, RemoveEverywhere
  <2> QED
    BY <1>2, <2>1, <2>2 DEF CompletionStep
<1>3. ASSUME NEW s \in Sessions, Start(s) PROVE IdentityInv'
  <2>1. CASE Accept(s)
    BY <2>1, <1>0 DEF IdentityInv, Resting, Accept, identityVars, chainVars,
      completionVars
  <2>2. CASE IgnorePacket(s)
    BY <2>2, <1>0 DEF IdentityInv, Resting, IgnorePacket, Dispatch,
      identityVars, chainVars, completionVars
  <2>3. CASE RejectConnect(s)
    BY <2>3, <1>0 DEF IdentityInv, Resting, RejectConnect, Dispatch,
      identityVars, chainVars, completionVars
  <2>4. ASSUME NEW c \in Identity[s], ReceiveConnect(s, c) PROVE IdentityInv'
    BY <2>4, <1>0 DEF IdentityInv, Resting, ReceiveConnect, Dispatch,
      identityVars, completionVars
  <2>5. ASSUME NEW t \in Topics, ReceiveSubscribe(s, t) PROVE IdentityInv'
    BY <2>5, <1>0 DEF IdentityInv, Resting, ReceiveSubscribe, Dispatch,
      identityVars, completionVars, AddSubscriber
  <2>6. ASSUME NEW t \in Topics, ReceiveUnsubscribe(s, t) PROVE IdentityInv'
    BY <2>6, <1>0 DEF IdentityInv, Resting, ReceiveUnsubscribe, Dispatch,
      identityVars, completionVars, RemoveSubscriber
  <2>7. ASSUME NEW t \in Topics, ReceivePublish(s, t) PROVE IdentityInv'
    BY <2>7, <1>0 DEF IdentityInv, Resting, ReceivePublish, Dispatch,
      identityVars, completionVars
  <2>8. CASE ReadError(s)
    BY <2>8, <1>0 DEF IdentityInv, Resting, ReadError, identityVars,
      chainVars, completionVars
  <2>9. CASE WriteFails(s)
    BY <2>9, <1>0 DEF IdentityInv, Resting, WriteFails, identityVars, chainVars
  <2> QED
    BY <1>3, <2>1, <2>2, <2>3, <2>4, <2>5, <2>6, <2>7, <2>8, <2>9 DEF Start
<1>4. ASSUME NEW s \in Sessions, PeerCloses(s) PROVE IdentityInv'
  BY <1>4, <1>0 DEF IdentityInv, Resting, PeerCloses, identityVars, chainVars,
    completionVars
<1>5. CASE Idle \/ UNCHANGED vars
  BY <1>5, <1>0 DEF IdentityInv, Resting, Idle, vars, identityVars, chainVars,
    completionVars
<1> QED
  BY <1>1, <1>2, <1>3, <1>4, <1>5 DEF Next

\* Nobody disturbs a registration in progress: steps of MutexInv.
LEMMA MutexStep ==
  ASSUME TypeOK, IdentityInv, MutexInv, [Next]_vars
  PROVE  MutexInv'
<1>0. /\ NoSession \notin Sessions
      /\ step \in [Sessions -> Steps] /\ sessions_mutex \in Sessions \cup {NoSession}
      /\ client_id \in [Sessions -> ClientIds \cup {NoClient}]
      /\ sessions \in [ClientIds -> Sessions \cup {NoSession}]
      /\ old \in [Sessions -> Sessions \cup {NoSession}]
      /\ \A r \in Sessions : Registering(r) => client_id[r] \in ClientIds
  BY BrokerAssumption DEF TypeOK, IdentityInv, Registering, Resting
<1>1. ASSUME NEW s \in Sessions, HandlerStep(s) PROVE MutexInv'
  <2>1. CASE AssignIdentity(s)
    BY <2>1, <1>0 DEF MutexInv, AssignIdentity, completionVars
  <2>2. CASE LookUpClient(s)
    BY <2>2, <1>0 DEF MutexInv, LookUpClient, identityVars, completionVars,
      Registering
  <2>3. CASE PurgeOld(s)
    BY <2>3, <1>0 DEF MutexInv, PurgeOld, identityVars, chainVars,
      completionVars
  <2>4. CASE StoreSession(s)
    BY <2>4, <1>0 DEF MutexInv, StoreSession, ReadNext, identityVars,
      completionVars, Registering
  <2>5. CASE SendSuback(s)
    BY <2>5, <1>0 DEF MutexInv, SendSuback, ReadNext, identityVars,
      completionVars
  <2>6. CASE SendUnsuback(s)
    BY <2>6, <1>0 DEF MutexInv, SendUnsuback, ReadNext, identityVars,
      completionVars
  <2>7. ASSUME NEW r \in Sessions, FanOut(s, r) PROVE MutexInv'
    BY <2>7, <1>0 DEF MutexInv, FanOut, identityVars, completionVars
  <2>8. CASE SendPuback(s)
    BY <2>8, <1>0 DEF MutexInv, SendPuback, ReadNext, identityVars,
      completionVars
  <2>9. CASE EraseSession(s)
    BY <2>9, <1>0 DEF MutexInv, EraseSession, identityVars, chainVars,
      completionVars, EraseEntry, Registering
  <2>10. CASE PurgeSession(s)
    BY <2>10, <1>0 DEF MutexInv, PurgeSession, identityVars, chainVars,
      completionVars
  <2> QED
    BY <1>1, <2>1, <2>2, <2>3, <2>4, <2>5, <2>6, <2>7, <2>8, <2>9,
      <2>10 DEF HandlerStep
<1>2. ASSUME NEW s \in Sessions, CompletionStep(s) PROVE MutexInv'
  <2>1. CASE CompletionErase(s)
    BY <2>1, <1>0 DEF MutexInv, CompletionErase, identityVars, chainVars,
      EraseEntry, Registering
  <2>2. CASE CompletionPurge(s)
    BY <2>2, <1>0 DEF MutexInv, CompletionPurge, identityVars, chainVars
  <2> QED
    BY <1>2, <2>1, <2>2 DEF CompletionStep
<1>3. ASSUME NEW s \in Sessions, Start(s) PROVE MutexInv'
  <2>1. CASE Accept(s)
    BY <2>1, <1>0 DEF MutexInv, Accept, identityVars, chainVars, completionVars
  <2>2. CASE IgnorePacket(s)
    BY <2>2, <1>0 DEF MutexInv, IgnorePacket, Dispatch, identityVars,
      chainVars, completionVars
  <2>3. CASE RejectConnect(s)
    BY <2>3, <1>0 DEF MutexInv, RejectConnect, Dispatch, identityVars,
      chainVars, completionVars
  <2>4. ASSUME NEW c \in Identity[s], ReceiveConnect(s, c) PROVE MutexInv'
    BY <2>4, <1>0 DEF MutexInv, ReceiveConnect, Dispatch, identityVars,
      completionVars
  <2>5. ASSUME NEW t \in Topics, ReceiveSubscribe(s, t) PROVE MutexInv'
    BY <2>5, <1>0 DEF MutexInv, ReceiveSubscribe, Dispatch, identityVars,
      completionVars
  <2>6. ASSUME NEW t \in Topics, ReceiveUnsubscribe(s, t) PROVE MutexInv'
    BY <2>6, <1>0 DEF MutexInv, ReceiveUnsubscribe, Dispatch, identityVars,
      completionVars
  <2>7. ASSUME NEW t \in Topics, ReceivePublish(s, t) PROVE MutexInv'
    BY <2>7, <1>0 DEF MutexInv, ReceivePublish, Dispatch, identityVars,
      completionVars
  <2>8. CASE ReadError(s)
    BY <2>8, <1>0 DEF MutexInv, ReadError, identityVars, chainVars,
      completionVars
  <2>9. CASE WriteFails(s)
    BY <2>9, <1>0 DEF MutexInv, WriteFails, identityVars, chainVars
  <2> QED
    BY <1>3, <2>1, <2>2, <2>3, <2>4, <2>5, <2>6, <2>7, <2>8, <2>9 DEF Start
<1>4. ASSUME NEW s \in Sessions, PeerCloses(s) PROVE MutexInv'
  BY <1>4, <1>0 DEF MutexInv, PeerCloses, identityVars, chainVars,
    completionVars
<1>5. CASE Idle \/ UNCHANGED vars
  BY <1>5, <1>0 DEF MutexInv, Idle, vars, identityVars, chainVars,
    completionVars
<1> QED
  BY <1>1, <1>2, <1>3, <1>4, <1>5 DEF Next

\* Locals do not outlive their handler: steps of LocalsInv.
LEMMA LocalsStep ==
  ASSUME TypeOK, LocalsInv, [Next]_vars
  PROVE  LocalsInv'
<1>1. ASSUME NEW s \in Sessions, HandlerStep(s) PROVE LocalsInv'
  <2>1. CASE AssignIdentity(s)
    BY <2>1 DEF LocalsInv, TypeOK, AssignIdentity, completionVars
  <2>2. CASE LookUpClient(s)
    BY <2>2 DEF LocalsInv, TypeOK, LookUpClient, identityVars, completionVars
  <2>3. CASE PurgeOld(s)
    BY <2>3 DEF LocalsInv, TypeOK, PurgeOld, identityVars, chainVars,
      completionVars
  <2>4. CASE StoreSession(s)
    BY <2>4 DEF LocalsInv, TypeOK, StoreSession, ReadNext, identityVars,
      completionVars
  <2>5. CASE SendSuback(s)
    BY <2>5 DEF LocalsInv, TypeOK, SendSuback, ReadNext, identityVars,
      completionVars
  <2>6. CASE SendUnsuback(s)
    BY <2>6 DEF LocalsInv, TypeOK, SendUnsuback, ReadNext, identityVars,
      completionVars
  <2>7. ASSUME NEW r \in Sessions, FanOut(s, r) PROVE LocalsInv'
    BY <2>7 DEF LocalsInv, TypeOK, FanOut, identityVars, completionVars
  <2>8. CASE SendPuback(s)
    BY <2>8 DEF LocalsInv, TypeOK, SendPuback, ReadNext, identityVars,
      completionVars
  <2>9. CASE EraseSession(s)
    BY <2>9 DEF LocalsInv, TypeOK, EraseSession, identityVars, chainVars,
      completionVars
  <2>10. CASE PurgeSession(s)
    BY <2>10 DEF LocalsInv, TypeOK, PurgeSession, identityVars, chainVars,
      completionVars
  <2> QED
    BY <1>1, <2>1, <2>2, <2>3, <2>4, <2>5, <2>6, <2>7, <2>8, <2>9,
      <2>10 DEF HandlerStep
<1>2. ASSUME NEW s \in Sessions, CompletionStep(s) PROVE LocalsInv'
  <2>1. CASE CompletionErase(s)
    BY <2>1 DEF LocalsInv, TypeOK, CompletionErase, identityVars, chainVars
  <2>2. CASE CompletionPurge(s)
    BY <2>2 DEF LocalsInv, TypeOK, CompletionPurge, identityVars, chainVars
  <2> QED
    BY <1>2, <2>1, <2>2 DEF CompletionStep
<1>3. ASSUME NEW s \in Sessions, Start(s) PROVE LocalsInv'
  <2>1. CASE Accept(s)
    BY <2>1 DEF LocalsInv, TypeOK, Accept, identityVars, chainVars,
      completionVars
  <2>2. CASE IgnorePacket(s)
    BY <2>2 DEF LocalsInv, TypeOK, IgnorePacket, Dispatch, identityVars,
      chainVars, completionVars
  <2>3. CASE RejectConnect(s)
    BY <2>3 DEF LocalsInv, TypeOK, RejectConnect, Dispatch, identityVars,
      chainVars, completionVars
  <2>4. ASSUME NEW c \in Identity[s], ReceiveConnect(s, c) PROVE LocalsInv'
    BY <2>4 DEF LocalsInv, TypeOK, ReceiveConnect, Dispatch, identityVars,
      completionVars
  <2>5. ASSUME NEW t \in Topics, ReceiveSubscribe(s, t) PROVE LocalsInv'
    BY <2>5 DEF LocalsInv, TypeOK, ReceiveSubscribe, Dispatch, identityVars,
      completionVars
  <2>6. ASSUME NEW t \in Topics, ReceiveUnsubscribe(s, t) PROVE LocalsInv'
    BY <2>6 DEF LocalsInv, TypeOK, ReceiveUnsubscribe, Dispatch, identityVars,
      completionVars
  <2>7. ASSUME NEW t \in Topics, ReceivePublish(s, t) PROVE LocalsInv'
    BY <2>7 DEF LocalsInv, TypeOK, ReceivePublish, Dispatch, identityVars,
      completionVars
  <2>8. CASE ReadError(s)
    BY <2>8 DEF LocalsInv, TypeOK, ReadError, identityVars, chainVars,
      completionVars
  <2>9. CASE WriteFails(s)
    BY <2>9 DEF LocalsInv, TypeOK, WriteFails, identityVars, chainVars
  <2> QED
    BY <1>3, <2>1, <2>2, <2>3, <2>4, <2>5, <2>6, <2>7, <2>8, <2>9 DEF Start
<1>4. ASSUME NEW s \in Sessions, PeerCloses(s) PROVE LocalsInv'
  BY <1>4 DEF LocalsInv, TypeOK, PeerCloses, identityVars, chainVars,
    completionVars
<1>5. CASE Idle \/ UNCHANGED vars
  BY <1>5 DEF LocalsInv, TypeOK, Idle, vars, identityVars, chainVars,
    completionVars
<1> QED
  BY <1>1, <1>2, <1>3, <1>4, <1>5 DEF Next

\* No duplicates, and nothing of an ended session: steps of TopicInv.
LEMMA TopicStep ==
  ASSUME TypeOK, IdentityInv, TopicInv, [Next]_vars
  PROVE  TopicInv'
<1>0. /\ step \in [Sessions -> Steps]
      /\ left \in [Sessions -> [Sessions -> Nat]]
      /\ topic_subscribers \in [Topics -> [Sessions -> Nat]]
  BY DEF TypeOK
<1>1. ASSUME NEW s \in Sessions, HandlerStep(s) PROVE TopicInv'
  <2>1. CASE AssignIdentity(s)
    BY <2>1, <1>0 DEF TopicInv, AssignIdentity, completionVars
  <2>2. CASE LookUpClient(s)
    BY <2>2, <1>0 DEF TopicInv, LookUpClient, identityVars, completionVars
  <2>3. CASE PurgeOld(s)
    BY <2>3, <1>0 DEF TopicInv, PurgeOld, identityVars, chainVars,
      completionVars, RemoveEverywhere
  <2>4. CASE StoreSession(s)
    BY <2>4, <1>0 DEF TopicInv, StoreSession, ReadNext, identityVars,
      completionVars
  <2>5. CASE SendSuback(s)
    BY <2>5, <1>0 DEF TopicInv, SendSuback, ReadNext, identityVars,
      completionVars
  <2>6. CASE SendUnsuback(s)
    BY <2>6, <1>0 DEF TopicInv, SendUnsuback, ReadNext, identityVars,
      completionVars
  <2>7. ASSUME NEW r \in Sessions, FanOut(s, r) PROVE TopicInv'
    BY <2>7, <1>0 DEF TopicInv, FanOut, identityVars, completionVars
  <2>8. CASE SendPuback(s)
    BY <2>8, <1>0 DEF TopicInv, SendPuback, ReadNext, identityVars,
      completionVars
  <2>9. CASE EraseSession(s)
    BY <2>9, <1>0 DEF TopicInv, EraseSession, identityVars, chainVars,
      completionVars
  <2>10. CASE PurgeSession(s)
    BY <2>10, <1>0 DEF TopicInv, PurgeSession, identityVars, chainVars,
      completionVars, RemoveEverywhere
  <2> QED
    BY <1>1, <2>1, <2>2, <2>3, <2>4, <2>5, <2>6, <2>7, <2>8, <2>9,
      <2>10 DEF HandlerStep
<1>2. ASSUME NEW s \in Sessions, CompletionStep(s) PROVE TopicInv'
  <2>1. CASE CompletionErase(s)
    BY <2>1, <1>0 DEF TopicInv, CompletionErase, identityVars, chainVars
  <2>2. CASE CompletionPurge(s)
    BY <2>2, <1>0 DEF TopicInv, CompletionPurge, identityVars, chainVars,
      RemoveEverywhere
  <2> QED
    BY <1>2, <2>1, <2>2 DEF CompletionStep
<1>3. ASSUME NEW s \in Sessions, Start(s) PROVE TopicInv'
  <2>1. CASE Accept(s)
    BY <2>1, <1>0 DEF TopicInv, Accept, identityVars, chainVars, completionVars
  <2>2. CASE IgnorePacket(s)
    BY <2>2, <1>0 DEF TopicInv, IgnorePacket, Dispatch, identityVars,
      chainVars, completionVars
  <2>3. CASE RejectConnect(s)
    BY <2>3, <1>0 DEF TopicInv, RejectConnect, Dispatch, identityVars,
      chainVars, completionVars
  <2>4. ASSUME NEW c \in Identity[s], ReceiveConnect(s, c) PROVE TopicInv'
    BY <2>4, <1>0 DEF TopicInv, ReceiveConnect, Dispatch, identityVars,
      completionVars
  <2>5. ASSUME NEW t \in Topics, ReceiveSubscribe(s, t) PROVE TopicInv'
    BY <2>5, <1>0 DEF TopicInv, ReceiveSubscribe, Dispatch, identityVars,
      completionVars, AddSubscriber
  <2>6. ASSUME NEW t \in Topics, ReceiveUnsubscribe(s, t) PROVE TopicInv'
    BY <2>6, <1>0 DEF TopicInv, ReceiveUnsubscribe, Dispatch, identityVars,
      completionVars, RemoveSubscriber
  <2>7. ASSUME NEW t \in Topics, ReceivePublish(s, t) PROVE TopicInv'
    BY <2>7, <1>0 DEF TopicInv, ReceivePublish, Dispatch, identityVars,
      completionVars
  <2>8. CASE ReadError(s)
    BY <2>8, <1>0, IdentityInv DEF TopicInv, ReadError, identityVars,
      chainVars, completionVars, IdentityInv
  <2>9. CASE WriteFails(s)
    BY <2>9, <1>0 DEF TopicInv, WriteFails, identityVars, chainVars
  <2> QED
    BY <1>3, <2>1, <2>2, <2>3, <2>4, <2>5, <2>6, <2>7, <2>8, <2>9 DEF Start
<1>4. ASSUME NEW s \in Sessions, PeerCloses(s) PROVE TopicInv'
  BY <1>4, <1>0 DEF TopicInv, PeerCloses, identityVars, chainVars,
    completionVars
<1>5. CASE Idle \/ UNCHANGED vars
  BY <1>5, <1>0 DEF TopicInv, Idle, vars, identityVars, chainVars,
    completionVars
<1> QED
  BY <1>1, <1>2, <1>3, <1>4, <1>5 DEF Next

\* A session that erased its entry stays out of the registry: steps of
\* RegistryInv.
LEMMA RegistryStep ==
  ASSUME TypeOK, IdentityInv, RegistryInv, [Next]_vars
  PROVE  RegistryInv'
<1>0. /\ step \in [Sessions -> Steps]
      /\ sessions \in [ClientIds -> Sessions \cup {NoSession}]
      /\ NoSession \notin Sessions
  BY BrokerAssumption DEF TypeOK
<1>a. ASSUME OneIdentity, NEW s \in Sessions, NEW c \in ClientIds, sessions[c] = s
      PROVE  c = client_id[s]
  BY <1>a, BrokerAssumption DEF IdentityInv, OneIdentity
<1>1. ASSUME NEW s \in Sessions, HandlerStep(s) PROVE RegistryInv'
  <2>1. CASE AssignIdentity(s)
    BY <2>1, <1>0 DEF RegistryInv, AssignIdentity, completionVars
  <2>2. CASE LookUpClient(s)
    BY <2>2, <1>0 DEF RegistryInv, LookUpClient, identityVars, completionVars
  <2>3. CASE PurgeOld(s)
    BY <2>3, <1>0 DEF RegistryInv, PurgeOld, identityVars, chainVars,
      completionVars
  <2>4. CASE StoreSession(s)
    BY <2>4, <1>0 DEF RegistryInv, StoreSession, ReadNext, identityVars,
      completionVars
  <2>5. CASE SendSuback(s)
    BY <2>5, <1>0 DEF RegistryInv, SendSuback, ReadNext, identityVars,
      completionVars
  <2>6. CASE SendUnsuback(s)
    BY <2>6, <1>0 DEF RegistryInv, SendUnsuback, ReadNext, identityVars,
      completionVars
  <2>7. ASSUME NEW r \in Sessions, FanOut(s, r) PROVE RegistryInv'
    BY <2>7, <1>0 DEF RegistryInv, FanOut, identityVars, completionVars
  <2>8. CASE SendPuback(s)
    BY <2>8, <1>0 DEF RegistryInv, SendPuback, ReadNext, identityVars,
      completionVars
  <2>9. CASE EraseSession(s)
    BY <2>9, <1>0, <1>a DEF RegistryInv, EraseSession, identityVars,
      chainVars, completionVars, EraseEntry
  <2>10. CASE PurgeSession(s)
    BY <2>10, <1>0 DEF RegistryInv, PurgeSession, identityVars, chainVars,
      completionVars
  <2> QED
    BY <1>1, <2>1, <2>2, <2>3, <2>4, <2>5, <2>6, <2>7, <2>8, <2>9,
      <2>10 DEF HandlerStep
<1>2. ASSUME NEW s \in Sessions, CompletionStep(s) PROVE RegistryInv'
  <2>1. CASE CompletionErase(s)
    BY <2>1, <1>0 DEF RegistryInv, CompletionErase, identityVars, chainVars,
      EraseEntry
  <2>2. CASE CompletionPurge(s)
    BY <2>2, <1>0 DEF RegistryInv, CompletionPurge, identityVars, chainVars
  <2> QED
    BY <1>2, <2>1, <2>2 DEF CompletionStep
<1>3. ASSUME NEW s \in Sessions, Start(s) PROVE RegistryInv'
  <2>1. CASE Accept(s)
    BY <2>1, <1>0 DEF RegistryInv, Accept, identityVars, chainVars,
      completionVars
  <2>2. CASE IgnorePacket(s)
    BY <2>2, <1>0 DEF RegistryInv, IgnorePacket, Dispatch, identityVars,
      chainVars, completionVars
  <2>3. CASE RejectConnect(s)
    BY <2>3, <1>0 DEF RegistryInv, RejectConnect, Dispatch, identityVars,
      chainVars, completionVars
  <2>4. ASSUME NEW c \in Identity[s], ReceiveConnect(s, c) PROVE RegistryInv'
    BY <2>4, <1>0 DEF RegistryInv, ReceiveConnect, Dispatch, identityVars,
      completionVars
  <2>5. ASSUME NEW t \in Topics, ReceiveSubscribe(s, t) PROVE RegistryInv'
    BY <2>5, <1>0 DEF RegistryInv, ReceiveSubscribe, Dispatch, identityVars,
      completionVars
  <2>6. ASSUME NEW t \in Topics, ReceiveUnsubscribe(s, t) PROVE RegistryInv'
    BY <2>6, <1>0 DEF RegistryInv, ReceiveUnsubscribe, Dispatch, identityVars,
      completionVars
  <2>7. ASSUME NEW t \in Topics, ReceivePublish(s, t) PROVE RegistryInv'
    BY <2>7, <1>0 DEF RegistryInv, ReceivePublish, Dispatch, identityVars,
      completionVars
  <2>8. CASE ReadError(s)
    BY <2>8, <1>0, IdentityInv DEF RegistryInv, ReadError, identityVars,
      chainVars, completionVars, IdentityInv
  <2>9. CASE WriteFails(s)
    BY <2>9, <1>0 DEF RegistryInv, WriteFails, identityVars, chainVars
  <2> QED
    BY <1>3, <2>1, <2>2, <2>3, <2>4, <2>5, <2>6, <2>7, <2>8, <2>9 DEF Start
<1>4. ASSUME NEW s \in Sessions, PeerCloses(s) PROVE RegistryInv'
  BY <1>4, <1>0 DEF RegistryInv, PeerCloses, identityVars, chainVars,
    completionVars
<1>5. CASE Idle \/ UNCHANGED vars
  BY <1>5, <1>0 DEF RegistryInv, Idle, vars, identityVars, chainVars,
    completionVars
<1> QED
  BY <1>1, <1>2, <1>3, <1>4, <1>5 DEF Next
-----------------------------------------------------------------------------
(* TypeOK and TablesInv are inductive together.                            *)

LEMMA InitTables == Init => TablesInv
<1> SUFFICES ASSUME Init PROVE TablesInv
  OBVIOUS
<1> USE BrokerAssumption DEF Init, EmptyBag
<1>1. LinkInv
  BY DEF LinkInv, Leaving
<1>2. IdentityInv
  BY DEF IdentityInv, Resting
<1>3. MutexInv
  BY DEF MutexInv
<1>4. LocalsInv
  BY DEF LocalsInv
<1>5. TopicInv
  BY DEF TopicInv
<1>6. RegistryInv
  BY DEF RegistryInv
<1> QED
  BY <1>1, <1>2, <1>3, <1>4, <1>5, <1>6 DEF TablesInv

LEMMA NextTables == TypeOK /\ TablesInv /\ [Next]_vars => TypeOK' /\ TablesInv'
<1> SUFFICES ASSUME TypeOK, TablesInv, [Next]_vars PROVE TypeOK' /\ TablesInv'
  OBVIOUS
<1> USE DEF TablesInv
<1>1. TypeOK'
  BY NextTypes
<1>2. LinkInv'
  BY LinkStep
<1>3. IdentityInv'
  BY IdentityStep
<1>4. MutexInv'
  BY MutexStep
<1>5. LocalsInv'
  BY LocalsStep
<1>6. TopicInv'
  BY TopicStep
<1>7. RegistryInv'
  BY RegistryStep
<1> QED
  BY <1>1, <1>2, <1>3, <1>4, <1>5, <1>6, <1>7

\* Every reachable state is well typed and satisfies TablesInv, for any number
\* of sessions, clients, topics and threads.
THEOREM Tables == Spec => [](TypeOK /\ TablesInv)
<1>1. Init => TypeOK /\ TablesInv
  BY InitTypes, InitTables
<1>2. TypeOK /\ TablesInv /\ [Next]_vars => TypeOK' /\ TablesInv'
  BY NextTables
<1> QED
  BY <1>1, <1>2, PTL DEF Spec

\* Every variable keeps its type; for `old' this needs that register_session()
\* only ever looks up the id of a client.
THEOREM TypeCorrect == Spec => []TypeOK
  BY Tables, PTL

\* The entry that register_session() found is there until it replaces it, though
\* it purges the topic table in between: no removal gets past sessions_mutex_.
THEOREM RegistrationSafe == Spec => []RegistrationStable
<1>1. TypeOK /\ TablesInv => RegistrationStable
  BY DEF TablesInv, MutexInv, RegistrationStable
<1> QED
  BY <1>1, Tables, PTL

\* A session whose chain of reads has ended is in no topic's list, in any
\* interleaving with its failed writes, takeovers and other sessions.
THEOREM EndedForgotten == Spec => []EndedHoldsNoSubscription
<1>1. TypeOK /\ TablesInv => EndedHoldsNoSubscription
  BY DEF TablesInv, TopicInv, EndedHoldsNoSubscription
<1> QED
  BY <1>1, Tables, PTL

\* With one id per connection, nor is it in the registry.
THEOREM EndedUnregistered == Spec => []EndedNotRegistered
<1>1. TypeOK /\ TablesInv => EndedNotRegistered
  BY DEF TablesInv, RegistryInv, EndedNotRegistered
<1> QED
  BY <1>1, Tables, PTL
=============================================================================
