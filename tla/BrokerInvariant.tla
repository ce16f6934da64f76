-------------------------- MODULE BrokerInvariant --------------------------
(***************************************************************************)
(* The inductive invariant behind the safety properties of Broker, in      *)
(* parts.  BrokerProofs proves that every step preserves it; TLC checks it *)
(* on the instances of MCBroker.                                           *)
(***************************************************************************)
EXTENDS Broker

\* The handler of s is inside register_session() / serves a request that it
\* has not answered yet / is past its last read.
Registering(s) == step[s] \in {"registering", "purging_old", "storing"}
Serving(s) == step[s] \in {"connecting", "suback", "unsuback", "fanout"}
Leaving(s) == step[s] \in {"erasing", "purging", "ended"}

\* The connection exists from Accept on, and only a session that lost its
\* connection is removed, by its own chain or by a failed write.
LinkInv ==
  \A s \in Sessions :
    /\ step[s] = "none" <=> socket[s] = "unaccepted"
    /\ Leaving(s) \/ erasing[s] > 0 \/ purging[s] > 0
         => socket[s] \in {"peer_closed", "closed"}

\* Only a session that completed CONN is authenticated, is registered, is
\* subscribed or has anything to remove, and only under ids its peer presents.
IdentityInv ==
  \A s \in Sessions :
    /\ client_id[s] \in Identity[s] \cup {NoClient}
    /\ step[s] = "connecting" => new_id[s] \in Identity[s]
    /\ is_authenticated[s] <=> client_id[s] # NoClient
    /\ step[s] \notin Resting \cup {"connecting"} => client_id[s] # NoClient
    /\ step[s] = "none" => client_id[s] = NoClient
    /\ \A c \in ClientIds : sessions[c] = s => c \in Identity[s] /\ client_id[s] # NoClient
    /\ \A t \in Topics : topic_subscribers[t][s] > 0 => client_id[s] # NoClient

\* sessions_mutex_ is held exactly from the lookup to the store, and what was
\* looked up stays true meanwhile.
MutexInv ==
  \A s \in Sessions :
    /\ step[s] \in {"purging_old", "storing"} <=> sessions_mutex = s
    /\ sessions_mutex = s => sessions[client_id[s]] = old[s]
    /\ step[s] = "purging_old" => old[s] # NoSession

\* The locals of a handler do not outlive it.
LocalsInv ==
  \A s \in Sessions :
    /\ step[s] \notin {"suback", "unsuback", "fanout"} => topic[s] = NoTopic
    /\ step[s] # "fanout" => left[s] = EmptyBag

\* A vector of subscribers has no duplicates, nor has a copy of it, and it
\* has no entry of a session whose chain has ended.
TopicInv ==
  \A s \in Sessions :
    /\ \A r \in Sessions : left[s][r] <= 1
    /\ \A t \in Topics : /\ topic_subscribers[t][s] <= 1
                         /\ step[s] = "ended" => topic_subscribers[t][s] = 0

\* With one id per connection, a session that erased its entry is nowhere in
\* the registry.
RegistryInv ==
  OneIdentity => \A s \in Sessions : step[s] \in {"purging", "ended"} =>
    \A c \in ClientIds : sessions[c] # s

\* A packet m sent to r numbers a request that its sender has taken; if s still
\* has a message for r in its copy, or owes an answer, that is a later request.
Numbered(r, m) ==
  /\ m.seq <= received[m.from]
  /\ m.type = "PUB" /\ step[m.from] = "fanout" /\ left[m.from][r] > 0
       => m.seq < received[m.from]
  /\ m.type \in Acks => m.from = r /\ (Serving(r) => m.seq < received[r])

SequenceInv ==
  \A r \in Sessions : \A i \in DOMAIN out[r] : Numbered(r, out[r][i])

TablesInv ==
  /\ LinkInv
  /\ IdentityInv
  /\ MutexInv
  /\ LocalsInv
  /\ TopicInv
  /\ RegistryInv

OrderInv ==
  /\ SequenceInv
  /\ PublisherOrder
  /\ AnswersInOrder

IInv == TypeOK /\ TablesInv /\ OrderInv
=============================================================================
