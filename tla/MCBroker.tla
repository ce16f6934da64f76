------------------------------ MODULE MCBroker ------------------------------
(***************************************************************************)
(* Constants of the TLC runs of Broker.                                    *)
(***************************************************************************)
EXTENDS BrokerRefinement, BrokerInvariant, TLC

CONSTANTS s1, s2, s3, c, d, t, u

\* Two connections of one client: reconnection and takeover.
SameClient == [s \in Sessions |-> {c}]

\* Two connections of client c and one of client d.
Reconnecting == (s1 :> {c}) @@ (s2 :> {c}) @@ (s3 :> {d})

\* A connection that may present two ids, one after the other.
TwoNames == (s1 :> {c, d}) @@ (s2 :> {c})

\* Packets read from each session.
Three == [s \in Sessions |-> 3]
Two == [s \in Sessions |-> 2]
ThreeThenTwo == (s1 :> 3) @@ (s2 :> 2)
TwoOneTwo == (s1 :> 2) @@ (s2 :> 1) @@ (s3 :> 2)

\* SameClient treats all sessions alike.
AllAlike == Permutations(Sessions)
=============================================================================
