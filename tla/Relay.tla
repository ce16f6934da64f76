------------------------------- MODULE Relay --------------------------------
(***************************************************************************)
(* What the bridge promises the devices: the lines get their outcomes in   *)
(* the order in which they were taken, each of them once and none left     *)
(* out, until some moment after which none is promised any more.           *)
(***************************************************************************)
EXTENDS Naturals, Sequences

CONSTANTS
  Topics,
  Outcome   \* what becomes of a line, by its topic

VARIABLES
  taken,   \* the topics of the lines taken
  given,   \* what became of the lines given on
  open     \* there may be a way to give them on

vars == <<taken, given, open>>

Init == taken = <<>> /\ given = <<>> /\ open = TRUE

Take(t) ==
  /\ taken' = Append(taken, t)
  /\ UNCHANGED <<given, open>>

Give ==
  /\ open /\ Len(given) < Len(taken)
  /\ given' = Append(given, Outcome[taken[Len(given) + 1]])
  /\ UNCHANGED <<taken, open>>

\* For good: nothing is said of what was taken and not given on.
Close ==
  /\ open /\ open' = FALSE
  /\ UNCHANGED <<taken, given>>

Next == (\E t \in Topics : Take(t)) \/ Give \/ Close

Spec == Init /\ [][Next]_vars
=============================================================================
