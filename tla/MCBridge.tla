------------------------------ MODULE MCBridge ------------------------------
(***************************************************************************)
(* Constants of the TLC run of Bridge.                                     *)
(***************************************************************************)
EXTENDS Bridge

CONSTANTS t1, t2, t3, t4, t5

\* Two devices: the first sends a line that cannot be parsed between two others, the
\* last one of the second is cut short.
TwoDevices == <<<<t1, Bad, t2>>, <<t3, t5, t4, t1, Cut>>>>
=============================================================================
