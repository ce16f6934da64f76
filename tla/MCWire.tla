------------------------------- MODULE MCWire -------------------------------
(***************************************************************************)
(* Constants of the TLC runs of Wire.                                      *)
(***************************************************************************)
EXTENDS Wire

Publication(topic, message) == [type |-> Pub, topic |-> topic, message |-> message]

(***************************************************************************)
(* With Base = 3, a length field counts to 8 and a topic length to 2: an   *)
(* acknowledgement, a message that fits, an empty one, a topic too long    *)
(* for its length byte, a message that fits the length field but not one   *)
(* transfer (12 bytes against 11), and one too long for the length field.  *)
(***************************************************************************)
Mixed ==
  {[type |-> Ack, topic |-> <<>>, message |-> <<>>],
   Publication(<<1, 2>>, <<0>>),
   Publication(<<2>>, <<>>),
   Publication(<<1, 0, 2>>, <<1, 1>>),
   Publication(<<2>>, <<1, 0, 0, 1, 0, 0>>),
   Publication(<<2>>, <<1, 0, 0, 1, 0, 0, 0>>)}
=============================================================================
