------------------------------ MODULE MCEncoder ------------------------------
(* The encoder module, and what the encoder component keeps for its pictures,  *)
(* each checked by itself: `subject' says which of the two a behaviour is      *)
(* about, and the variables of the other stay as they begin.                   *)
EXTENDS EncModule, EncComponent, TLC

VARIABLE subject

\* plain, with the configuration apart, and with a look-ahead of two pictures
Plain == [la |-> 0, separate |-> FALSE]
EncSettings == {Plain, [la |-> 0, separate |-> TRUE], [la |-> 2, separate |-> FALSE]}

EncoderInit ==
  /\ subject \in {"module", "pictures"}
  /\ Init /\ (subject # "module" => media = Plain)
  /\ PicturesInit

\* bound: a flush or a freed header, or a third picture
FewWithFlush == flushes = 0 \/ sent <= 2

EncoderNext ==
  \/ subject = "module" /\ Next /\ UNCHANGED <<subject, pictureVars>>
  \/ subject = "pictures" /\ PicturesNext /\ FewWithFlush' /\ UNCHANGED <<subject, vars>>

EncoderSpec == EncoderInit /\ [][EncoderNext]_<<subject, vars, pictureVars>>

Symm == Permutations(Sources) \cup Permutations(Streams)
=============================================================================
