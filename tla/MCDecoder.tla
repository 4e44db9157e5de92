------------------------------ MODULE MCDecoder ------------------------------
(* The decoder module, and the time stamps of the decoder component, each      *)
(* checked by itself, as in MCEncoder.                                         *)
EXTENDS DecModule, DecComponent, TLC

VARIABLE subject

\* the decoder parses the input, or gets it parsed, with the early callback too
Unparsed == [parsed |-> FALSE, early |-> FALSE]
DecSettings == {Unparsed, [parsed |-> TRUE, early |-> FALSE], [parsed |-> TRUE, early |-> TRUE]}

DecoderInit ==
  /\ subject \in {"module", "time stamps"}
  /\ Init /\ (subject # "module" => media = Unparsed /\ allocated = {})
  /\ StampsInit

DecoderNext ==
  \/ subject = "module" /\ Next /\ UNCHANGED <<subject, stampVars>>
  \/ subject = "time stamps" /\ StampsNext /\ UNCHANGED <<subject, vars>>

DecoderSpec == DecoderInit /\ [][DecoderNext]_<<subject, vars, stampVars>>

Symm == Permutations(Inputs) \cup Permutations(Frames)
=============================================================================
