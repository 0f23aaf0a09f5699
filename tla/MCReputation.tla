---------------------------- MODULE MCReputation ----------------------------
(* Small instances of Reputation for TLC. *)
EXTENDS Reputation

CONSTANTS c1, raw, text

\* c1 is a hex string, raw a byte string that JSON turns into text
Texts == [d \in Developers |-> IF d = raw THEN text ELSE d]

FiveTwo == [other |-> 5, self |-> 2]
NoneThree == [other |-> 0, self |-> 3]
TwoWeights == {FiveTwo, NoneThree}
OneWeight == {FiveTwo}
=============================================================================
