----------------------------- MODULE MCEq3Loop -----------------------------
(* Instances of Eq3Loop for TLC.                                           *)
EXTENDS Eq3Loop

(* How much is written to the rings: enough to wrap one around, or a byte. *)
Wrapping == [m2s |-> 5, s2m |-> 0]
OneByte == [m2s |-> 1, s2m |-> 1]
TwoBytes == [m2s |-> 2, s2m |-> 2]
=============================================================================
