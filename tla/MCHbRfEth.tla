----------------------------- MODULE MCHbRfEth -----------------------------
(* Instances of HbRfEth for TLC.                                           *)
EXTENDS HbRfEth
=============================================================================
