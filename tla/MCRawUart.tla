----------------------------- MODULE MCRawUart -----------------------------
(* Instances of RawUart for TLC.                                           *)
EXTENDS RawUart
=============================================================================
