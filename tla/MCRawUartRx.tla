---------------------------- MODULE MCRawUartRx ----------------------------
(* Instances of RawUartRx for TLC.                                         *)
EXTENDS RawUartRx
=============================================================================
