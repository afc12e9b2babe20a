---------------------------- MODULE MCRawUartTx ----------------------------
(* Instances of RawUartTx for TLC.                                         *)
EXTENDS RawUartTx, TLC

Symmetry == Permutations(Conns)
=============================================================================
