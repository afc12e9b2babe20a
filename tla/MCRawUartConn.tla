--------------------------- MODULE MCRawUartConn ---------------------------
(* Instances of RawUartConn for TLC.                                       *)
EXTENDS RawUartConn, TLC

Symmetry == Permutations(Files)
=============================================================================
