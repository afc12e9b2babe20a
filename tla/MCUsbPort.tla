----------------------------- MODULE MCUsbPort -----------------------------
(* Instances of UsbPort for TLC.                                           *)
EXTENDS UsbPort, TLC

Symmetry == Permutations(Files)
=============================================================================
