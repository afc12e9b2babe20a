----------------------------- MODULE MCFakeHmrf -----------------------------
(* Instances of FakeHmrf for TLC.                                          *)
EXTENDS FakeHmrf, TLC

Symmetry == Permutations(Writers)

(* Start the bootloader, identify it, and tell the address, with counters  *)
(* that have to be escaped.                                                *)
MCAnswered ==
  { [dst |-> d, cnt |-> c, cmd |-> <<k>>] :
      <<d, k, c>> \in { <<COMMON, 2, 253>>, <<SYSTEM, 0, 1>>, <<LLMAC, 8, 252>> } }

(* Requests that nobody answers: of all counters, to destinations that     *)
(* have to be escaped or not, those with a byte in the checksum that has.  *)
MCUnanswered ==
  { frame \in [dst: {5, 252, 253}, cnt: 0..255, cmd: {<<200>>}] :
      LET bytes == EncodeFrame(frame)
      IN \E i \in 7..8 : bytes[i] \in {START, ESCAPE} }
MCRequests == MCAnswered \cup MCUnanswered

(* A frame with a wrong checksum, and a buffer that is too long.           *)
MCGarbage == { <<253, 0, 3, 254, 1, 1, 0, 0>>, [i \in 1..1025 |-> 253] }

(* 0x4F68f1, the default, is accepted and 0x4G0000 is not.                 *)
MCMacs == { <<48, 120, 52, 70, 54, 56, 102, 49>>, <<48, 120, 52, 71, 48, 48, 48, 48>> }
MCVersions == { <<2, 8, 6>>, <<2, 8>>, <<2, 8, 256>> }
MCSerials == { <<70, 75, 69, 49, 50, 51, 52, 53, 54, 55>>, <<70, 75>> }
=============================================================================
