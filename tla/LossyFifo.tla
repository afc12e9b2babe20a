----------------------------- MODULE LossyFifo -----------------------------
(***************************************************************************)
(* What the receive buffer of a raw UART promises its readers: a bounded   *)
(* first-in first-out queue that loses a character only when it is full at *)
(* the moment the character arrives, and then the arriving one.            *)
(* Characters are numbered in the order of their arrival.                  *)
(***************************************************************************)
EXTENDS Naturals, Sequences

CONSTANT Capacity

VARIABLES
  seen,   (* how many characters have arrived  *)
  queue,  (* the ones kept, oldest first       *)
  out     (* the ones handed to readers        *)

vars == <<seen, queue, out>>

Init == seen = 0 /\ queue = <<>> /\ out = <<>>

Arrive ==
  /\ seen' = seen + 1
  /\ \/ Len(queue) < Capacity /\ queue' = Append(queue, seen + 1)
     \/ Len(queue) = Capacity /\ UNCHANGED queue
  /\ UNCHANGED out

Deliver(n) ==
  /\ n \in 1..Len(queue)
  /\ out' = out \o SubSeq(queue, 1, n)
  /\ queue' = SubSeq(queue, n + 1, Len(queue))
  /\ UNCHANGED seen

Next == Arrive \/ \E n \in 1..Len(queue) : Deliver(n)

Spec == Init /\ [][Next]_vars
=============================================================================
