------------------------------ MODULE CircBuf ------------------------------
(***************************************************************************)
(* The macros of linux/circ_buf.h as generic_raw_uart.c, eq3_char_loop.c   *)
(* and fake_hmrf.c use them.  size is a power of two, so that masking with *)
(* size - 1 is the remainder, for negative operands too.  A ring of size   *)
(* slots holds at most size - 1 elements.                                  *)
(***************************************************************************)
LOCAL INSTANCE Integers

(* The number of elements between tail and head.                           *)
CIRC_CNT(head, tail, size) == (head - tail) % size

(* The number of free slots.                                               *)
CIRC_SPACE(head, tail, size) == CIRC_CNT(tail, head + 1, size)

(* The number of elements up to the end of the array.                      *)
CIRC_CNT_TO_END(head, tail, size) ==
  LET end == size - tail
      n == (head + end) % size
  IN IF n < end THEN n ELSE end

(* The number of free slots up to the end of the array.                    *)
CIRC_SPACE_TO_END(head, tail, size) ==
  LET end == size - 1 - head
      n == (end + tail) % size
  IN IF n <= end THEN n ELSE end + 1
=============================================================================
