------------------------- MODULE RawUartRx_proofs --------------------------
(* Proofs about the receive side of the raw UART (RawUartRx), for a ring   *)
(* of any size, any number of readers and any number of characters.        *)
EXTENDS RawUartRx, TLAPS, SequenceTheorems

-----------------------------------------------------------------------------
(* What the macros of linux/circ_buf.h return, for a ring of any size.     *)
(* head and tail may equal size, as they do in the driver between an       *)
(* increment and the wrap to 0 that follows it.                            *)

(* The elements from tail up to head, around the end of the array.         *)
Elements(h, t, size) ==
  IF h - t = size THEN 0
  ELSE IF h >= t THEN h - t ELSE h - t + size

(* CIRC_CNT is the number of elements in a ring that never holds more than *)
(* size - 1.                                                               *)
THEOREM CircCnt ==
  ASSUME NEW size \in Nat \ {0}, NEW h \in 0..size, NEW t \in 0..size
  PROVE  /\ CIRC_CNT(h, t, size) = Elements(h, t, size)
         /\ CIRC_CNT(h, t, size) \in 0..(size - 1)
BY DEF CIRC_CNT, Elements

(* CIRC_SPACE is what is left of size - 1.                                 *)
LEMMA CircSpace ==
  ASSUME NEW size \in Nat \ {0}, NEW h \in 0..size, NEW t \in 0..size
  PROVE  CIRC_SPACE(h, t, size) = size - 1 - CIRC_CNT(h, t, size)
<1>1. CIRC_CNT(h, t, size) = Elements(h, t, size)
  BY CircCnt
<1>2. CIRC_SPACE(h, t, size) = (t - (h + 1)) % size
  BY DEF CIRC_SPACE, CIRC_CNT
<1>3. (t - (h + 1)) % size =
        IF t > h THEN t - (h + 1)
        ELSE IF t - (h + 1) >= -size THEN t - (h + 1) + size
        ELSE t - (h + 1) + 2 * size
  OBVIOUS
<1> QED BY <1>1, <1>2, <1>3 DEF Elements

(* CIRC_CNT_TO_END and CIRC_SPACE_TO_END are the part of CIRC_CNT and      *)
(* CIRC_SPACE in front of the end of the array.                            *)
LEMMA CircToEnd ==
  ASSUME NEW size \in Nat \ {0}, NEW h \in 0..size, NEW t \in 0..size
  PROVE  /\ t < size =>
              CIRC_CNT_TO_END(h, t, size) =
                IF CIRC_CNT(h, t, size) < size - t
                  THEN CIRC_CNT(h, t, size) ELSE size - t
         /\ h < size =>
              CIRC_SPACE_TO_END(h, t, size) =
                IF CIRC_SPACE(h, t, size) < size - h
                  THEN CIRC_SPACE(h, t, size) ELSE size - h
<1>1. /\ CIRC_CNT(h, t, size) = Elements(h, t, size)
      /\ CIRC_SPACE(h, t, size) = size - 1 - Elements(h, t, size)
  BY CircCnt, CircSpace
<1>2. ASSUME t < size PROVE (h + (size - t)) % size = Elements(h, t, size)
  BY <1>2 DEF Elements
<1>3. ASSUME h < size
      PROVE  ((size - 1 - h) + t) % size = size - 1 - Elements(h, t, size)
  BY <1>3 DEF Elements
<1>4. Elements(h, t, size) \in Int
  BY DEF Elements
<1>5. ASSUME t < size
      PROVE  CIRC_CNT_TO_END(h, t, size) =
               IF CIRC_CNT(h, t, size) < size - t
                 THEN CIRC_CNT(h, t, size) ELSE size - t
  BY <1>1, <1>2, <1>5 DEF CIRC_CNT_TO_END
<1>6. ASSUME h < size
      PROVE  CIRC_SPACE_TO_END(h, t, size) =
               IF CIRC_SPACE(h, t, size) < size - h
                 THEN CIRC_SPACE(h, t, size) ELSE size - h
  BY <1>1, <1>3, <1>4, <1>6 DEF CIRC_SPACE_TO_END
<1> QED BY <1>5, <1>6

-----------------------------------------------------------------------------
(* Putting an element in front of head, wrapping head, taking n elements   *)
(* up to the end of the array, and wrapping tail.                          *)
THEOREM CircMoves ==
  ASSUME NEW size \in Nat \ {0}, NEW h \in 0..size, NEW t \in 0..size
  PROVE  /\ h < size /\ CIRC_CNT(h, t, size) < size - 1 =>
              CIRC_CNT(h + 1, t, size) = CIRC_CNT(h, t, size) + 1
         /\ CIRC_CNT(size, t, size) = CIRC_CNT(0, t, size)
         /\ \A n \in 0..CIRC_CNT(h, t, size) : t + n <= size =>
              CIRC_CNT(h, t + n, size) = CIRC_CNT(h, t, size) - n
         /\ CIRC_CNT(h, size, size) = CIRC_CNT(h, 0, size)
<1>0. /\ CIRC_CNT(h, t, size) = Elements(h, t, size)
      /\ CIRC_CNT(h, t, size) \in 0..(size - 1)
      /\ size \in 0..size /\ 0 \in 0..size
  BY CircCnt
<1>1. ASSUME h < size, CIRC_CNT(h, t, size) < size - 1
      PROVE  CIRC_CNT(h + 1, t, size) = CIRC_CNT(h, t, size) + 1
  <2>1. h + 1 \in 0..size
    BY <1>1
  <2>2. CIRC_CNT(h + 1, t, size) = Elements(h + 1, t, size)
    BY <2>1, CircCnt
  <2> QED BY <1>0, <1>1, <2>2 DEF Elements
<1>2. CIRC_CNT(size, t, size) = CIRC_CNT(0, t, size)
  <2>1. /\ CIRC_CNT(size, t, size) = Elements(size, t, size)
        /\ CIRC_CNT(0, t, size) = Elements(0, t, size)
    BY <1>0, CircCnt
  <2> QED BY <2>1 DEF Elements
<1>3. ASSUME NEW n \in 0..CIRC_CNT(h, t, size), t + n <= size
      PROVE  CIRC_CNT(h, t + n, size) = CIRC_CNT(h, t, size) - n
  <2>1. t + n \in 0..size /\ n \in Nat
    BY <1>0, <1>3
  <2>2. CIRC_CNT(h, t + n, size) = Elements(h, t + n, size)
    BY <2>1, CircCnt
  <2> QED BY <1>0, <1>3, <2>1, <2>2 DEF Elements
<1>4. CIRC_CNT(h, size, size) = CIRC_CNT(h, 0, size)
  <2>1. /\ CIRC_CNT(h, size, size) = Elements(h, size, size)
        /\ CIRC_CNT(h, 0, size) = Elements(h, 0, size)
    BY <1>0, CircCnt
  <2> QED BY <2>1 DEF Elements
<1> QED BY <1>1, <1>2, <1>3, <1>4

(* Element i of the ring is in slot (tail + i - 1) % size: never where the *)
(* next element goes, which is the slot behind the last one.               *)
LEMMA CircSlots ==
  ASSUME NEW size \in Nat \ {0}, NEW h \in 0..(size - 1), NEW t \in 0..size
  PROVE  /\ \A i \in 1..size : (t + i - 1) % size \in 0..(size - 1)
         /\ \A i \in 1..CIRC_CNT(h, t, size) : (t + i - 1) % size # h
         /\ (t + CIRC_CNT(h, t, size)) % size = h
         /\ \A i \in 1..size : t + i <= size => (t + i - 1) % size = t + i - 1
         /\ \A i \in 1..size : (size + i - 1) % size = (0 + i - 1) % size
<1>0. /\ CIRC_CNT(h, t, size) = Elements(h, t, size)
      /\ CIRC_CNT(h, t, size) \in 0..(size - 1)
  <2>1. h \in 0..size
    OBVIOUS
  <2> QED BY <2>1, CircCnt
<1>1. ASSUME NEW i \in 1..size
      PROVE  (t + i - 1) % size =
               IF t + i - 1 < size THEN t + i - 1 ELSE t + i - 1 - size
  OBVIOUS
<1>2. ASSUME NEW i \in 1..size PROVE (t + i - 1) % size \in 0..(size - 1)
  BY <1>1
<1>3. ASSUME NEW i \in 1..CIRC_CNT(h, t, size) PROVE (t + i - 1) % size # h
  <2>1. i \in 1..size /\ i <= Elements(h, t, size)
    BY <1>0
  <2>2. (t + i - 1) % size =
          IF t + i - 1 < size THEN t + i - 1 ELSE t + i - 1 - size
    BY <1>1, <2>1
  <2> QED BY <2>1, <2>2 DEF Elements
<1>4. (t + CIRC_CNT(h, t, size)) % size = h
  <2>1. (t + Elements(h, t, size)) % size = h
    <3>1. t + Elements(h, t, size) \in {h, h + size}
      BY DEF Elements
    <3> QED BY <3>1
  <2> QED BY <1>0, <2>1
<1>5. ASSUME NEW i \in 1..size, t + i <= size PROVE (t + i - 1) % size = t + i - 1
  <2>1. t + i - 1 < size
    BY <1>5
  <2> QED BY <1>1, <2>1
<1>6. ASSUME NEW i \in 1..size PROVE (size + i - 1) % size = (0 + i - 1) % size
  OBVIOUS
<1> QED BY <1>2, <1>3, <1>4, <1>5, <1>6

-----------------------------------------------------------------------------
(* The size of the ring, without the power of two.                         *)
LEMMA SizeType == CIRCBUF_SIZE \in Nat \ {0} /\ CIRCBUF_SIZE > 1
BY RxAssumption

(* The facts about the macros, for this ring.                              *)
LEMMA RingFacts ==
  ASSUME TypeOK
  PROVE  /\ head \in 0..CIRCBUF_SIZE /\ tail \in 0..CIRCBUF_SIZE
         /\ Cnt \in 0..(CIRCBUF_SIZE - 1)
         /\ CIRC_SPACE(head, tail, CIRCBUF_SIZE) = CIRCBUF_SIZE - 1 - Cnt
         /\ tail < CIRCBUF_SIZE =>
              CIRC_CNT_TO_END(head, tail, CIRCBUF_SIZE) =
                IF Cnt < CIRCBUF_SIZE - tail THEN Cnt ELSE CIRCBUF_SIZE - tail
         /\ \A i \in 1..CIRCBUF_SIZE : (tail + i - 1) % CIRCBUF_SIZE \in 0..(CIRCBUF_SIZE - 1)
<1>1. head \in 0..CIRCBUF_SIZE /\ tail \in 0..CIRCBUF_SIZE
  BY DEF TypeOK
<1>2. 0 \in 0..(CIRCBUF_SIZE - 1)
  BY SizeType
<1> QED BY <1>1, <1>2, SizeType, CircCnt, CircSpace, CircToEnd, CircSlots DEF Cnt

(* Without a wrap in progress head is a slot of the array, and not one of  *)
(* those in use.                                                           *)
LEMMA HeadIsFree ==
  ASSUME TypeOK, head # CIRCBUF_SIZE
  PROVE  /\ head \in 0..(CIRCBUF_SIZE - 1)
         /\ \A i \in 1..Cnt : (tail + i - 1) % CIRCBUF_SIZE # head
         /\ (tail + Cnt) % CIRCBUF_SIZE = head
<1>1. head \in 0..(CIRCBUF_SIZE - 1) /\ tail \in 0..CIRCBUF_SIZE
  BY SizeType DEF TypeOK
<1> QED BY <1>1, SizeType, CircSlots DEF Cnt

(* A reader that has found data works on the slots from tail on, the first *)
(* ones of the ring.                                                       *)
LEMMA ReaderSlots ==
  ASSUME RxInv, NEW r \in Readers, pc[r] \in {"copy", "advance"}
  PROVE  /\ count[r] \in 0..Cnt /\ tail + count[r] <= CIRCBUF_SIZE
         /\ \A i \in 1..count[r] :
              /\ i \in 1..Cnt
              /\ tail + i - 1 = (tail + i - 1) % CIRCBUF_SIZE
              /\ tail + i - 1 \in 0..(CIRCBUF_SIZE - 1)
              /\ buf[tail + i - 1] \in 1..MaxRx
<1>1. TypeOK /\ DataKept /\ RingFilled
  BY DEF RxInv
<1>2. Cnt \in 0..(CIRCBUF_SIZE - 1) /\ tail \in 0..CIRCBUF_SIZE
  BY <1>1, RingFacts
<1>3. count[r] \in 0..Cnt /\ tail + count[r] <= CIRCBUF_SIZE
  <2>1. count[r] \in Nat
    BY <1>1, RxAssumption DEF TypeOK
  <2> QED BY <1>1, <1>2, <2>1 DEF DataKept
<1>4. ASSUME NEW i \in 1..count[r]
      PROVE  /\ i \in 1..Cnt
             /\ tail + i - 1 = (tail + i - 1) % CIRCBUF_SIZE
             /\ tail + i - 1 \in 0..(CIRCBUF_SIZE - 1)
             /\ buf[tail + i - 1] \in 1..MaxRx
  <2>1. i \in 1..Cnt /\ i \in 1..CIRCBUF_SIZE /\ tail + i <= CIRCBUF_SIZE
    BY <1>2, <1>3, SizeType
  <2>2. tail + i - 1 \in 0..(CIRCBUF_SIZE - 1)
    BY <1>2, <2>1, SizeType
  <2>3. 0 \in 0..(CIRCBUF_SIZE - 1)
    BY SizeType
  <2>4. tail + i - 1 = (tail + i - 1) % CIRCBUF_SIZE
    BY <1>2, <2>1, <2>3, SizeType, CircSlots
  <2>5. buf[(tail + i - 1) % CIRCBUF_SIZE] > 0
    BY <1>1, <2>1 DEF RingFilled
  <2>6. buf[tail + i - 1] > 0 /\ buf[tail + i - 1] \in 0..MaxRx
    BY <1>1, <2>2, <2>4, <2>5 DEF TypeOK
  <2> QED BY <2>1, <2>2, <2>4, <2>6, RxAssumption
<1> QED BY <1>3, <1>4

(* The reader that holds the semaphore is the only one inside.             *)
LEMMA OneInside ==
  ASSUME RxInv, NEW r \in Readers, pc[r] \in {"check", "copy", "advance", "wraptail"}
  PROVE  /\ sem = r
         /\ \A q \in Readers : q # r => pc[q] \notin {"check", "copy", "advance", "wraptail"}
         /\ pc[r] # "wraptail" => tail \in 0..(CIRCBUF_SIZE - 1)
<1>1. /\ sem = r
      /\ \A q \in Readers : q # r => pc[q] \notin {"check", "copy", "advance", "wraptail"}
  BY DEF RxInv, SemOwned
<1>2. pc[r] # "wraptail" => tail # CIRCBUF_SIZE
  BY <1>1 DEF RxInv, Wrapping
<1> QED BY <1>1, <1>2, SizeType DEF RxInv, TypeOK

-----------------------------------------------------------------------------
(* An empty ring satisfies the invariant.                                  *)
LEMMA RxInvInit == Init => RxInv
<1> SUFFICES ASSUME Init PROVE RxInv
  OBVIOUS
<1>1. TypeOK
  <2>1. 0 \in 0..MaxRx /\ 0 \in 0..MaxCount /\ 0 \in 0..CIRCBUF_SIZE /\ 0 # CIRCBUF_SIZE
    BY SizeType, RxAssumption
  <2>2. <<>> \in Seq(1..MaxRx)
    BY EmptySeq
  <2> QED BY <2>1, <2>2 DEF Init, TypeOK
<1>2. Cnt = 0
  <2>1. head = 0 /\ tail = 0 /\ 0 \in 0..CIRCBUF_SIZE
    BY SizeType DEF Init
  <2>2. Cnt = Elements(head, tail, CIRCBUF_SIZE)
    BY <2>1, SizeType, CircCnt DEF Cnt
  <2> QED BY <2>1, <2>2, SizeType DEF Elements
<1>3. SemOwned /\ Wrapping /\ SpaceKept /\ DataKept
  BY SizeType, RxAssumption DEF Init, SemOwned, Wrapping, SpaceKept, DataKept
<1>4. RingFilled /\ NoLostRxWakeup
  BY <1>2 DEF Init, RingFilled, NoLostRxWakeup
<1> QED BY <1>1, <1>3, <1>4 DEF RxInv

(* As long as nobody touches the ring it holds what it held.               *)
LEMMA RingUntouched ==
  ASSUME RxInv, UNCHANGED <<buf, head, tail>>
  PROVE  Cnt' = Cnt /\ RingFilled' /\ Queue' = Queue
<1>1. Cnt' = Cnt
  BY DEF Cnt
<1> QED BY <1>1 DEF RxInv, RingFilled, Queue

(* The interrupt's steps keep the invariant ...                            *)
LEMMA IrqKeeps == RxInv /\ Irq => RxInv'
<1> SUFFICES ASSUME RxInv, Irq PROVE RxInv'
  OBVIOUS
<1>0. TypeOK /\ SemOwned /\ Wrapping /\ SpaceKept /\ DataKept /\ RingFilled /\ NoLostRxWakeup
  BY DEF RxInv
<1>00. Cnt \in 0..(CIRCBUF_SIZE - 1) /\ head \in 0..CIRCBUF_SIZE /\ tail \in 0..CIRCBUF_SIZE
  BY <1>0, RingFacts
<1>1. CASE HandleRxChar
  <2>1. Cnt' = Cnt /\ RingFilled'
    BY <1>1, RingUntouched DEF HandleRxChar, RxUnchanged
  <2>2. irq' = "store" => Cnt < CIRCBUF_SIZE - 1 /\ rx' > 0
    BY <1>0, <1>00, <1>1, RingFacts, SizeType, RxAssumption DEF HandleRxChar, TypeOK
  <2>3. rx' \in 0..MaxRx /\ irq' \in {"idle", "store"}
    BY <1>0, <1>1, RxAssumption DEF HandleRxChar, TypeOK
  <2>4. TypeOK'
    BY <1>0, <1>1, <2>3 DEF HandleRxChar, RxUnchanged, TypeOK, Wrapping
  <2>5. SemOwned' /\ Wrapping' /\ DataKept'
    BY <1>0, <1>1, <2>1, <2>3 DEF HandleRxChar, RxUnchanged, SemOwned, Wrapping, DataKept
  <2>6. SpaceKept'
    BY <1>1, <2>1, <2>2, <2>3 DEF HandleRxChar, SpaceKept
  <2>7. NoLostRxWakeup'
    BY <1>1 DEF HandleRxChar, NoLostRxWakeup
  <2> QED BY <2>1, <2>4, <2>5, <2>6, <2>7 DEF RxInv
<1>2. CASE RxStore
  <2>1. head # CIRCBUF_SIZE /\ irq = "store"
    BY <1>0, <1>2 DEF RxStore, Wrapping
  <2>2. /\ head \in 0..(CIRCBUF_SIZE - 1)
        /\ \A i \in 1..Cnt : (tail + i - 1) % CIRCBUF_SIZE # head
    BY <1>0, <2>1, HeadIsFree
  <2>3. Cnt' = Cnt /\ UNCHANGED <<head, tail, pc, count, taken, rx, sem, readq, completed>>
    BY <1>2 DEF RxStore, RxUnchanged, Cnt
  <2>4. buf' = [buf EXCEPT ![head] = rx] /\ irq' = "bump"
    BY <1>2 DEF RxStore
  <2>5. /\ buf' \in [0..(CIRCBUF_SIZE - 1) -> 0..MaxRx]
        /\ buf'[head] = rx
        /\ \A j \in 0..(CIRCBUF_SIZE - 1) : j # head => buf'[j] = buf[j]
    BY <1>0, <2>2, <2>4 DEF TypeOK
  <2>6. TypeOK'
    BY <1>0, <1>2, <2>1, <2>4, <2>5 DEF RxStore, RxUnchanged, TypeOK
  <2>7. SemOwned' /\ Wrapping' /\ NoLostRxWakeup' /\ SpaceKept'
    BY <1>0, <2>1, <2>3, <2>4, <2>5 DEF SemOwned, Wrapping, NoLostRxWakeup, SpaceKept
  <2>8. RingFilled'
    <3>1. SUFFICES ASSUME NEW i \in 1..Cnt PROVE buf'[(tail + i - 1) % CIRCBUF_SIZE] > 0
      BY <2>3 DEF RingFilled
    <3>2. i \in 1..CIRCBUF_SIZE
      BY <1>00, SizeType
    <3>3. (tail + i - 1) % CIRCBUF_SIZE \in 0..(CIRCBUF_SIZE - 1)
      BY <1>0, <3>2, RingFacts
    <3>4. (tail + i - 1) % CIRCBUF_SIZE # head
      BY <2>2
    <3>5. buf[(tail + i - 1) % CIRCBUF_SIZE] > 0
      BY <1>0 DEF RingFilled
    <3> QED BY <2>5, <3>3, <3>4, <3>5
  <2>9. DataKept'
    <3>1. SUFFICES ASSUME NEW r \in Readers, pc[r] \in {"copy", "advance"}
                   PROVE  /\ count[r] <= Cnt /\ tail + count[r] <= CIRCBUF_SIZE
                          /\ pc[r] = "advance" =>
                               taken = [i \in 1..count[r] |-> buf'[tail + i - 1]]
      BY <2>3 DEF DataKept
    <3>2. \A i \in 1..count[r] : buf'[tail + i - 1] = buf[tail + i - 1]
      BY <3>1, <2>2, <2>5, ReaderSlots
    <3> QED BY <1>0, <3>1, <3>2 DEF DataKept
  <2> QED BY <2>6, <2>7, <2>8, <2>9 DEF RxInv
<1>3. CASE RxBumpHead
  <2>1. head # CIRCBUF_SIZE /\ irq = "bump" /\ head' = head + 1
    BY <1>0, <1>3 DEF RxBumpHead, Wrapping
  <2>2. /\ head \in 0..(CIRCBUF_SIZE - 1)
        /\ (tail + Cnt) % CIRCBUF_SIZE = head
    BY <1>0, <2>1, HeadIsFree
  <2>3. UNCHANGED <<buf, tail, pc, count, taken, rx, sem, readq, completed, delivered>>
    BY <1>3 DEF RxBumpHead, RxUnchanged
  <2>4. Cnt' = Cnt + 1
    <3>1. Cnt < CIRCBUF_SIZE - 1 /\ head < CIRCBUF_SIZE
      BY <1>0, <2>1, <2>2, SizeType DEF SpaceKept
    <3> QED BY <1>00, <2>1, <2>3, <3>1, CircMoves, SizeType DEF Cnt
  <2>5. head' \in 0..CIRCBUF_SIZE /\ irq' \in {"idle", "wrap"}
        /\ (irq' = "wrap" <=> head' = CIRCBUF_SIZE)
    BY <1>3, <2>1, <2>2, SizeType DEF RxBumpHead
  <2>6. TypeOK'
    BY <1>0, <2>3, <2>5 DEF TypeOK
  <2>7. SemOwned' /\ Wrapping' /\ SpaceKept' /\ NoLostRxWakeup'
    BY <1>0, <2>1, <2>3, <2>5 DEF SemOwned, Wrapping, SpaceKept, NoLostRxWakeup
  <2>8. DataKept'
    <3>1. \A r \in Readers : pc[r] \in {"copy", "advance"} => count[r] <= Cnt + 1
      BY <1>00, ReaderSlots
    <3> QED BY <1>0, <2>3, <2>4, <3>1 DEF DataKept
  <2>9. RingFilled'
    <3>1. SUFFICES ASSUME NEW i \in 1..(Cnt + 1) PROVE buf[(tail + i - 1) % CIRCBUF_SIZE] > 0
      BY <2>3, <2>4 DEF RingFilled
    <3>2. CASE i = Cnt + 1
      <4>1. tail + i - 1 = tail + Cnt
        BY <1>00, <3>2
      <4>2. buf[head] > 0
        BY <1>0, <2>1 DEF SpaceKept
      <4> QED BY <2>2, <4>1, <4>2
    <3>3. CASE i # Cnt + 1
      <4>1. i \in 1..Cnt
        BY <1>00, <3>3
      <4> QED BY <1>0, <4>1 DEF RingFilled
    <3> QED BY <3>2, <3>3
  <2> QED BY <2>6, <2>7, <2>8, <2>9 DEF RxInv
<1>4. CASE RxWrapHead
  <2>1. head = CIRCBUF_SIZE /\ head' = 0 /\ irq' = "idle" /\ irq = "wrap"
    BY <1>0, <1>4 DEF RxWrapHead, Wrapping
  <2>2. UNCHANGED <<buf, tail, pc, count, taken, rx, sem, readq, completed, delivered>>
    BY <1>4 DEF RxWrapHead, RxUnchanged
  <2>3. Cnt' = Cnt
    BY <1>00, <2>1, <2>2, CircMoves, SizeType DEF Cnt
  <2>4. TypeOK'
    BY <1>0, <2>1, <2>2, SizeType DEF TypeOK
  <2>5. SemOwned' /\ Wrapping' /\ SpaceKept' /\ DataKept' /\ RingFilled' /\ NoLostRxWakeup'
    BY <1>0, <2>1, <2>2, <2>3, SizeType
       DEF SemOwned, Wrapping, SpaceKept, DataKept, RingFilled, NoLostRxWakeup
  <2> QED BY <2>4, <2>5 DEF RxInv
<1>5. CASE RxCompleted
  <2>1. Cnt' = Cnt /\ RingFilled'
    BY <1>5, RingUntouched DEF RxCompleted, RxUnchanged
  <2>2. TypeOK'
    BY <1>0, <1>5 DEF RxCompleted, RxUnchanged, TypeOK
  <2>3. SemOwned' /\ Wrapping' /\ SpaceKept' /\ DataKept' /\ NoLostRxWakeup'
    BY <1>0, <1>5, <2>1
       DEF RxCompleted, RxUnchanged, SemOwned, Wrapping, SpaceKept, DataKept, NoLostRxWakeup
  <2> QED BY <2>1, <2>2, <2>3 DEF RxInv
<1> QED BY <1>1, <1>2, <1>3, <1>4, <1>5 DEF Irq

(* ... the steps of a reader that has not got the semaphore ...            *)
LEMMA OutsideKeeps ==
  ASSUME RxInv, NEW r \in Readers,
         \/ \E n \in 0..MaxCount : Read(r, n)
         \/ DownSem(r) \/ WaitData(r) \/ Interrupt(r) \/ Poll(r)
  PROVE  RxInv'
<1>0. TypeOK /\ SemOwned /\ Wrapping /\ SpaceKept /\ DataKept /\ RingFilled /\ NoLostRxWakeup
  BY DEF RxInv
<1>1. Cnt' = Cnt /\ RingFilled'
  BY RingUntouched DEF Read, DownSem, WaitData, Interrupt, Poll, irq_vars
<1>2. UNCHANGED <<buf, head, irq, completed, rx, tail, taken, delivered>>
  BY DEF Read, DownSem, WaitData, Interrupt, Poll, irq_vars
<1>3. PICK l \in {"idle", "down", "check", "poll", "wait"} :
        pc' = [pc EXCEPT ![r] = l] /\ (l = "check" <=> sem' # sem) /\ (l = "check" => sem' = r)
        /\ (l = "check" => sem = NULL)
  <2>1. ASSUME NEW n \in 0..MaxCount, Read(r, n)
        PROVE  pc' = [pc EXCEPT ![r] = "down"] /\ sem' = sem
    BY <2>1 DEF Read, Goto
  <2>2. ASSUME DownSem(r)
        PROVE  \/ pc' = [pc EXCEPT ![r] = "check"] /\ sem = NULL /\ sem' = r
               \/ pc' = [pc EXCEPT ![r] = "idle"] /\ sem' = sem
    BY <2>2 DEF DownSem, Goto
  <2>3. ASSUME WaitData(r)
        PROVE  /\ sem' = sem
               /\ \E l \in {"down", "idle", "wait", "poll"} : pc' = [pc EXCEPT ![r] = l]
    <3>1. pc = [pc EXCEPT ![r] = pc[r]]
      BY <1>0 DEF TypeOK
    <3> QED BY <2>3, <3>1 DEF WaitData, Goto
  <2>4. ASSUME Interrupt(r) \/ Poll(r)
        PROVE  sem' = sem /\ \E l \in {"idle", "poll"} : pc' = [pc EXCEPT ![r] = l]
    BY <2>4 DEF Interrupt, Poll, Goto
  <2>5. r # NULL
    BY RxAssumption
  <2> QED BY <2>1, <2>2, <2>3, <2>4, <2>5
<1>4. pc[r] \in {"idle", "down", "wait", "poll"}
  BY DEF Read, DownSem, WaitData, Interrupt, Poll
<1>5. /\ pc' \in [Readers -> {"idle", "down", "check", "wait", "poll", "copy", "advance",
                              "wraptail"}]
      /\ pc'[r] = l /\ \A q \in Readers : q # r => pc'[q] = pc[q]
  BY <1>0, <1>3 DEF TypeOK
<1>6. SemOwned'
  BY <1>0, <1>3, <1>4, <1>5, RxAssumption DEF SemOwned, TypeOK
<1>7. Wrapping' /\ SpaceKept'
  BY <1>0, <1>1, <1>2, <1>3, <1>4, <1>5 DEF Wrapping, SpaceKept
<1>8. /\ count' \in [Readers -> 0..MaxCount]
      /\ \A q \in Readers : q # r => count'[q] = count[q]
  BY <1>0 DEF Read, DownSem, WaitData, Interrupt, Poll, TypeOK
<1>9. DataKept'
  BY <1>0, <1>1, <1>2, <1>3, <1>5, <1>8 DEF DataKept
<1>10. /\ readq' \subseteq Readers
       /\ readq' # {} => readq # {} \/ Cnt = 0
  BY <1>0 DEF Read, DownSem, WaitData, Interrupt, Poll, TypeOK
<1>11. NoLostRxWakeup'
  BY <1>0, <1>1, <1>2, <1>10 DEF NoLostRxWakeup
<1>12. sem' \in Readers \cup {NULL}
  BY <1>0, <1>3 DEF TypeOK
<1>13. TypeOK'
  BY <1>0, <1>2, <1>5, <1>8, <1>10, <1>12 DEF TypeOK
<1> QED BY <1>1, <1>6, <1>7, <1>9, <1>11, <1>13 DEF RxInv

(* ... and those of the reader that has it.                                *)
LEMMA InReadKeeps ==
  ASSUME RxInv, NEW r \in Readers, InRead(r)
  PROVE  RxInv'
<1>0. TypeOK /\ SemOwned /\ Wrapping /\ SpaceKept /\ DataKept /\ RingFilled /\ NoLostRxWakeup
  BY DEF RxInv
<1>00. Cnt \in 0..(CIRCBUF_SIZE - 1) /\ head \in 0..CIRCBUF_SIZE /\ tail \in 0..CIRCBUF_SIZE
  BY <1>0, RingFacts
<1>a. pc[r] \in {"check", "copy", "advance", "wraptail"}
  BY DEF InRead, CheckData, CopyToUser, AdvanceTail, WrapTail
<1>b. /\ sem = r
      /\ \A q \in Readers : q # r => pc[q] \notin {"check", "copy", "advance", "wraptail"}
      /\ pc[r] # "wraptail" => tail \in 0..(CIRCBUF_SIZE - 1)
  BY <1>a, OneInside
<1>c. UNCHANGED <<buf, head, irq, completed, rx, readq>>
  BY DEF InRead, CheckData, CopyToUser, AdvanceTail, WrapTail, irq_vars
<1>d. PICK l \in {"idle", "wait", "copy", "advance", "wraptail"} :
        pc' = [pc EXCEPT ![r] = l] /\ sem' = (IF l \in {"idle", "wait"} THEN NULL ELSE r)
  <2>1. CASE CheckData(r)
    BY <1>b, <2>1 DEF CheckData, Goto
  <2>2. CASE CopyToUser(r)
    BY <1>b, <2>2 DEF CopyToUser, Goto
  <2>3. CASE AdvanceTail(r)
    BY <1>b, <2>3 DEF AdvanceTail, Goto
  <2>4. CASE WrapTail(r)
    BY <1>b, <2>4 DEF WrapTail, Goto
  <2> QED BY <2>1, <2>2, <2>3, <2>4 DEF InRead
<1>e. /\ pc' \in [Readers -> {"idle", "down", "check", "wait", "poll", "copy", "advance",
                              "wraptail"}]
      /\ pc'[r] = l /\ \A q \in Readers : q # r => pc'[q] = pc[q]
  BY <1>0, <1>d DEF TypeOK
<1>f. sem' \in Readers \cup {NULL} /\ SemOwned'
  BY <1>b, <1>d, <1>e, RxAssumption DEF SemOwned
<1>1. CASE CheckData(r)
  <2>1. Cnt' = Cnt /\ RingFilled' /\ UNCHANGED <<tail, taken, delivered>>
    BY <1>1, RingUntouched DEF CheckData, irq_vars
  <2>2. /\ count' \in [Readers -> 0..MaxCount]
        /\ \A q \in Readers : q # r => count'[q] = count[q]
        /\ l = "copy" => count'[r] <= Cnt /\ tail + count'[r] <= CIRCBUF_SIZE
    <3>1. CASE Cnt = 0
      <4>1. count' = count /\ l # "copy"
        BY <1>0, <1>1, <1>e, <3>1 DEF CheckData, Goto, TypeOK
      <4> QED BY <1>0, <4>1 DEF TypeOK
    <3>2. CASE Cnt > 0
      <4> DEFINE n == CIRC_CNT_TO_END(head, tail, CIRCBUF_SIZE)
      <4>1. count' = [count EXCEPT ![r] = IF @ < n THEN @ ELSE n]
        BY <1>1, <3>2 DEF CheckData
      <4>2. tail < CIRCBUF_SIZE
        BY <1>1, <1>b, SizeType DEF CheckData
      <4>3. n \in Nat /\ n <= Cnt /\ tail + n <= CIRCBUF_SIZE
        BY <1>0, <1>00, <4>2, RingFacts, SizeType
      <4>4. count[r] \in 0..MaxCount
        BY <1>0 DEF TypeOK
      <4> HIDE DEF n
      <4>5. (IF count[r] < n THEN count[r] ELSE n) \in 0..MaxCount
        BY <4>3, <4>4, RxAssumption
      <4>6. /\ count' \in [Readers -> 0..MaxCount]
            /\ count'[r] = (IF count[r] < n THEN count[r] ELSE n)
            /\ \A q \in Readers : q # r => count'[q] = count[q]
        BY <1>0, <4>1, <4>5 DEF TypeOK
      <4> QED BY <1>00, <4>3, <4>4, <4>6, RxAssumption
    <3> QED BY <1>00, <3>1, <3>2
  <2>3. l \notin {"advance", "wraptail"}
    BY <1>0, <1>1, <1>e DEF CheckData, Goto, TypeOK
  <2>4. TypeOK'
    BY <1>0, <1>c, <1>e, <1>f, <2>1, <2>2 DEF TypeOK
  <2>5. Wrapping' /\ SpaceKept' /\ NoLostRxWakeup'
    BY <1>0, <1>b, <1>1, <1>c, <2>1, SizeType
       DEF CheckData, Wrapping, SpaceKept, NoLostRxWakeup
  <2>6. DataKept'
    BY <1>0, <1>b, <1>c, <1>e, <2>1, <2>2, <2>3 DEF DataKept
  <2> QED BY <1>f, <2>1, <2>4, <2>5, <2>6 DEF RxInv
<1>2. CASE CopyToUser(r)
  <2>0. pc[r] = "copy" /\ count' = count
    BY <1>2 DEF CopyToUser
  <2>1. Cnt' = Cnt /\ RingFilled' /\ UNCHANGED <<tail, delivered>>
    BY <1>2, RingUntouched DEF CopyToUser, irq_vars
  <2>2. /\ taken' \in Seq(1..MaxRx)
        /\ l = "advance" => taken' = [i \in 1..count[r] |-> buf[tail + i - 1]]
    <3>1. CASE taken' = [i \in 1..count[r] |-> buf[tail + i - 1]]
      <4>1. [i \in 1..count[r] |-> buf[tail + i - 1]] \in [1..count[r] -> 1..MaxRx]
        BY <2>0, ReaderSlots
      <4>2. count[r] \in Nat
        BY <1>0, RxAssumption DEF TypeOK
      <4>3. taken' \in Seq(1..MaxRx)
        BY <3>1, <4>1, <4>2, SeqDef
      <4> QED BY <3>1, <4>3
    <3>2. CASE ~(taken' = [i \in 1..count[r] |-> buf[tail + i - 1]])
      <4>1. taken' = taken /\ l = "idle"
        BY <1>0, <1>2, <1>e, <3>2 DEF CopyToUser, Goto, TypeOK
      <4> QED BY <1>0, <4>1 DEF TypeOK
    <3> QED BY <3>1, <3>2
  <2>3. l \in {"advance", "idle"}
    BY <1>0, <1>2, <1>e DEF CopyToUser, Goto, TypeOK
  <2>4. TypeOK'
    BY <1>0, <1>c, <1>e, <1>f, <2>0, <2>1, <2>2 DEF TypeOK
  <2>5. Wrapping' /\ SpaceKept' /\ NoLostRxWakeup'
    BY <1>0, <1>b, <1>c, <2>0, <2>1, SizeType DEF Wrapping, SpaceKept, NoLostRxWakeup
  <2>6. DataKept'
    BY <1>0, <1>b, <1>c, <1>e, <2>0, <2>1, <2>2, <2>3 DEF DataKept
  <2> QED BY <1>f, <2>1, <2>4, <2>5, <2>6 DEF RxInv
<1>3. CASE AdvanceTail(r)
  <2>0. /\ pc[r] = "advance" /\ count' = count /\ l = "wraptail"
        /\ tail' = tail + count[r] /\ taken' = <<>> /\ delivered' = delivered \o taken
    BY <1>0, <1>3, <1>e DEF AdvanceTail, Goto, TypeOK
  <2>1. count[r] \in 0..Cnt /\ tail + count[r] <= CIRCBUF_SIZE /\ tail + count[r] \in 0..CIRCBUF_SIZE
    <3>1. count[r] \in 0..Cnt /\ tail + count[r] <= CIRCBUF_SIZE
      BY <2>0, ReaderSlots
    <3> QED BY <1>00, <3>1, SizeType
  <2>2. Cnt' = Cnt - count[r]
    BY <1>00, <1>c, <2>0, <2>1, SizeType, CircMoves DEF Cnt
  <2>3. TypeOK'
    <3>1. delivered' \in Seq(1..MaxRx) /\ taken' \in Seq(1..MaxRx)
      BY <1>0, <2>0, ConcatProperties, EmptySeq DEF TypeOK
    <3> QED BY <1>0, <1>c, <1>e, <1>f, <2>0, <2>1, <3>1 DEF TypeOK
  <2>4. Wrapping' /\ SpaceKept' /\ NoLostRxWakeup'
    <3>1. Wrapping'
      BY <1>0, <1>c, <1>e, <2>0 DEF Wrapping
    <3>2. Cnt' <= Cnt /\ Cnt' \in Int
      BY <1>00, <2>1, <2>2
    <3>3. SpaceKept' /\ NoLostRxWakeup'
      BY <1>0, <1>00, <1>c, <3>2, SizeType DEF SpaceKept, NoLostRxWakeup
    <3> QED BY <3>1, <3>3
  <2>5. DataKept'
    BY <1>b, <1>e, <2>0 DEF DataKept
  <2>6. RingFilled'
    <3>1. SUFFICES ASSUME NEW i \in 1..(Cnt - count[r])
                   PROVE  buf[(tail + count[r] + i - 1) % CIRCBUF_SIZE] > 0
      BY <1>c, <2>0, <2>2 DEF RingFilled
    <3>2. count[r] + i \in 1..Cnt /\ tail + count[r] + i - 1 = tail + (count[r] + i) - 1
      BY <1>00, <2>1
    <3> QED BY <1>0, <3>2 DEF RingFilled
  <2> QED BY <1>f, <2>3, <2>4, <2>5, <2>6 DEF RxInv
<1>4. CASE WrapTail(r)
  <2>0. /\ pc[r] = "wraptail" /\ UNCHANGED <<count, taken, delivered>> /\ l = "idle"
        /\ tail' = IF tail >= CIRCBUF_SIZE THEN tail - CIRCBUF_SIZE ELSE tail
    BY <1>0, <1>4, <1>e DEF WrapTail, Goto, TypeOK
  <2>1. tail' \in 0..(CIRCBUF_SIZE - 1) /\ (tail' = tail \/ (tail = CIRCBUF_SIZE /\ tail' = 0))
    BY <1>00, <2>0, SizeType
  <2>2. Cnt' = Cnt
    BY <1>00, <1>c, <2>1, SizeType, CircMoves DEF Cnt
  <2>3. TypeOK'
    <3>1. tail' \in 0..CIRCBUF_SIZE
      BY <2>1, SizeType
    <3> QED BY <1>0, <1>c, <1>e, <1>f, <2>0, <3>1 DEF TypeOK
  <2>4. Wrapping' /\ SpaceKept' /\ NoLostRxWakeup'
    BY <1>0, <1>c, <2>1, <2>2, SizeType DEF Wrapping, SpaceKept, NoLostRxWakeup
  <2>5. DataKept'
    BY <1>b, <1>e, <2>0 DEF DataKept
  <2>6. RingFilled'
    <3>1. SUFFICES ASSUME NEW i \in 1..Cnt PROVE buf[(tail' + i - 1) % CIRCBUF_SIZE] > 0
      BY <1>c, <2>2 DEF RingFilled
    <3>2. i \in 1..CIRCBUF_SIZE
      BY <1>00, SizeType
    <3>3. (tail' + i - 1) % CIRCBUF_SIZE = (tail + i - 1) % CIRCBUF_SIZE
      <4>1. 0 \in 0..(CIRCBUF_SIZE - 1)
        BY SizeType
      <4>2. (CIRCBUF_SIZE + i - 1) % CIRCBUF_SIZE = (0 + i - 1) % CIRCBUF_SIZE
        BY <1>00, <3>2, <4>1, SizeType, CircSlots
      <4> QED BY <2>1, <4>2
    <3> QED BY <1>0, <3>3 DEF RingFilled
  <2> QED BY <1>f, <2>3, <2>4, <2>5, <2>6 DEF RxInv
<1> QED BY <1>1, <1>2, <1>3, <1>4 DEF InRead

(* RxInv is inductive.                                                     *)
LEMMA RxInvStep == RxInv /\ [Next]_vars => RxInv'
<1> SUFFICES ASSUME RxInv, [Next]_vars PROVE RxInv'
  OBVIOUS
<1>1. CASE UNCHANGED vars
  <2>1. Cnt' = Cnt /\ RingFilled'
    BY <1>1, RingUntouched DEF vars
  <2> QED BY <1>1, <2>1 DEF vars, RxInv, TypeOK, SemOwned, Wrapping, SpaceKept, DataKept,
          NoLostRxWakeup
<1> QED BY <1>1, IrqKeeps, OutsideKeeps, InReadKeeps DEF Next

(* The inductive invariant holds in every state.                           *)
LEMMA RxInvariant == Spec => []RxInv
BY RxInvInit, RxInvStep, PTL DEF Spec

(* Every state is of its type: the interrupt stores inside the array and   *)
(* readers copy from inside it, whatever the size of the ring.             *)
THEOREM TypeCorrect == Spec => []TypeOK
<1>1. RxInv => TypeOK
  BY DEF RxInv
<1> QED BY <1>1, RxInvariant, PTL

(* Without a lock between them, the interrupt never stores into a slot     *)
(* that a reader is about to copy (handle_rx_char, read).                  *)
THEOREM NoSlotShared == Spec => []SlotsDisjoint
<1>1. RxInv => SlotsDisjoint
  <2>1. SUFFICES ASSUME RxInv, NEW r \in Readers, pc[r] \in {"copy", "advance"}, irq = "store",
                        head \in tail..(tail + count[r] - 1)
                 PROVE  FALSE
    BY DEF SlotsDisjoint
  <2>2. TypeOK /\ head # CIRCBUF_SIZE
    BY <2>1 DEF RxInv, Wrapping
  <2> DEFINE i == head - tail + 1
  <2>3. count[r] \in 0..Cnt /\ tail \in 0..CIRCBUF_SIZE /\ head \in 0..CIRCBUF_SIZE
        /\ Cnt \in 0..(CIRCBUF_SIZE - 1)
    BY <2>1, <2>2, ReaderSlots, RingFacts
  <2>4. i \in 1..count[r] /\ tail + i - 1 = head
    BY <2>1, <2>3, SizeType
  <2>5. i \in 1..Cnt /\ tail + i - 1 = (tail + i - 1) % CIRCBUF_SIZE
    BY <2>1, <2>4, ReaderSlots
  <2> QED BY <2>2, <2>4, <2>5, HeadIsFree
<1> QED BY <1>1, RxInvariant, PTL

(* A reader sleeps beside data only while the interrupt owes the wake-up   *)
(* of rx_completed().                                                      *)
THEOREM RxWakeupsSuffice == Spec => []NoLostRxWakeup
<1>1. RxInv => NoLostRxWakeup
  BY DEF RxInv
<1> QED BY <1>1, RxInvariant, PTL

-----------------------------------------------------------------------------
(* The ring as a sequence.                                                 *)
LEMMA QueueType ==
  ASSUME TypeOK
  PROVE  /\ Queue \in Seq(0..MaxRx) /\ Len(Queue) = Cnt /\ Cnt \in Nat
         /\ \A i \in 1..Cnt : Queue[i] = buf[(tail + i - 1) % CIRCBUF_SIZE]
<1>1. Cnt \in 0..(CIRCBUF_SIZE - 1) /\ Cnt \in Nat
  BY RingFacts, SizeType
<1>2. \A i \in 1..Cnt : buf[(tail + i - 1) % CIRCBUF_SIZE] \in 0..MaxRx
  <2>1. SUFFICES ASSUME NEW i \in 1..Cnt PROVE buf[(tail + i - 1) % CIRCBUF_SIZE] \in 0..MaxRx
    OBVIOUS
  <2>2. i \in 1..CIRCBUF_SIZE
    BY <1>1, SizeType
  <2>3. (tail + i - 1) % CIRCBUF_SIZE \in 0..(CIRCBUF_SIZE - 1)
    BY <2>2, RingFacts
  <2> QED BY <2>3 DEF TypeOK
<1>3. Queue \in [1..Cnt -> 0..MaxRx]
  BY <1>2 DEF Queue
<1>4. Queue \in Seq(0..MaxRx) /\ Len(Queue) = Cnt
  <2>1. Queue \in Seq(0..MaxRx)
    BY <1>1, <1>3, SeqDef
  <2>2. DOMAIN Queue = 1..Cnt /\ DOMAIN Queue = 1..Len(Queue) /\ Len(Queue) \in Nat
    BY <1>3, <2>1, LenProperties
  <2> QED BY <1>1, <2>1, <2>2
<1> QED BY <1>1, <1>4 DEF Queue

(* Storing a character in the slot of head does not change the queue yet.  *)
LEMMA StoreKeepsQueue ==
  ASSUME RxInv, RxStore
  PROVE  Queue' = Queue
<1>0. TypeOK /\ head # CIRCBUF_SIZE /\ Cnt \in 0..(CIRCBUF_SIZE - 1)
  BY RingFacts DEF RxInv, Wrapping, RxStore
<1>1. Cnt' = Cnt /\ tail' = tail /\ buf' = [buf EXCEPT ![head] = rx]
  BY DEF RxStore, RxUnchanged, Cnt
<1>2. ASSUME NEW i \in 1..Cnt
      PROVE  buf'[(tail + i - 1) % CIRCBUF_SIZE] = buf[(tail + i - 1) % CIRCBUF_SIZE]
  <2>1. i \in 1..CIRCBUF_SIZE
    BY <1>0, SizeType
  <2>2. (tail + i - 1) % CIRCBUF_SIZE \in 0..(CIRCBUF_SIZE - 1)
    BY <1>0, <2>1, RingFacts
  <2>3. (tail + i - 1) % CIRCBUF_SIZE # head
    BY <1>0, HeadIsFree
  <2> QED BY <1>0, <1>1, <2>2, <2>3 DEF TypeOK
<1> QED BY <1>1, <1>2 DEF Queue

(* Moving head appends it.                                                 *)
LEMMA BumpAppends ==
  ASSUME RxInv, RxInv', RxBumpHead
  PROVE  Queue' = Append(Queue, rx) /\ Len(Queue) < CIRCBUF_SIZE - 1
<1>0. /\ TypeOK /\ TypeOK' /\ head # CIRCBUF_SIZE /\ irq = "bump"
      /\ Cnt < CIRCBUF_SIZE - 1 /\ buf[head] = rx /\ rx \in 0..MaxRx
  BY DEF RxInv, Wrapping, SpaceKept, RxBumpHead, TypeOK
<1>1. UNCHANGED <<buf, tail>> /\ head' = head + 1
  BY DEF RxBumpHead, RxUnchanged
<1>2. Cnt' = Cnt + 1
  <2>1. head \in 0..CIRCBUF_SIZE /\ tail \in 0..CIRCBUF_SIZE /\ head < CIRCBUF_SIZE
    BY <1>0, SizeType DEF TypeOK
  <2> QED BY <1>0, <1>1, <2>1, SizeType, CircMoves DEF Cnt
<1>3. /\ Queue \in Seq(0..MaxRx) /\ Len(Queue) = Cnt /\ Cnt \in Nat
      /\ \A i \in 1..Cnt : Queue[i] = buf[(tail + i - 1) % CIRCBUF_SIZE]
  BY <1>0, QueueType
<1>4. Append(Queue, rx) = [i \in 1..(Cnt + 1) |-> IF i = Cnt + 1 THEN rx ELSE Queue[i]]
  <2>1. /\ Append(Queue, rx) \in Seq(0..MaxRx) /\ Len(Append(Queue, rx)) = Cnt + 1
        /\ \A i \in 1..Cnt : Append(Queue, rx)[i] = Queue[i]
        /\ Append(Queue, rx)[Cnt + 1] = rx
    BY <1>0, <1>3, AppendProperties
  <2>2. Append(Queue, rx) = [i \in 1..(Cnt + 1) |-> Append(Queue, rx)[i]]
    BY <2>1, LenProperties
  <2>3. \A i \in 1..(Cnt + 1) : i # Cnt + 1 => i \in 1..Cnt
    BY <1>3
  <2> QED BY <2>1, <2>2, <2>3
<1>5. ASSUME NEW i \in 1..(Cnt + 1)
      PROVE  buf[(tail + i - 1) % CIRCBUF_SIZE] = IF i = Cnt + 1 THEN rx ELSE Queue[i]
  <2>1. CASE i = Cnt + 1
    <3>1. tail + i - 1 = tail + Cnt
      BY <1>0, <1>3, <2>1 DEF TypeOK
    <3>2. (tail + Cnt) % CIRCBUF_SIZE = head
      BY <1>0, HeadIsFree
    <3> QED BY <1>0, <2>1, <3>1, <3>2
  <2>2. CASE i # Cnt + 1
    <3>1. i \in 1..Cnt
      BY <1>3, <2>2
    <3> QED BY <1>3, <2>2, <3>1
  <2> QED BY <2>1, <2>2
<1>6. Queue' = [i \in 1..(Cnt + 1) |-> buf[(tail + i - 1) % CIRCBUF_SIZE]]
  BY <1>1, <1>2 DEF Queue
<1> QED BY <1>0, <1>3, <1>4, <1>5, <1>6

(* Moving tail takes from the front what the reader has copied.            *)
LEMMA AdvanceTakes ==
  ASSUME RxInv, RxInv', NEW r \in Readers, AdvanceTail(r)
  PROVE  /\ count[r] \in 0..Len(Queue)
         /\ taken = SubSeq(Queue, 1, count[r])
         /\ Queue' = SubSeq(Queue, count[r] + 1, Len(Queue))
<1> DEFINE n == count[r]
<1>0. /\ TypeOK /\ pc[r] = "advance" /\ tail' = tail + n /\ UNCHANGED <<buf, head>>
      /\ taken = [i \in 1..n |-> buf[tail + i - 1]] /\ tail \in 0..CIRCBUF_SIZE
      /\ head \in 0..CIRCBUF_SIZE
  BY DEF RxInv, AdvanceTail, irq_vars, DataKept, TypeOK
<1>1. /\ n \in 0..Cnt /\ tail + n <= CIRCBUF_SIZE
      /\ \A i \in 1..n : i \in 1..Cnt /\ tail + i - 1 = (tail + i - 1) % CIRCBUF_SIZE
  BY <1>0, ReaderSlots
<1>2. /\ Queue \in Seq(0..MaxRx) /\ Len(Queue) = Cnt /\ Cnt \in Nat
      /\ \A i \in 1..Cnt : Queue[i] = buf[(tail + i - 1) % CIRCBUF_SIZE]
  BY <1>0, QueueType
<1>3. Cnt' = Cnt - n
  BY <1>0, <1>1, SizeType, CircMoves DEF Cnt
<1>4. \A i \in 1..Cnt : Queue[i] \in 0..MaxRx
  BY <1>2, ElementOfSeq
<1> HIDE DEF n
<1>5. taken = SubSeq(Queue, 1, n)
  <2>1. \A i \in 1..n : taken[i] = Queue[i]
    BY <1>0, <1>1, <1>2
  <2>2. /\ SubSeq(Queue, 1, n) \in Seq(0..MaxRx) /\ Len(SubSeq(Queue, 1, n)) = n
        /\ \A i \in 1..n : SubSeq(Queue, 1, n)[i] = Queue[i]
    <3>1. 1 \in Int /\ n \in Int /\ n - 1 + 1 = n /\ \A i \in 1..n : Queue[i] \in 0..MaxRx
      BY <1>1, <1>2, <1>4
    <3>2. /\ SubSeq(Queue, 1, n) \in Seq(0..MaxRx)
          /\ Len(SubSeq(Queue, 1, n)) = IF 1 <= n THEN n - 1 + 1 ELSE 0
          /\ \A i \in 1..(n - 1 + 1) : SubSeq(Queue, 1, n)[i] = Queue[1 + i - 1]
      BY <3>1, SubSeqProperties
    <3>3. \A i \in 1..n : 1 + i - 1 = i
      BY <1>1
    <3> QED BY <1>1, <1>2, <3>1, <3>2, <3>3
  <2>3. SubSeq(Queue, 1, n) = [i \in 1..n |-> SubSeq(Queue, 1, n)[i]]
    BY <2>2, LenProperties
  <2> QED BY <1>0, <2>1, <2>2, <2>3
<1>6. Queue' = SubSeq(Queue, n + 1, Cnt)
  <2>1. Queue' = [i \in 1..(Cnt - n) |-> buf[(tail + n + i - 1) % CIRCBUF_SIZE]]
    BY <1>0, <1>3 DEF Queue
  <2>2. /\ SubSeq(Queue, n + 1, Cnt) \in Seq(0..MaxRx)
        /\ Len(SubSeq(Queue, n + 1, Cnt)) = Cnt - n
        /\ \A i \in 1..(Cnt - n) : SubSeq(Queue, n + 1, Cnt)[i] = Queue[n + i]
    <3>1. /\ n + 1 \in Int /\ Cnt \in Int /\ Cnt - (n + 1) + 1 = Cnt - n
          /\ \A i \in (n + 1)..Cnt : Queue[i] \in 0..MaxRx
      BY <1>1, <1>2, <1>4
    <3>2. /\ SubSeq(Queue, n + 1, Cnt) \in Seq(0..MaxRx)
          /\ Len(SubSeq(Queue, n + 1, Cnt)) = IF n + 1 <= Cnt THEN Cnt - (n + 1) + 1 ELSE 0
          /\ \A i \in 1..(Cnt - (n + 1) + 1) :
               SubSeq(Queue, n + 1, Cnt)[i] = Queue[n + 1 + i - 1]
      BY <3>1, SubSeqProperties
    <3>3. \A i \in 1..(Cnt - n) : n + 1 + i - 1 = n + i
      BY <1>1, <1>2
    <3> QED BY <1>1, <1>2, <3>1, <3>2, <3>3
  <2>3. SubSeq(Queue, n + 1, Cnt) = [i \in 1..(Cnt - n) |-> SubSeq(Queue, n + 1, Cnt)[i]]
    BY <2>2, LenProperties
  <2>4. ASSUME NEW i \in 1..(Cnt - n)
        PROVE  buf[(tail + n + i - 1) % CIRCBUF_SIZE] = SubSeq(Queue, n + 1, Cnt)[i]
    <3>1. n + i \in 1..Cnt /\ tail + n + i - 1 = tail + (n + i) - 1
      BY <1>0, <1>1, <1>2
    <3> QED BY <1>2, <2>2, <3>1
  <2> QED BY <2>1, <2>3, <2>4
<1> QED BY <1>1, <1>2, <1>5, <1>6 DEF n

(* Wrapping head or tail moves nothing.                                    *)
LEMMA WrapKeepsQueue ==
  ASSUME RxInv, UNCHANGED buf,
         \/ head = CIRCBUF_SIZE /\ head' = 0 /\ tail' = tail
         \/ tail' = (IF tail >= CIRCBUF_SIZE THEN tail - CIRCBUF_SIZE ELSE tail) /\ head' = head
  PROVE  Queue' = Queue
<1>0. Cnt \in 0..(CIRCBUF_SIZE - 1) /\ head \in 0..CIRCBUF_SIZE /\ tail \in 0..CIRCBUF_SIZE
  BY RingFacts DEF RxInv
<1>1. CASE head = CIRCBUF_SIZE /\ head' = 0 /\ tail' = tail
  <2>1. Cnt' = Cnt
    BY <1>0, <1>1, CircMoves, SizeType DEF Cnt
  <2> QED BY <1>1, <2>1 DEF Queue
<1>2. CASE tail' = (IF tail >= CIRCBUF_SIZE THEN tail - CIRCBUF_SIZE ELSE tail) /\ head' = head
  <2>1. tail' = tail \/ (tail = CIRCBUF_SIZE /\ tail' = 0)
    BY <1>0, <1>2, SizeType
  <2>2. Cnt' = Cnt
    BY <1>0, <1>2, <2>1, SizeType, CircMoves DEF Cnt
  <2>3. ASSUME NEW i \in 1..Cnt
        PROVE  buf[(tail' + i - 1) % CIRCBUF_SIZE] = buf[(tail + i - 1) % CIRCBUF_SIZE]
    <3>1. i \in 1..CIRCBUF_SIZE /\ 0 \in 0..(CIRCBUF_SIZE - 1)
      BY <1>0, SizeType
    <3>2. (CIRCBUF_SIZE + i - 1) % CIRCBUF_SIZE = (0 + i - 1) % CIRCBUF_SIZE
      BY <1>0, <3>1, SizeType, CircSlots
    <3> QED BY <2>1, <3>2
  <2> QED BY <2>2, <2>3 DEF Queue
<1> QED BY <1>1, <1>2

(* An interrupt's step is the arrival of a character, or invisible ...     *)
LEMMA IrqRefines ==
  ASSUME RxInv, RxInv', Irq
  PROVE  Fifo!Arrive \/ UNCHANGED <<Seen, Queue, delivered>>
<1>0. TypeOK /\ Cnt \in 0..(CIRCBUF_SIZE - 1) /\ Len(Queue) = Cnt /\ rx \in Nat
  <2>1. TypeOK
    BY DEF RxInv
  <2>2. rx \in Nat
    BY <2>1, RxAssumption DEF TypeOK
  <2> QED BY <2>1, <2>2, RingFacts, QueueType
<1>1. CASE HandleRxChar
  <2>1. Queue' = Queue /\ delivered' = delivered
    BY <1>1, RingUntouched DEF HandleRxChar, RxUnchanged
  <2>2. CASE UNCHANGED <<irq, rx>>
    BY <2>1, <2>2 DEF Seen
  <2>3. CASE rx' = rx + 1 /\ irq' = "store" /\ irq = "idle"
    BY <1>0, <2>1, <2>3 DEF Seen
  <2>4. CASE rx' = rx + 1 /\ irq' = "idle" /\ irq = "idle"
            /\ ~(CIRC_SPACE(head, tail, CIRCBUF_SIZE) > 0)
    <3>1. Cnt = CIRCBUF_SIZE - 1
      BY <1>0, <2>4, RingFacts, SizeType
    <3>2. Seen' = Seen + 1
      BY <1>0, <2>4 DEF Seen
    <3> QED BY <1>0, <2>1, <3>1, <3>2 DEF Fifo!Arrive
  <2> QED BY <1>1, <2>2, <2>3, <2>4 DEF HandleRxChar
<1>2. CASE RxStore
  <2>1. Queue' = Queue
    BY <1>2, StoreKeepsQueue
  <2> QED BY <1>2, <2>1 DEF RxStore, RxUnchanged, Seen
<1>3. CASE RxBumpHead
  <2>1. Queue' = Append(Queue, rx) /\ Len(Queue) < CIRCBUF_SIZE - 1
    BY <1>3, BumpAppends
  <2>2. Seen + 1 = rx /\ Seen' = rx /\ delivered' = delivered
    BY <1>0, <1>3, SizeType DEF RxBumpHead, RxUnchanged, Seen
  <2> QED BY <2>1, <2>2 DEF Fifo!Arrive
<1>4. CASE RxWrapHead
  <2>1. head = CIRCBUF_SIZE
    BY <1>4 DEF RxInv, Wrapping, RxWrapHead
  <2>2. Queue' = Queue
    BY <1>4, <2>1, WrapKeepsQueue DEF RxWrapHead, RxUnchanged
  <2> QED BY <1>4, <2>2 DEF RxWrapHead, RxUnchanged, Seen
<1>5. CASE RxCompleted
  <2>1. Queue' = Queue
    BY <1>5, RingUntouched DEF RxCompleted, RxUnchanged
  <2> QED BY <1>5, <2>1 DEF RxCompleted, RxUnchanged, Seen
<1> QED BY <1>1, <1>2, <1>3, <1>4, <1>5 DEF Irq

(* ... and a reader's step is a delivery, or invisible.                    *)
LEMMA ReaderRefines ==
  ASSUME RxInv, RxInv', NEW r \in Readers,
         \/ \E n \in 0..MaxCount : Read(r, n)
         \/ DownSem(r) \/ WaitData(r) \/ Interrupt(r) \/ Poll(r)
         \/ InRead(r)
  PROVE  \/ \E n \in 1..Len(Queue) : Fifo!Deliver(n)
         \/ UNCHANGED <<Seen, Queue, delivered>>
<1>0. UNCHANGED <<buf, head, Seen>>
  BY DEF Read, DownSem, WaitData, Interrupt, Poll, InRead, CheckData, CopyToUser,
         AdvanceTail, WrapTail, irq_vars, Seen
<1>1. CASE AdvanceTail(r)
  <2>1. /\ count[r] \in 0..Len(Queue)
        /\ taken = SubSeq(Queue, 1, count[r])
        /\ Queue' = SubSeq(Queue, count[r] + 1, Len(Queue))
    BY <1>1, AdvanceTakes
  <2>2. delivered' = delivered \o taken
    BY <1>1 DEF AdvanceTail
  <2>3. /\ Queue \in Seq(0..MaxRx) /\ Len(Queue) \in Nat
    BY QueueType DEF RxInv
  <2>4. CASE count[r] = 0
    <3>1. taken = <<>>
      BY <1>1, <2>4 DEF RxInv, DataKept, AdvanceTail
    <3>2. delivered' = delivered
      BY <2>2, <3>1, ConcatEmptySeq DEF RxInv, TypeOK
    <3>3. tail' = tail
      BY <1>1, <2>4 DEF AdvanceTail, RxInv, TypeOK
    <3> QED BY <1>0, <3>2, <3>3, RingUntouched
  <2>5. CASE count[r] # 0
    <3>1. count[r] \in 1..Len(Queue)
      BY <2>1, <2>3, <2>5
    <3> QED BY <1>0, <2>1, <2>2, <3>1 DEF Fifo!Deliver
  <2> QED BY <2>4, <2>5
<1>2. CASE WrapTail(r)
  <2>1. Queue' = Queue
    BY <1>0, <1>2, WrapKeepsQueue DEF WrapTail
  <2> QED BY <1>0, <1>2, <2>1 DEF WrapTail
<1>3. CASE ~AdvanceTail(r) /\ ~WrapTail(r)
  <2>1. UNCHANGED <<tail, delivered>>
    BY <1>3 DEF Read, DownSem, WaitData, Interrupt, Poll, InRead, CheckData, CopyToUser
  <2> QED BY <1>0, <2>1, RingUntouched
<1> QED BY <1>1, <1>2, <1>3

(* The ring is a queue that loses an arriving character only when it is    *)
(* full, and readers get every other character once and in order, although *)
(* the interrupt and the readers share no lock (handle_rx_char, read).     *)
THEOREM RingIsLossyFifo == Spec => IsLossyFifo
<1>1. Init => Fifo!Init
  <2>1. SUFFICES ASSUME Init PROVE Seen = 0 /\ Queue = <<>> /\ delivered = <<>>
    BY DEF Fifo!Init
  <2>2. RxInv
    BY <2>1, RxInvInit
  <2>3. Cnt = 0
    <3>1. head = 0 /\ tail = 0 /\ 0 \in 0..CIRCBUF_SIZE
      BY <2>1, SizeType DEF Init
    <3>2. Cnt = Elements(head, tail, CIRCBUF_SIZE)
      BY <3>1, SizeType, CircCnt DEF Cnt
    <3> QED BY <3>1, <3>2, SizeType DEF Elements
  <2>4. Queue \in Seq(0..MaxRx) /\ Len(Queue) = 0
    BY <2>2, <2>3, QueueType DEF RxInv
  <2> QED BY <2>1, <2>4, EmptySeq DEF Init, Seen
<1>2. RxInv /\ RxInv' /\ [Next]_vars => [Fifo!Next]_Fifo!vars
  <2> SUFFICES ASSUME RxInv, RxInv', [Next]_vars PROVE [Fifo!Next]_Fifo!vars
    OBVIOUS
  <2>1. CASE Irq
    BY <2>1, IrqRefines DEF Fifo!Next, Fifo!vars
  <2>2. ASSUME NEW r \in Readers,
               \/ \E n \in 0..MaxCount : Read(r, n)
               \/ DownSem(r) \/ WaitData(r) \/ Interrupt(r) \/ Poll(r)
               \/ InRead(r)
        PROVE  [Fifo!Next]_Fifo!vars
    BY <2>2, ReaderRefines DEF Fifo!Next, Fifo!vars
  <2>3. CASE UNCHANGED vars
    <3>1. Queue' = Queue
      BY <2>3, RingUntouched DEF vars
    <3> QED BY <2>3, <3>1 DEF vars, Seen, Fifo!vars
  <2> QED BY <2>1, <2>2, <2>3 DEF Next
<1> QED BY <1>1, <1>2, RxInvariant, PTL DEF Spec, IsLossyFifo, Fifo!Spec
=============================================================================
