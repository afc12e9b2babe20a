--------------------------- MODULE Eq3Loop_proofs --------------------------
(* Proofs about the character loop device (Eq3Loop), for any threads on    *)
(* either side, rings of any size and calls of any length.                 *)
EXTENDS Eq3Loop, TLAPS, SequenceTheorems, FiniteSetTheorems

(* A ring has at least one slot.                                           *)
LEMMA BufSize == BUFSIZE \in Nat \ {0}
BY LoopAssumption

(* What the macros of linux/circ_buf.h return for the positions of a ring, *)
(* which are wrapped at once.                                              *)
LEMMA RingMacros ==
  ASSUME NEW h \in 0..(BUFSIZE - 1), NEW t \in 0..(BUFSIZE - 1)
  PROVE  LET n == CIRC_CNT(h, t, BUFSIZE)
         IN /\ n = (IF h >= t THEN h - t ELSE h - t + BUFSIZE) /\ n \in 0..(BUFSIZE - 1)
            /\ CIRC_SPACE(h, t, BUFSIZE) = BUFSIZE - 1 - n
            /\ CIRC_CNT_TO_END(h, t, BUFSIZE) = IF n < BUFSIZE - t THEN n ELSE BUFSIZE - t
            /\ CIRC_SPACE_TO_END(h, t, BUFSIZE) =
                 IF BUFSIZE - 1 - n < BUFSIZE - h THEN BUFSIZE - 1 - n ELSE BUFSIZE - h
<1> DEFINE n == CIRC_CNT(h, t, BUFSIZE)
<1>1. n = (IF h >= t THEN h - t ELSE h - t + BUFSIZE) /\ n \in 0..(BUFSIZE - 1)
  BY BufSize DEF CIRC_CNT
<1> HIDE DEF n
<1>2. CIRC_SPACE(h, t, BUFSIZE) = BUFSIZE - 1 - n
  <2>1. CIRC_SPACE(h, t, BUFSIZE) = (t - (h + 1)) % BUFSIZE
    BY DEF CIRC_SPACE, CIRC_CNT
  <2>2. (t - (h + 1)) % BUFSIZE = IF t > h THEN t - (h + 1) ELSE t - (h + 1) + BUFSIZE
    BY BufSize
  <2> QED BY <1>1, <2>1, <2>2, BufSize
<1>3. CIRC_CNT_TO_END(h, t, BUFSIZE) = IF n < BUFSIZE - t THEN n ELSE BUFSIZE - t
  <2>1. (h + (BUFSIZE - t)) % BUFSIZE = n
    BY <1>1, BufSize
  <2> QED BY <2>1 DEF CIRC_CNT_TO_END
<1>4. CIRC_SPACE_TO_END(h, t, BUFSIZE) =
        IF BUFSIZE - 1 - n < BUFSIZE - h THEN BUFSIZE - 1 - n ELSE BUFSIZE - h
  <2>1. ((BUFSIZE - 1 - h) + t) % BUFSIZE = BUFSIZE - 1 - n
    BY <1>1, BufSize
  <2> QED BY <1>1, <2>1, BufSize DEF CIRC_SPACE_TO_END
<1> QED BY <1>1, <1>2, <1>3, <1>4 DEF n

(* A remainder that wraps around once at most.                             *)
LEMMA Wraps ==
  ASSUME NEW a \in 0..(BUFSIZE - 1), NEW i \in 1..BUFSIZE
  PROVE  /\ a + i - 1 < BUFSIZE => (a + i - 1) % BUFSIZE = a + i - 1
         /\ ~(a + i - 1 < BUFSIZE) => (a + i - 1) % BUFSIZE = a + i - 1 - BUFSIZE
BY BufSize

(* The two pieces that read() copies are the n oldest bytes of the ring,   *)
(* in order.                                                               *)
THEOREM TakeReads ==
  ASSUME NEW r \in RingType, NEW n \in 0..CIRC_CNT(r.head, r.tail, BUFSIZE)
  PROVE  /\ Take(r, n) \in Seq(Nat) /\ Len(Take(r, n)) = n
         /\ \A i \in 1..n : Take(r, n)[i] = r.buf[(r.tail + i - 1) % BUFSIZE]
<1> DEFINE m == Least(n, CIRC_CNT_TO_END(r.head, r.tail, BUFSIZE))
           p == Piece(r, r.tail, m)
           from == (r.tail + m) % BUFSIZE
           q == Piece(r, from, n - m)
<1>1. /\ BUFSIZE \in Nat \ {0} /\ r.head \in 0..(BUFSIZE - 1) /\ r.tail \in 0..(BUFSIZE - 1)
      /\ r.buf \in [0..(BUFSIZE - 1) -> Nat]
  BY BufSize DEF RingType
<1>3. CIRC_CNT(r.head, r.tail, BUFSIZE) \in 0..(BUFSIZE - 1)
  BY <1>1, RingMacros
<1>4. CIRC_CNT_TO_END(r.head, r.tail, BUFSIZE) =
        IF CIRC_CNT(r.head, r.tail, BUFSIZE) < BUFSIZE - r.tail
          THEN CIRC_CNT(r.head, r.tail, BUFSIZE) ELSE BUFSIZE - r.tail
  BY <1>1, RingMacros
<1>5. m = (IF n < BUFSIZE - r.tail THEN n ELSE BUFSIZE - r.tail) /\ n \in 0..(BUFSIZE - 1)
  BY <1>1, <1>3, <1>4 DEF Least
<1>6. m \in 0..n /\ r.tail + m <= BUFSIZE /\ (m < n => r.tail + m = BUFSIZE)
  BY <1>1, <1>5
<1>7. m < n => from = 0
  BY <1>1, <1>6
<1> HIDE DEF m, from
<1>8. p \in Seq(Nat) /\ Len(p) = m /\ \A i \in 1..m : p[i] = r.buf[r.tail + i - 1]
  <2>1. \A i \in 1..m : r.tail + i - 1 \in 0..(BUFSIZE - 1)
    BY <1>1, <1>5, <1>6
  <2>2. p \in [1..m -> Nat] /\ \A i \in 1..m : p[i] = r.buf[r.tail + i - 1]
    BY <1>1, <2>1 DEF Piece
  <2>3. m \in Nat
    BY <1>5, <1>6
  <2> QED BY <2>2, <2>3, LenProperties, SeqDef
<1>9. q \in Seq(Nat) /\ Len(q) = n - m /\ \A i \in 1..(n - m) : q[i] = r.buf[i - 1]
  <2>1. n - m \in Nat
    BY <1>5, <1>6
  <2>2. \A i \in 1..(n - m) : from + i - 1 = i - 1 /\ i - 1 \in 0..(BUFSIZE - 1)
    BY <1>1, <1>5, <1>6, <1>7
  <2>3. q \in [1..(n - m) -> Nat] /\ \A i \in 1..(n - m) : q[i] = r.buf[i - 1]
    BY <1>1, <2>2 DEF Piece
  <2> QED BY <2>1, <2>3, LenProperties, SeqDef
<1>10. Take(r, n) = p \o q
  BY DEF Take, m, from
<1> HIDE DEF p, q
<1>11. /\ Take(r, n) \in Seq(Nat) /\ Len(Take(r, n)) = m + (n - m)
       /\ \A i \in 1..(m + (n - m)) : Take(r, n)[i] = IF i <= m THEN p[i] ELSE q[i - m]
  <2>1. /\ p \o q \in Seq(Nat) /\ Len(p \o q) = Len(p) + Len(q)
        /\ \A i \in 1..(Len(p) + Len(q)) : (p \o q)[i] = IF i <= Len(p) THEN p[i] ELSE q[i - Len(p)]
    BY <1>8, <1>9, ConcatProperties, Zenon
  <2>2. Len(p) = m /\ Len(q) = n - m
    BY <1>8, <1>9
  <2> QED BY <1>10, <2>1, <2>2, Zenon
<1>12. m + (n - m) = n
  BY <1>5, <1>6
<1>13. ASSUME NEW i \in 1..n PROVE Take(r, n)[i] = r.buf[(r.tail + i - 1) % BUFSIZE]
  <2>1. i \in 1..BUFSIZE
    BY <1>1, <1>5
  <2>2. /\ r.tail + i - 1 < BUFSIZE => (r.tail + i - 1) % BUFSIZE = r.tail + i - 1
        /\ ~(r.tail + i - 1 < BUFSIZE) => (r.tail + i - 1) % BUFSIZE = r.tail + i - 1 - BUFSIZE
    BY <1>1, <2>1, Wraps, Zenon
  <2>3. CASE i <= m
    <3>1. i \in 1..m /\ r.tail + i - 1 < BUFSIZE
      BY <1>1, <1>5, <1>6, <2>3
    <3> QED BY <1>8, <1>11, <1>12, <2>2, <3>1
  <2>4. CASE ~(i <= m)
    <3>0. m \in Nat /\ n \in Nat /\ i \in Nat /\ i <= n /\ m < i /\ r.tail \in Nat
      BY <1>1, <1>5, <1>6, <2>4
    <3>a. r.tail + m = BUFSIZE
      BY <1>6, <3>0
    <3>1. /\ i - m \in 1..(n - m) /\ ~(r.tail + i - 1 < BUFSIZE)
          /\ i - m - 1 = r.tail + i - 1 - BUFSIZE
      BY <3>0, <3>a
    <3>2. Take(r, n)[i] = q[i - m]
      BY <1>11, <1>12, <2>4
    <3>3. q[i - m] = r.buf[i - m - 1]
      BY <1>9, <3>1
    <3> QED BY <2>2, <3>1, <3>2, <3>3
  <2> QED BY <2>3, <2>4
<1> QED BY <1>11, <1>12, <1>13

(* Where the two pieces of a write() of c bytes go: behind the n bytes the *)
(* ring holds, and nowhere else.                                           *)
Pieces(h, t, c) ==
  LET n == CIRC_CNT(h, t, BUFSIZE)
      m == Least(c, CIRC_SPACE_TO_END(h, t, BUFSIZE))
      head2 == (h + m) % BUFSIZE
      rest == c - m
  IN /\ (head2 + rest) % BUFSIZE \in 0..(BUFSIZE - 1)
     /\ CIRC_CNT((head2 + rest) % BUFSIZE, t, BUFSIZE) = n + c
     /\ \A j \in 0..(BUFSIZE - 1) :
          /\ j \in h..(h + m - 1) => j - h + 1 \in 1..c
          /\ j \in head2..(head2 + rest - 1) => m + j - head2 + 1 \in 1..c
     /\ \A i \in 1..n :
          /\ (t + i - 1) % BUFSIZE \in 0..(BUFSIZE - 1)
          /\ (t + i - 1) % BUFSIZE \notin h..(h + m - 1)
          /\ (t + i - 1) % BUFSIZE \notin head2..(head2 + rest - 1)
     /\ \A i \in 1..c :
          LET j == (t + (n + i) - 1) % BUFSIZE
          IN /\ j \in 0..(BUFSIZE - 1)
             /\ \/ j \in h..(h + m - 1) /\ j - h + 1 = i
                \/ /\ j \notin h..(h + m - 1)
                   /\ j \in head2..(head2 + rest - 1) /\ m + j - head2 + 1 = i

(* The pieces are there whatever the positions, if there is space.         *)
LEMMA PutPieces ==
  ASSUME NEW h \in 0..(BUFSIZE - 1), NEW t \in 0..(BUFSIZE - 1),
         NEW c \in Nat, c <= CIRC_SPACE(h, t, BUFSIZE)
  PROVE  Pieces(h, t, c)
<1> DEFINE n == CIRC_CNT(h, t, BUFSIZE)
           m == Least(c, CIRC_SPACE_TO_END(h, t, BUFSIZE))
           head2 == (h + m) % BUFSIZE
           rest == c - m
           end == (head2 + rest) % BUFSIZE
<1>1. BUFSIZE \in Nat \ {0} /\ h \in 0..BUFSIZE /\ t \in 0..BUFSIZE /\ h < BUFSIZE
  BY BufSize
<1>2. n \in 0..(BUFSIZE - 1)
  BY RingMacros
<1>3. /\ CIRC_SPACE(h, t, BUFSIZE) = BUFSIZE - 1 - n
      /\ CIRC_SPACE_TO_END(h, t, BUFSIZE) =
           IF BUFSIZE - 1 - n < BUFSIZE - h THEN BUFSIZE - 1 - n ELSE BUFSIZE - h
  BY RingMacros
<1>4. n = IF h >= t THEN h - t ELSE h - t + BUFSIZE
  BY RingMacros
<1> HIDE DEF n
<1>5. c \in 0..(BUFSIZE - 1 - n) /\ c < BUFSIZE
  BY <1>1, <1>2, <1>3
<1>6. m = IF h + c < BUFSIZE THEN c ELSE BUFSIZE - h
  BY <1>1, <1>2, <1>3, <1>5 DEF Least
<1> HIDE DEF m
<1>7. /\ h + c < BUFSIZE => m = c /\ head2 = h + c /\ rest = 0
      /\ ~(h + c < BUFSIZE) => m = BUFSIZE - h /\ head2 = 0 /\ rest = h + c - BUFSIZE
  <2>1. CASE h + c < BUFSIZE
    BY <1>1, <1>6, <2>1
  <2>2. CASE ~(h + c < BUFSIZE)
    BY <1>1, <1>6, <2>2
  <2> QED BY <2>1, <2>2
<1> HIDE DEF head2, rest
<1>8. end = (IF h + c < BUFSIZE THEN h + c ELSE h + c - BUFSIZE) /\ end \in 0..(BUFSIZE - 1)
  <2>1. CASE h + c < BUFSIZE
    BY <1>1, <1>7, <2>1
  <2>2. CASE ~(h + c < BUFSIZE)
    BY <1>1, <1>5, <1>7, <2>2
  <2> QED BY <2>1, <2>2
<1>9. CIRC_CNT(end, t, BUFSIZE) = n + c
  <2>1. CIRC_CNT(end, t, BUFSIZE) = IF end >= t THEN end - t ELSE end - t + BUFSIZE
    BY <1>8, RingMacros
  <2> HIDE DEF end
  <2> QED BY <1>1, <1>2, <1>4, <1>5, <1>8, <2>1
<1>10. ASSUME NEW j \in 0..(BUFSIZE - 1)
       PROVE  /\ j \in h..(h + m - 1) => j - h + 1 \in 1..c
              /\ j \in head2..(head2 + rest - 1) => m + j - head2 + 1 \in 1..c
  BY <1>1, <1>5, <1>7
<1>11. ASSUME NEW i \in 1..BUFSIZE
       PROVE  (t + i - 1) % BUFSIZE = (IF t + i - 1 < BUFSIZE THEN t + i - 1 ELSE t + i - 1 - BUFSIZE)
  BY Wraps
<1>12. ASSUME NEW i \in 1..n
       PROVE  /\ (t + i - 1) % BUFSIZE \in 0..(BUFSIZE - 1)
              /\ (t + i - 1) % BUFSIZE \notin h..(h + m - 1)
              /\ (t + i - 1) % BUFSIZE \notin head2..(head2 + rest - 1)
  <2>1. i \in 1..BUFSIZE
    BY <1>1, <1>2
  <2>2. (t + i - 1) % BUFSIZE = (IF t + i - 1 < BUFSIZE THEN t + i - 1 ELSE t + i - 1 - BUFSIZE)
    BY <1>11, <2>1
  <2> QED BY <1>1, <1>2, <1>4, <1>5, <1>7, <2>1, <2>2
<1>13. ASSUME NEW i \in 1..c
       PROVE  LET j == (t + (n + i) - 1) % BUFSIZE
              IN /\ j \in 0..(BUFSIZE - 1)
                 /\ \/ j \in h..(h + m - 1) /\ j - h + 1 = i
                    \/ /\ j \notin h..(h + m - 1)
                       /\ j \in head2..(head2 + rest - 1) /\ m + j - head2 + 1 = i
  <2> DEFINE j == (t + (n + i) - 1) % BUFSIZE
  <2>1. n + i \in 1..BUFSIZE /\ i \in 1..BUFSIZE
    BY <1>1, <1>2, <1>5
  <2>2. j = (IF t + (n + i) - 1 < BUFSIZE THEN t + (n + i) - 1 ELSE t + (n + i) - 1 - BUFSIZE)
    BY <2>1, Wraps
  <2> HIDE DEF j
  <2>3. j = (IF h + i - 1 < BUFSIZE THEN h + i - 1 ELSE h + i - 1 - BUFSIZE)
    BY <1>1, <1>2, <1>4, <1>5, <2>1, <2>2
  <2>4. j \in 0..(BUFSIZE - 1)
    BY <1>1, <2>1, <2>3
  <2>5. \/ j \in h..(h + m - 1) /\ j - h + 1 = i
        \/ /\ j \notin h..(h + m - 1)
           /\ j \in head2..(head2 + rest - 1) /\ m + j - head2 + 1 = i
    BY <1>1, <1>5, <1>7, <2>1, <2>3
  <2> QED BY <2>4, <2>5 DEF j
<1> QED BY <1>8, <1>9, <1>10, <1>12, <1>13 DEF Pieces, n, m, head2, rest

(* A ring with another content, another head or another tail.              *)
LEMMA RingParts ==
  ASSUME NEW r \in RingType, NEW b \in [0..(BUFSIZE - 1) -> Nat],
         NEW h \in 0..(BUFSIZE - 1), NEW t \in 0..(BUFSIZE - 1)
  PROVE  /\ [r EXCEPT !.buf = b, !.head = h] \in RingType
         /\ [r EXCEPT !.tail = t] \in RingType
         /\ [r EXCEPT !.head = h, !.tail = t] \in RingType
BY DEF RingType

(* How many bytes a ring holds is a number.                                *)
LEMMA RingCnt ==
  ASSUME NEW r \in RingType
  PROVE  CIRC_CNT(r.head, r.tail, BUFSIZE) \in Nat
<1>1. BUFSIZE \in Nat \ {0} /\ r.head \in 0..(BUFSIZE - 1) /\ r.tail \in 0..(BUFSIZE - 1)
  BY BufSize DEF RingType
<1>2. CIRC_CNT(r.head, r.tail, BUFSIZE) \in 0..(BUFSIZE - 1)
  BY <1>1, RingMacros
<1> QED BY <1>1, <1>2

(* The two pieces that write() copies follow what the ring holds already,  *)
(* which stays as it is.                                                   *)
THEOREM PutStores ==
  ASSUME NEW r \in RingType, NEW v \in Seq(Nat),
         Len(v) <= CIRC_SPACE(r.head, r.tail, BUFSIZE)
  PROVE  LET n == CIRC_CNT(r.head, r.tail, BUFSIZE)
             r2 == Put(r, v)
         IN /\ r2 \in RingType /\ r2.tail = r.tail
            /\ CIRC_CNT(r2.head, r.tail, BUFSIZE) = n + Len(v)
            /\ \A i \in 1..n :
                 r2.buf[(r.tail + i - 1) % BUFSIZE] = r.buf[(r.tail + i - 1) % BUFSIZE]
            /\ \A i \in 1..Len(v) : r2.buf[(r.tail + (n + i) - 1) % BUFSIZE] = v[i]
<1> DEFINE n == CIRC_CNT(r.head, r.tail, BUFSIZE)
           m == Least(Len(v), CIRC_SPACE_TO_END(r.head, r.tail, BUFSIZE))
           head2 == (r.head + m) % BUFSIZE
           rest == Len(v) - m
           first == r.head..(r.head + m - 1)
           second == head2..(head2 + rest - 1)
           newbuf == [i \in DOMAIN r.buf |->
                        IF i \in first THEN v[i - r.head + 1]
                        ELSE IF i \in second THEN v[m + i - head2 + 1]
                        ELSE r.buf[i]]
           end == (head2 + rest) % BUFSIZE
           r2 == Put(r, v)
<1>1. /\ r.head \in 0..(BUFSIZE - 1) /\ r.tail \in 0..(BUFSIZE - 1) /\ Len(v) \in Nat
      /\ r.buf \in [0..(BUFSIZE - 1) -> Nat] /\ \A i \in 1..Len(v) : v[i] \in Nat
  BY LenProperties DEF RingType
<1>2. /\ end \in 0..(BUFSIZE - 1)
      /\ CIRC_CNT(end, r.tail, BUFSIZE) = n + Len(v)
      /\ \A j \in 0..(BUFSIZE - 1) :
           /\ j \in first => j - r.head + 1 \in 1..Len(v)
           /\ j \in second => m + j - head2 + 1 \in 1..Len(v)
      /\ \A i \in 1..n :
           /\ (r.tail + i - 1) % BUFSIZE \in 0..(BUFSIZE - 1)
           /\ (r.tail + i - 1) % BUFSIZE \notin first
           /\ (r.tail + i - 1) % BUFSIZE \notin second
      /\ \A i \in 1..Len(v) :
           LET j == (r.tail + (n + i) - 1) % BUFSIZE
           IN /\ j \in 0..(BUFSIZE - 1)
              /\ \/ j \in first /\ j - r.head + 1 = i
                 \/ j \notin first /\ j \in second /\ m + j - head2 + 1 = i
  <2>1. Pieces(r.head, r.tail, Len(v))
    BY <1>1, PutPieces, Zenon
  <2> QED BY <2>1, Zenon DEF Pieces
<1>3. r2 = [r EXCEPT !.buf = newbuf, !.head = end]
  BY Zenon DEF Put
<1> HIDE DEF n, m, head2, first, second, end
<1>4. r2.buf = newbuf /\ r2.head = end /\ r2.tail = r.tail
  BY <1>3 DEF RingType
<1>5. /\ DOMAIN newbuf = 0..(BUFSIZE - 1)
      /\ \A j \in 0..(BUFSIZE - 1) :
           /\ j \in first => newbuf[j] = v[j - r.head + 1]
           /\ j \notin first /\ j \in second => newbuf[j] = v[m + j - head2 + 1]
           /\ j \notin first /\ j \notin second => newbuf[j] = r.buf[j]
  BY <1>1
<1>6. newbuf \in [0..(BUFSIZE - 1) -> Nat]
  <2>1. \A j \in 0..(BUFSIZE - 1) : newbuf[j] \in Nat
    <3> SUFFICES ASSUME NEW j \in 0..(BUFSIZE - 1) PROVE newbuf[j] \in Nat
      OBVIOUS
    <3> HIDE DEF newbuf
    <3>1. CASE j \in first
      BY <1>1, <1>2, <1>5, <3>1, Zenon
    <3>2. CASE j \notin first /\ j \in second
      BY <1>1, <1>2, <1>5, <3>2, Zenon
    <3>3. CASE j \notin first /\ j \notin second
      BY <1>1, <1>5, <3>3
    <3> QED BY <3>1, <3>2, <3>3
  <2> QED BY <1>5, <2>1
<1> HIDE DEF newbuf
<1>7. r2 \in RingType
  <2>1. [r EXCEPT !.buf = newbuf, !.head = end] \in RingType
    BY <1>1, <1>2, <1>6, RingParts
  <2> QED BY <1>3, <2>1
<1> HIDE DEF r2
<1>8. \A i \in 1..n : newbuf[(r.tail + i - 1) % BUFSIZE] = r.buf[(r.tail + i - 1) % BUFSIZE]
  BY <1>2, <1>5, Zenon
<1>9. ASSUME NEW i \in 1..Len(v) PROVE newbuf[(r.tail + (n + i) - 1) % BUFSIZE] = v[i]
  <2> DEFINE j == (r.tail + (n + i) - 1) % BUFSIZE
  <2>1. /\ j \in 0..(BUFSIZE - 1)
        /\ \/ j \in first /\ j - r.head + 1 = i
           \/ j \notin first /\ j \in second /\ m + j - head2 + 1 = i
    BY <1>2, Zenon
  <2> HIDE DEF j
  <2>2. newbuf[j] = v[i]
    BY <1>5, <2>1, Zenon
  <2> QED BY <2>2 DEF j
<1> QED BY <1>2, <1>4, <1>7, <1>8, <1>9, Zenon DEF n, r2

(* Where the tail of a ring is after n bytes were read.                    *)
LEMMA TakeMoves ==
  ASSUME NEW h \in 0..(BUFSIZE - 1), NEW t \in 0..(BUFSIZE - 1),
         NEW n \in 0..CIRC_CNT(h, t, BUFSIZE)
  PROVE  LET t2 == (t + n) % BUFSIZE
         IN /\ t2 \in 0..(BUFSIZE - 1)
            /\ CIRC_CNT(h, t2, BUFSIZE) = CIRC_CNT(h, t, BUFSIZE) - n
            /\ \A i \in 1..(CIRC_CNT(h, t, BUFSIZE) - n) :
                 (t2 + i - 1) % BUFSIZE = (t + (n + i) - 1) % BUFSIZE
<1> DEFINE t2 == (t + n) % BUFSIZE
           c == CIRC_CNT(h, t, BUFSIZE)
<1>1. BUFSIZE \in Nat \ {0} /\ h \in 0..BUFSIZE /\ t \in 0..BUFSIZE
  BY BufSize
<1>2. c = (IF h >= t THEN h - t ELSE h - t + BUFSIZE) /\ c \in 0..(BUFSIZE - 1)
  BY RingMacros
<1> HIDE DEF c
<1>3. c = (IF h >= t THEN h - t ELSE h - t + BUFSIZE) /\ n \in 0..c /\ n \in 0..(BUFSIZE - 1)
  BY <1>1, <1>2 DEF c
<1>4. t2 = (IF t + n < BUFSIZE THEN t + n ELSE t + n - BUFSIZE) /\ t2 \in 0..(BUFSIZE - 1)
  BY <1>1, <1>3
<1> HIDE DEF t2
<1>5. CIRC_CNT(h, t2, BUFSIZE) = c - n
  <2>1. CIRC_CNT(h, t2, BUFSIZE) = IF h >= t2 THEN h - t2 ELSE h - t2 + BUFSIZE
    BY <1>4, RingMacros
  <2> QED BY <1>1, <1>2, <1>3, <1>4, <2>1
<1>6. ASSUME NEW i \in 1..(c - n)
      PROVE  (t2 + i - 1) % BUFSIZE = (t + (n + i) - 1) % BUFSIZE
  <2>1. i \in 1..BUFSIZE /\ n + i \in 1..BUFSIZE
    BY <1>1, <1>2, <1>3
  <2>2. (t2 + i - 1) % BUFSIZE = (IF t2 + i - 1 < BUFSIZE THEN t2 + i - 1 ELSE t2 + i - 1 - BUFSIZE)
    BY <1>4, <2>1, Wraps
  <2>3. (t + (n + i) - 1) % BUFSIZE =
          (IF t + (n + i) - 1 < BUFSIZE THEN t + (n + i) - 1 ELSE t + (n + i) - 1 - BUFSIZE)
    BY <2>1, Wraps
  <2> QED BY <1>1, <1>3, <1>4, <2>1, <2>2, <2>3
<1> QED BY <1>4, <1>5, <1>6 DEF c, t2

(* A read() of n bytes: the ring holds what follows, the caller has them.  *)
LEMMA HoldsTake ==
  ASSUME NEW r \in RingType, NEW k \in Nat, NEW n \in Nat, NEW g \in Seq(Nat),
         RingHolds(r, k, n, g), NEW c \in 0..CIRC_CNT(r.head, r.tail, BUFSIZE)
  PROVE  LET r2 == [r EXCEPT !.tail = TailAfter(r, c)]
         IN /\ r2 \in RingType /\ Take(r, c) \in Seq(Nat)
            /\ RingHolds(r2, k + c, n, Take(r, c))
<1> DEFINE a == CIRC_CNT(r.head, r.tail, BUFSIZE)
           t2 == (r.tail + c) % BUFSIZE
           r2 == [r EXCEPT !.tail = TailAfter(r, c)]
           g2 == Take(r, c)
<1>1. r.head \in 0..(BUFSIZE - 1) /\ r.tail \in 0..(BUFSIZE - 1) /\ r.buf \in [0..(BUFSIZE - 1) -> Nat]
  BY DEF RingType
<1>2. /\ t2 \in 0..(BUFSIZE - 1)
      /\ CIRC_CNT(r.head, t2, BUFSIZE) = a - c
      /\ \A i \in 1..(a - c) : (t2 + i - 1) % BUFSIZE = (r.tail + (c + i) - 1) % BUFSIZE
  BY <1>1, TakeMoves, Zenon
<1>3. a \in Nat
  BY RingCnt
<1>4. /\ g2 \in Seq(Nat) /\ Len(g2) = c
      /\ \A i \in 1..c : g2[i] = r.buf[(r.tail + i - 1) % BUFSIZE]
  BY TakeReads, Zenon
<1>5. r2.head = r.head /\ r2.buf = r.buf /\ r2.tail = t2 /\ r2 \in RingType
  <2>1. r2 = [r EXCEPT !.tail = t2]
    BY Zenon DEF TailAfter
  <2> HIDE DEF t2
  <2>2. r2 \in RingType
    BY <1>1, <1>2, <2>1, RingParts
  <2> QED BY <2>1, <2>2 DEF RingType
<1>6. n = k + a /\ \A i \in 1..a : r.buf[(r.tail + i - 1) % BUFSIZE] = k + i
  BY DEF RingHolds
<1> HIDE DEF a, t2, r2, g2
<1>7. c \in 0..a
  BY DEF a
<1>8. n = (k + c) + (a - c) /\ Len(g2) <= k + c
  BY <1>3, <1>4, <1>6, <1>7
<1>9. \A i \in 1..(a - c) : r.buf[(t2 + i - 1) % BUFSIZE] = (k + c) + i
  <2> SUFFICES ASSUME NEW i \in 1..(a - c) PROVE r.buf[(t2 + i - 1) % BUFSIZE] = (k + c) + i
    OBVIOUS
  <2>1. c + i \in 1..a /\ k + (c + i) = (k + c) + i
    BY <1>3, <1>7
  <2>2. r.buf[(r.tail + (c + i) - 1) % BUFSIZE] = k + (c + i)
    BY <1>6, <2>1, Zenon
  <2> QED BY <1>2, <2>1, <2>2, Zenon
<1>10. \A i \in 1..c : g2[i] = (k + c) - c + i
  <2> SUFFICES ASSUME NEW i \in 1..c PROVE g2[i] = (k + c) - c + i
    OBVIOUS
  <2>1. i \in 1..a /\ k + i = (k + c) - c + i
    BY <1>3, <1>7
  <2> QED BY <1>4, <1>6, <2>1, Zenon
<1>11. RingHolds(r2, k + c, n, g2)
  <2>1. /\ n = (k + c) + CIRC_CNT(r2.head, r2.tail, BUFSIZE)
        /\ CIRC_CNT(r2.head, r2.tail, BUFSIZE) = a - c
    BY <1>2, <1>5, <1>8, Zenon
  <2>2. \A i \in 1..CIRC_CNT(r2.head, r2.tail, BUFSIZE) :
          r2.buf[(r2.tail + i - 1) % BUFSIZE] = (k + c) + i
    BY <1>5, <1>9, <2>1, Zenon
  <2>3. \A i \in 1..Len(g2) : g2[i] = (k + c) - Len(g2) + i
    BY <1>4, <1>10, Zenon
  <2> QED BY <1>8, <2>1, <2>2, <2>3, Zenon DEF RingHolds
<1> QED BY <1>4, <1>5, <1>11, Zenon DEF r2, g2

(* A write() of c bytes, which get the next numbers.                       *)
LEMMA HoldsPut ==
  ASSUME NEW r \in RingType, NEW k \in Nat, NEW n \in Nat, NEW g \in Seq(Nat),
         RingHolds(r, k, n, g),
         NEW v \in Seq(Nat), NEW c \in Nat, Len(v) = c, c <= CIRC_SPACE(r.head, r.tail, BUFSIZE),
         \A i \in 1..c : v[i] = n + i
  PROVE  LET r2 == Put(r, v)
         IN /\ r2 \in RingType /\ RingHolds(r2, k, n + c, g)
            /\ CIRC_CNT(r2.head, r2.tail, BUFSIZE) = CIRC_CNT(r.head, r.tail, BUFSIZE) + c
<1> DEFINE a == CIRC_CNT(r.head, r.tail, BUFSIZE)
           r2 == Put(r, v)
<1>1. v \in Seq(Nat) /\ Len(v) = c /\ \A i \in 1..c : v[i] = n + i
  OBVIOUS
<1>2. Len(v) <= CIRC_SPACE(r.head, r.tail, BUFSIZE)
  BY <1>1
<1>3. /\ r2 \in RingType /\ r2.tail = r.tail
      /\ CIRC_CNT(r2.head, r.tail, BUFSIZE) = a + Len(v)
      /\ \A i \in 1..a :
           r2.buf[(r.tail + i - 1) % BUFSIZE] = r.buf[(r.tail + i - 1) % BUFSIZE]
      /\ \A i \in 1..Len(v) : r2.buf[(r.tail + (a + i) - 1) % BUFSIZE] = v[i]
  BY <1>1, <1>2, PutStores, Zenon
<1>4. a \in Nat
  BY RingCnt
<1>5. /\ n = k + a /\ Len(g) <= k /\ \A i \in 1..Len(g) : g[i] = k - Len(g) + i
      /\ \A i \in 1..a : r.buf[(r.tail + i - 1) % BUFSIZE] = k + i
  BY DEF RingHolds
<1> HIDE DEF a, r2
<1>6. n + c = k + (a + c)
  BY <1>4, <1>5
<1>7. \A i \in 1..(a + c) : r2.buf[(r.tail + i - 1) % BUFSIZE] = k + i
  <2> SUFFICES ASSUME NEW i \in 1..(a + c) PROVE r2.buf[(r.tail + i - 1) % BUFSIZE] = k + i
    OBVIOUS
  <2>1. CASE i <= a
    <3>1. i \in 1..a
      BY <1>4, <2>1
    <3> QED BY <1>3, <1>5, <3>1, Zenon
  <2>2. CASE ~(i <= a)
    <3>1. PICK j \in 1..c : i = a + j
      <4>1. i - a \in 1..c /\ i = a + (i - a)
        BY <1>4, <2>2
      <4> QED BY <4>1
    <3>2. r2.buf[(r.tail + (a + j) - 1) % BUFSIZE] = n + j
      BY <1>1, <1>3, <3>1, Zenon
    <3>3. n + j = k + i
      BY <1>4, <1>5, <3>1
    <3> QED BY <3>1, <3>2, <3>3, Zenon
  <2> QED BY <2>1, <2>2
<1>8. CIRC_CNT(r2.head, r2.tail, BUFSIZE) = a + c
  BY <1>1, <1>3, Zenon
<1>9. RingHolds(r2, k, n + c, g)
  BY <1>3, <1>5, <1>6, <1>7, <1>8, Zenon DEF RingHolds
<1> QED BY <1>3, <1>8, <1>9, Zenon DEF a, r2

(* An empty ring: all that was written is out.                             *)
LEMMA HoldsEmpty ==
  ASSUME NEW r \in RingType, r.head = 0, r.tail = 0, NEW n \in Nat
  PROVE  RingHolds(r, n, n, <<>>) /\ CIRC_CNT(r.head, r.tail, BUFSIZE) = 0
<1>1. 0 \in 0..(BUFSIZE - 1)
  BY BufSize
<1>2. CIRC_CNT(0, 0, BUFSIZE) = IF 0 >= 0 THEN 0 - 0 ELSE 0 - 0 + BUFSIZE
  BY <1>1, RingMacros
<1>3. CIRC_CNT(r.head, r.tail, BUFSIZE) = 0
  BY <1>2
<1>4. n = n + 0 /\ Len(<<>>) = 0 /\ 1..0 = {} /\ 0 <= n
  OBVIOUS
<1> QED BY <1>3, <1>4 DEF RingHolds

(* What RingIsFifo says of a ring.                                         *)
LEMMA HoldsFifo ==
  ASSUME NEW r \in RingType, NEW k \in Nat, NEW n \in Nat, NEW g \in Seq(Nat),
         RingHolds(r, k, n, g)
  PROVE  LET a == CIRC_CNT(r.head, r.tail, BUFSIZE)
         IN /\ n = k + a
            /\ Take(r, a) = [i \in 1..a |-> k + i]
            /\ g = [i \in 1..Len(g) |-> k - Len(g) + i]
<1> DEFINE a == CIRC_CNT(r.head, r.tail, BUFSIZE)
<1>1. a \in Nat
  BY RingCnt
<1>2. a \in 0..a
  <2> HIDE DEF a
  <2> QED BY <1>1
<1>3. /\ Take(r, a) \in Seq(Nat) /\ Len(Take(r, a)) = a
      /\ \A i \in 1..a : Take(r, a)[i] = r.buf[(r.tail + i - 1) % BUFSIZE]
  BY <1>2, TakeReads, Zenon
<1>4. /\ n = k + a /\ \A i \in 1..Len(g) : g[i] = k - Len(g) + i
      /\ \A i \in 1..a : r.buf[(r.tail + i - 1) % BUFSIZE] = k + i
  BY DEF RingHolds
<1> HIDE DEF a
<1>5. Take(r, a) = [i \in 1..a |-> k + i]
  <2>1. Take(r, a) = [i \in 1..Len(Take(r, a)) |-> Take(r, a)[i]]
    BY <1>3
  <2>2. \A i \in 1..a : Take(r, a)[i] = k + i
    BY <1>3, <1>4, Zenon
  <2> QED BY <1>3, <2>1, <2>2
<1>6. g = [i \in 1..Len(g) |-> k - Len(g) + i]
  <2>1. g = [i \in 1..Len(g) |-> g[i]]
    OBVIOUS
  <2> QED BY <1>4, <2>1
<1> QED BY <1>4, <1>5, <1>6 DEF a

-----------------------------------------------------------------------------
(* The rings under each call.                                              *)

(* How many bytes a ring holds is a number smaller than its size.          *)
LEMMA CntType ==
  ASSUME RingsKept, NEW d \in Dirs
  PROVE  /\ ring[d] \in RingType /\ in[d] \in Nat /\ out[d] \in Nat /\ got[d] \in Seq(Nat)
         /\ RingHolds(ring[d], out[d], in[d], got[d])
         /\ Cnt(d) \in Nat /\ Space(d) = BUFSIZE - 1 - Cnt(d)
<1>1. /\ ring[d] \in RingType /\ in[d] \in Nat /\ out[d] \in Nat /\ got[d] \in Seq(Nat)
      /\ RingHolds(ring[d], out[d], in[d], got[d])
  BY DEF RingsKept
<1>2. /\ BUFSIZE \in Nat \ {0}
      /\ ring[d].head \in 0..(BUFSIZE - 1) /\ ring[d].tail \in 0..(BUFSIZE - 1)
  BY <1>1, BufSize DEF RingType
<1>3. Cnt(d) \in 0..(BUFSIZE - 1) /\ Space(d) = BUFSIZE - 1 - Cnt(d)
  BY <1>2, RingMacros DEF Cnt, Space
<1> QED BY <1>1, <1>2, <1>3

(* A call works on one of the two rings.                                   *)
LEMMA DirType == \A t : Dir(t) \in Dirs
BY DEF Dir, Dirs

(* Steps that leave the rings alone.                                       *)
LEMMA DataUnchanged ==
  ASSUME RingsKept, UNCHANGED <<ring, in, out, got>>
  PROVE  RingsKept' /\ \A e \in Dirs : Cnt(e)' = Cnt(e) /\ Space(e)' = Space(e)
BY DEF RingsKept, Cnt, Space

(* A change of one ring only.                                              *)
LEMMA OneRing ==
  ASSUME RingsKept, NEW d \in Dirs, NEW r \in RingType, NEW k \in Nat, NEW n \in Nat,
         NEW g \in Seq(Nat), RingHolds(r, k, n, g),
         ring' = [ring EXCEPT ![d] = r], out' = [out EXCEPT ![d] = k],
         in' = [in EXCEPT ![d] = n], got' = [got EXCEPT ![d] = g]
  PROVE  /\ RingsKept'
         /\ \A e \in Dirs : e # d => Cnt(e)' = Cnt(e)
         /\ Cnt(d)' = CIRC_CNT(r.head, r.tail, BUFSIZE)
<1>1. /\ ring \in [Dirs -> RingType] /\ in \in [Dirs -> Nat] /\ out \in [Dirs -> Nat]
      /\ got \in [Dirs -> Seq(Nat)]
      /\ \A e \in Dirs : RingHolds(ring[e], out[e], in[e], got[e])
  BY DEF RingsKept
<1>2. /\ ring' \in [Dirs -> RingType] /\ in' \in [Dirs -> Nat] /\ out' \in [Dirs -> Nat]
      /\ got' \in [Dirs -> Seq(Nat)]
  BY <1>1
<1>3. ring'[d] = r /\ out'[d] = k /\ in'[d] = n /\ got'[d] = g
  BY <1>1
<1>4. \A e \in Dirs : e # d => ring'[e] = ring[e] /\ out'[e] = out[e] /\ in'[e] = in[e] /\ got'[e] = got[e]
  BY <1>1
<1>5. \A e \in Dirs : RingHolds(ring'[e], out'[e], in'[e], got'[e])
  <2> SUFFICES ASSUME NEW e \in Dirs PROVE RingHolds(ring'[e], out'[e], in'[e], got'[e])
    OBVIOUS
  <2>1. CASE e = d
    BY <1>3, <2>1, Zenon
  <2>2. CASE e # d
    BY <1>1, <1>4, <2>2, Zenon
  <2> QED BY <2>1, <2>2
<1>6. RingsKept'
  <2>1. \A e \in Dirs : RingHolds(ring[e], out[e], in[e], got[e])'
    BY <1>5, Zenon DEF RingHolds
  <2> QED BY <1>2, <2>1 DEF RingsKept
<1> QED BY <1>3, <1>4, <1>6, Zenon DEF Cnt

(* read(): the bytes that leave the ring are the ones it returns.          *)
LEMMA ReadData ==
  ASSUME LoopType, RingsKept, NEW t \in Threads, Read(t)
  PROVE  RingsKept' /\ \A e \in Dirs : Cnt(e)' <= Cnt(e)
<1>0. \A e \in Dirs : Cnt(e) \in Nat
  BY CntType
<1>1. CASE UNCHANGED <<ring, in, out, got>>
  <2>1. RingsKept' /\ \A e \in Dirs : Cnt(e)' = Cnt(e)
    BY <1>1, DataUnchanged
  <2> QED BY <1>0, <2>1
<1>2. CASE ~UNCHANGED <<ring, in, out, got>>
  <2>0. PICK d \in Dirs : d = Dir(t)
    BY DirType
  <2>1. PICK n :
          /\ n = Least(count[t], Cnt(d))
          /\ ring' = [ring EXCEPT ![d].tail = TailAfter(ring[d], n)]
          /\ out' = [out EXCEPT ![d] = @ + n]
          /\ got' = [got EXCEPT ![d] = Take(ring[d], n)]
          /\ in' = in
    BY <1>2, <2>0 DEF Read, Fails, Blocks
  <2>2. count[t] \in Nat
    BY DEF LoopType
  <2>3. /\ ring[d] \in RingType /\ in[d] \in Nat /\ out[d] \in Nat /\ got[d] \in Seq(Nat)
        /\ RingHolds(ring[d], out[d], in[d], got[d]) /\ Cnt(d) \in Nat
        /\ Cnt(d) = CIRC_CNT(ring[d].head, ring[d].tail, BUFSIZE)
    BY CntType DEF Cnt
  <2>4. n \in 0..Cnt(d)
    BY <2>1, <2>2, <2>3 DEF Least
  <2>5. PICK r, k, g : /\ r = [ring[d] EXCEPT !.tail = TailAfter(ring[d], n)]
                       /\ k = out[d] + n /\ g = Take(ring[d], n)
    OBVIOUS
  <2>6. PICK c : c = in[d]
    OBVIOUS
  <2>7. r \in RingType /\ k \in Nat /\ c \in Nat /\ g \in Seq(Nat) /\ RingHolds(r, k, c, g)
    <3>1. n \in 0..CIRC_CNT(ring[d].head, ring[d].tail, BUFSIZE)
      BY <2>3, <2>4
    <3>2. /\ r \in RingType /\ g \in Seq(Nat) /\ RingHolds(r, out[d] + n, in[d], g)
      BY <2>3, <2>5, <3>1, HoldsTake, Zenon
    <3>3. k \in Nat
      BY <2>3, <2>4, <2>5
    <3> QED BY <2>3, <2>5, <2>6, <3>2, <3>3, Zenon
  <2>8. /\ ring' = [ring EXCEPT ![d] = r] /\ out' = [out EXCEPT ![d] = k]
        /\ in' = [in EXCEPT ![d] = c] /\ got' = [got EXCEPT ![d] = g]
    <3>1. in = [in EXCEPT ![d] = in[d]]
      BY DEF RingsKept
    <3> QED BY <2>1, <2>5, <2>6, <3>1
  <2>9. /\ RingsKept' /\ \A e \in Dirs : e # d => Cnt(e)' = Cnt(e)
        /\ Cnt(d)' = CIRC_CNT(r.head, r.tail, BUFSIZE)
    BY <2>7, <2>8, OneRing, Zenon
  <2>10. Cnt(d)' <= Cnt(d)
    <3>1. c = k + Cnt(d)' /\ c = out[d] + Cnt(d)
      BY <2>3, <2>6, <2>7, <2>9, Zenon DEF RingHolds
    <3>2. Cnt(d)' \in Nat
      BY <2>7, <2>9, RingCnt
    <3> QED BY <2>3, <2>4, <2>5, <3>1, <3>2
  <2> QED BY <1>0, <2>9, <2>10
<1> QED BY <1>1, <1>2

(* write(): whoever waits for the ring is woken if it holds more.          *)
LEMMA WriteData ==
  ASSUME LoopType, RingsKept, NEW t \in Threads, Write(t)
  PROVE  /\ RingsKept' /\ asleep' \in {asleep, StillAsleep(Dir(t))}
         /\ \A e \in Dirs : Cnt(e)' = Cnt(e) \/ (e = Dir(t) /\ asleep' = StillAsleep(Dir(t)))
<1>0. asleep' \in {asleep, StillAsleep(Dir(t))}
  BY DEF Write, Blocks
<1>1. CASE UNCHANGED <<ring, in, out, got>>
  BY <1>0, <1>1, DataUnchanged
<1>2. CASE ~UNCHANGED <<ring, in, out, got>>
  <2>0. PICK d \in Dirs : d = Dir(t)
    BY DirType
  <2>1. PICK n :
          /\ d = Dir(t) /\ n = count[t] /\ Space(d) >= n
          /\ ring' = [ring EXCEPT ![d] = Put(@, [i \in 1..n |-> in[d] + i])]
          /\ in' = [in EXCEPT ![d] = @ + n]
          /\ n > 0 => asleep' = StillAsleep(d)
          /\ out' = out /\ got' = got
    BY <1>2, <2>0 DEF Write, Blocks
  <2>2. n \in Nat
    BY <2>1 DEF LoopType
  <2>3. /\ ring[d] \in RingType /\ in[d] \in Nat /\ out[d] \in Nat /\ got[d] \in Seq(Nat)
        /\ RingHolds(ring[d], out[d], in[d], got[d]) /\ Cnt(d) \in Nat
        /\ Cnt(d) = CIRC_CNT(ring[d].head, ring[d].tail, BUFSIZE)
        /\ Space(d) = CIRC_SPACE(ring[d].head, ring[d].tail, BUFSIZE)
        /\ Space(d) = BUFSIZE - 1 - Cnt(d)
    BY CntType DEF Cnt, Space
  <2>4. PICK r, k, c, g : /\ r = Put(ring[d], [i \in 1..n |-> in[d] + i])
                          /\ k = out[d] /\ c = in[d] + n /\ g = got[d]
    OBVIOUS
  <2>5. n <= CIRC_SPACE(ring[d].head, ring[d].tail, BUFSIZE)
    BY <2>1, <2>2, <2>3, BufSize
  <2>6. /\ r \in RingType /\ RingHolds(r, out[d], in[d] + n, got[d])
        /\ CIRC_CNT(r.head, r.tail, BUFSIZE) = Cnt(d) + n
    <3>0. PICK v : v = [i \in 1..n |-> in[d] + i]
      OBVIOUS
    <3>a. v \in Seq(Nat) /\ Len(v) = n /\ \A i \in 1..n : v[i] = in[d] + i
      BY <2>2, <2>3, <3>0, SeqDef
    <3>1. PICK r0, n0, g0 : r0 = ring[d] /\ n0 = in[d] /\ g0 = got[d]
      OBVIOUS
    <3>2. /\ r0 \in RingType /\ k \in Nat /\ n0 \in Nat /\ g0 \in Seq(Nat) /\ RingHolds(r0, k, n0, g0)
          /\ \A i \in 1..n : v[i] = n0 + i
          /\ n <= CIRC_SPACE(r0.head, r0.tail, BUFSIZE)
      BY <2>3, <2>4, <2>5, <3>a, <3>1, Zenon
    <3>3. r = Put(r0, v)
      BY <2>4, <3>0, <3>1
    <3>4. LET r2 == Put(r0, v)
          IN /\ r2 \in RingType /\ RingHolds(r2, k, n0 + n, g0)
             /\ CIRC_CNT(r2.head, r2.tail, BUFSIZE) = CIRC_CNT(r0.head, r0.tail, BUFSIZE) + n
      BY <2>2, <3>a, <3>2, HoldsPut
    <3> QED BY <2>3, <2>4, <3>1, <3>3, <3>4, Zenon
  <2>7. r \in RingType /\ k \in Nat /\ c \in Nat /\ g \in Seq(Nat) /\ RingHolds(r, k, c, g)
    <3>1. c \in Nat
      BY <2>2, <2>3, <2>4
    <3> QED BY <2>3, <2>4, <2>6, <3>1, Zenon
  <2>8. /\ ring' = [ring EXCEPT ![d] = r] /\ out' = [out EXCEPT ![d] = k]
        /\ in' = [in EXCEPT ![d] = c] /\ got' = [got EXCEPT ![d] = g]
    <3>1. out = [out EXCEPT ![d] = out[d]] /\ got = [got EXCEPT ![d] = got[d]]
      BY DEF RingsKept
    <3> QED BY <2>1, <2>4, <3>1
  <2>9. /\ RingsKept' /\ \A e \in Dirs : e # d => Cnt(e)' = Cnt(e)
        /\ Cnt(d)' = CIRC_CNT(r.head, r.tail, BUFSIZE)
    BY <2>7, <2>8, OneRing, Zenon
  <2>10. Cnt(d)' = Cnt(d) \/ asleep' = StillAsleep(d)
    <3>1. CASE n > 0
      BY <2>1, <3>1
    <3>2. CASE n = 0
      <4>1. Cnt(d) + n = Cnt(d)
        BY <2>3, <3>2
      <4> QED BY <2>6, <2>9, <4>1
    <3> QED BY <2>2, <3>1, <3>2
  <2> QED BY <1>0, <2>1, <2>9, <2>10
<1> QED BY <1>1, <1>2

(* open(): the slave starts with an empty ring.                            *)
LEMMA OpenData ==
  ASSUME RingsKept, NEW s \in Slaves, SlaveOpened(s)
  PROVE  RingsKept' /\ \A e \in Dirs : Cnt(e)' = Cnt(e) \/ (e = "m2s" /\ Cnt(e)' = 0)
<1>1. /\ ring' = [ring EXCEPT !["m2s"].head = 0, !["m2s"].tail = 0]
      /\ out' = [out EXCEPT !["m2s"] = in["m2s"]]
      /\ got' = [got EXCEPT !["m2s"] = <<>>]
      /\ in' = in
  BY DEF SlaveOpened
<1>2. PICK d \in Dirs : d = "m2s"
  BY DEF Dirs
<1>3. ring[d] \in RingType /\ in[d] \in Nat /\ Cnt(d) \in Nat
  BY CntType
<1>4. PICK r, c, g : /\ r = [ring[d] EXCEPT !.head = 0, !.tail = 0]
                     /\ c = in[d] /\ g = <<>>
  OBVIOUS
<1>5. /\ r \in RingType /\ RingHolds(r, in[d], in[d], <<>>)
      /\ CIRC_CNT(r.head, r.tail, BUFSIZE) = 0
  <2>1. 0 \in 0..(BUFSIZE - 1)
    BY BufSize
  <2>2. r \in RingType /\ r.head = 0 /\ r.tail = 0
    BY <1>3, <1>4, <2>1 DEF RingType
  <2> QED BY <1>3, <2>2, HoldsEmpty
<1>6. r \in RingType /\ c \in Nat /\ g \in Seq(Nat) /\ RingHolds(r, c, c, g)
  <2>1. g \in Seq(Nat)
    BY <1>4
  <2> QED BY <1>3, <1>4, <1>5, <2>1, Zenon
<1>7. /\ ring' = [ring EXCEPT ![d] = r] /\ out' = [out EXCEPT ![d] = c]
      /\ in' = [in EXCEPT ![d] = c] /\ got' = [got EXCEPT ![d] = g]
  <2>1. in = [in EXCEPT ![d] = in[d]]
    BY DEF RingsKept
  <2>2. ring' = [ring EXCEPT ![d] = r]
    BY <1>1, <1>2, <1>4 DEF RingsKept
  <2> QED BY <1>1, <1>2, <1>4, <2>1, <2>2
<1>8. /\ RingsKept' /\ \A e \in Dirs : e # d => Cnt(e)' = Cnt(e)
      /\ Cnt(d)' = CIRC_CNT(r.head, r.tail, BUFSIZE)
  BY <1>6, <1>7, OneRing, Zenon
<1> QED BY <1>2, <1>5, <1>8

(* A channel begins with two empty rings.                                  *)
LEMMA EmptyRings ==
  ASSUME NEW f, f = [d \in Dirs |-> EmptyRing], NEW z, z = [d \in Dirs |-> 0],
         NEW g, g = [d \in Dirs |-> <<>>]
  PROVE  /\ f \in [Dirs -> RingType] /\ z \in [Dirs -> Nat] /\ g \in [Dirs -> Seq(Nat)]
         /\ \A d \in Dirs : RingHolds(f[d], z[d], z[d], g[d])
<1>1. 0 \in 0..(BUFSIZE - 1) /\ 0 \in Nat /\ <<>> \in Seq(Nat)
  BY BufSize
<1>2. EmptyRing \in RingType
  BY <1>1 DEF EmptyRing, RingType
<1>3. EmptyRing.head = 0 /\ EmptyRing.tail = 0
  BY DEF EmptyRing
<1>4. RingHolds(EmptyRing, 0, 0, <<>>)
  BY <1>1, <1>2, <1>3, HoldsEmpty
<1> HIDE DEF EmptyRing, RingType
<1>5. f \in [Dirs -> RingType] /\ z \in [Dirs -> Nat] /\ g \in [Dirs -> Seq(Nat)]
  BY <1>1, <1>2
<1>6. \A d \in Dirs : f[d] = EmptyRing /\ z[d] = 0 /\ g[d] = <<>>
  OBVIOUS
<1> QED BY <1>4, <1>5, <1>6, Zenon

(* create_slave_dev() clears the rings.                                    *)
LEMMA CreateData ==
  ASSUME CreateBegin
  PROVE  RingsKept'
<1>1. /\ ring' = [d \in Dirs |-> EmptyRing] /\ in' = [d \in Dirs |-> 0]
      /\ out' = [d \in Dirs |-> 0] /\ got' = [d \in Dirs |-> <<>>]
  BY DEF CreateBegin
<1>2. PICK f, z, g : f = [d \in Dirs |-> EmptyRing] /\ z = [d \in Dirs |-> 0] /\ g = [d \in Dirs |-> <<>>]
  OBVIOUS
<1>3. /\ f \in [Dirs -> RingType] /\ z \in [Dirs -> Nat] /\ g \in [Dirs -> Seq(Nat)]
      /\ \A d \in Dirs : RingHolds(f[d], z[d], z[d], g[d])
  BY <1>2, EmptyRings, Zenon
<1>4. ring' = f /\ in' = z /\ out' = z /\ got' = g
  BY <1>1, <1>2
<1>5. \A d \in Dirs : RingHolds(ring[d], out[d], in[d], got[d])'
  BY <1>3, <1>4 DEF RingHolds
<1> QED BY <1>3, <1>4, <1>5 DEF RingsKept

-----------------------------------------------------------------------------
(* The calls.  Where the threads are after one of them has returned ...    *)
LEMMA Returns ==
  ASSUME LoopType, NEW t \in Threads, Return(t)
  PROVE  /\ pc'[t] = "idle" /\ op'[t] = "none"
         /\ \A u \in Threads : u # t => pc'[u] = pc[u] /\ op'[u] = op[u]
         /\ op' \in [Threads -> {"none", "read", "write", "open", "close", "pollin", "pollout",
                                 "events"}]
         /\ pc' \in [Threads -> {"idle", "down", "inside", "bits", "wait"} \cup Collecting]
         /\ count' \in [Threads -> Nat]
BY DEF LoopType, Return

(* ... or gone on.                                                         *)
LEMMA Goes ==
  ASSUME LoopType, NEW t \in Threads, NEW l \in {"down", "inside", "bits", "wait"} \cup Collecting,
         Goto(t, l)
  PROVE  /\ pc'[t] = l /\ UNCHANGED op /\ UNCHANGED count
         /\ \A u \in Threads : u # t => pc'[u] = pc[u]
         /\ pc' \in [Threads -> {"idle", "down", "inside", "bits", "wait"} \cup Collecting]
BY DEF LoopType, Goto

(* A thread that waits in poll() or read() for input has nothing to do.    *)
Quiet(u) ==
  /\ op[u] = "read" => ~WaitCondition(u)
  /\ op[u] = "pollin" => ~PollReady(u)

(* The steps that keep every sleeping reader quiet: a ring that is filled, *)
(* a peer that comes or goes and an event each wake their queue.           *)
LEMMA SleepersQuiet ==
  ASSUME LoopType, RingsKept, asleep' \subseteq Threads,
         \A u \in asleep' : op'[u] = op[u] /\ (u \in Slaves \/ ~BetweenBits' => Quiet(u)),
         \A e \in Dirs : Cnt(e)' \in Nat,
         \/ \A u \in asleep' \cap Slaves : Dir(u) # "m2s"
         \/ (created => created') /\ (Cnt("m2s") = 0 => Cnt("m2s")' = 0),
         \/ BetweenBits'
         \/ \A u \in asleep' \cap Masters : Dir(u) # "s2m"
         \/ /\ slave_open_count' = slave_open_count
            /\ pending_events' \cap {Opened, Closed} \subseteq pending_events
            /\ Cnt("s2m") = 0 => Cnt("s2m")' = 0
  PROVE  ReadersWoken'
<1>0. /\ slave_open_count \in Nat /\ Cnt("m2s") \in Nat /\ Cnt("s2m") \in Nat
      /\ Cnt("m2s")' \in Nat /\ Cnt("s2m")' \in Nat
  <2>1. "m2s" \in Dirs /\ "s2m" \in Dirs
    BY DEF Dirs
  <2> QED BY <2>1, CntType DEF LoopType
<1> SUFFICES ASSUME NEW u \in asleep', u \in Slaves \/ ~BetweenBits'
             PROVE  /\ op'[u] = "read" => ~WaitCondition(u)'
                    /\ op'[u] = "pollin" => ~PollReady(u)'
  BY DEF ReadersWoken
<1>1. op'[u] = op[u] /\ Quiet(u) /\ u \in Threads
  OBVIOUS
<1>2. SUFFICES ASSUME op[u] \in {"read", "pollin"}
      PROVE  /\ op'[u] = "read" => ~WaitCondition(u)'
             /\ op'[u] = "pollin" => ~PollReady(u)'
  BY <1>1
<1>3. CASE u \in Slaves
  <2>1. u \notin Masters
    BY <1>3, LoopAssumption
  <2>2. Dir(u) = "m2s" /\ Dir(u)' = "m2s"
    BY <1>1, <1>2, <2>1 DEF Dir
  <2>3. created /\ ~(Cnt("m2s") > 0)
    BY <1>1, <1>2, <1>3, <2>2 DEF Quiet, WaitCondition, PollReady, PeerGone
  <2>4. created' /\ ~(Cnt("m2s")' > 0)
    BY <1>0, <1>3, <2>2, <2>3
  <2> QED BY <1>1, <1>2, <1>3, <2>2, <2>4 DEF WaitCondition, PollReady, PeerGone
<1>4. CASE u \notin Slaves
  <2>1. u \in Masters
    BY <1>1, <1>4 DEF Threads
  <2>2. Dir(u) = "s2m" /\ Dir(u)' = "s2m"
    BY <1>1, <1>2, <2>1 DEF Dir
  <2>3. /\ op[u] = "read" => slave_open_count # 0 /\ ~(Cnt("s2m") > 0)
        /\ op[u] = "pollin" => /\ ~(slave_open_count > 0 /\ Cnt("s2m") > 0)
                               /\ pending_events \cap {Opened, Closed} = {}
    BY <1>1, <1>4, <2>2 DEF Quiet, WaitCondition, PollReady, PeerGone
  <2>4. /\ op[u] = "read" => slave_open_count' # 0 /\ ~(Cnt("s2m")' > 0)
        /\ op[u] = "pollin" => /\ ~(slave_open_count' > 0 /\ Cnt("s2m")' > 0)
                               /\ pending_events' \cap {Opened, Closed} = {}
    BY <1>0, <1>2, <1>4, <2>1, <2>2, <2>3
  <2> QED BY <1>1, <1>4, <2>2, <2>4 DEF WaitCondition, PollReady, PeerGone
<1> QED BY <1>3, <1>4

(* A call that goes on, waits or returns, and leaves the channel alone.    *)
LEMMA ThreadMoves ==
  ASSUME LoopInv, NEW t \in Threads, UNCHANGED life_vars, UNCHANGED event_vars,
         pc[t] \in {"down", "inside", "wait"},
         \/ Return(t)
         \/ \E l \in {"down", "inside", "wait"} :
              Goto(t, l) /\ (l = "wait" => op[t] \in {"read", "write", "pollin", "pollout"}),
         asleep' \subseteq asleep \cup {t}, t \in asleep' => pc'[t] = "wait",
         \/ pc[t] = "inside" /\ pc'[t] # "inside" /\ sem' = sem + 1
         \/ pc[t] # "inside" /\ pc'[t] = "inside" /\ sem > 0 /\ sem' = sem - 1
         \/ pc[t] # "inside" /\ pc'[t] # "inside" /\ sem' = sem
  PROVE  /\ LoopType' /\ CallsKnown'
         /\ Orderly => ChannelKnown'
         /\ Orderly /\ ~Faults => EventsKnown'
         /\ \A u \in Threads : u # t => op'[u] = op[u]
         /\ BetweenBits' <=> BetweenBits
<1>0. LoopType /\ CallsKnown /\ (Orderly => ChannelKnown) /\ (Orderly /\ ~Faults => EventsKnown)
  BY DEF LoopInv
<1>1. UNCHANGED <<created, slave_open_count, pending_events, sem_ready, creating, node, conn,
                  temp, told, misled>>
  BY DEF life_vars, event_vars
<1>2. /\ \A u \in Threads : u # t => pc'[u] = pc[u] /\ op'[u] = op[u]
      /\ op' \in [Threads -> {"none", "read", "write", "open", "close", "pollin", "pollout",
                              "events"}]
      /\ pc' \in [Threads -> {"idle", "down", "inside", "bits", "wait"} \cup Collecting]
      /\ count' \in [Threads -> Nat]
      /\ \/ pc'[t] = "idle" /\ op'[t] = "none"
         \/ /\ pc'[t] \in {"down", "inside", "wait"} /\ op'[t] = op[t]
            /\ pc'[t] = "wait" => op[t] \in {"read", "write", "pollin", "pollout"}
  <2>1. CASE Return(t)
    BY <1>0, <2>1, Returns
  <2>2. CASE ~Return(t)
    <3>1. PICK l \in {"down", "inside", "wait"} :
            Goto(t, l) /\ (l = "wait" => op[t] \in {"read", "write", "pollin", "pollout"})
      BY <2>2
    <3>2. l \in {"down", "inside", "bits", "wait"} \cup Collecting
      OBVIOUS
    <3>3. /\ pc'[t] = l /\ op' = op /\ count' = count
          /\ \A u \in Threads : u # t => pc'[u] = pc[u]
          /\ pc' \in [Threads -> {"idle", "down", "inside", "bits", "wait"} \cup Collecting]
      BY <1>0, <3>1, <3>2, Goes
    <3> QED BY <1>0, <3>1, <3>3 DEF LoopType
  <2> QED BY <2>1, <2>2
<1>3. op[t] # "events" /\ op[t] # "none"
  BY <1>0 DEF CallsKnown, Collecting
<1>4. LoopType'
  <2>1. sem' \in Nat
    BY <1>0 DEF LoopType
  <2>2. asleep' \subseteq Threads
    BY <1>0 DEF LoopType
  <2> QED BY <1>0, <1>1, <1>2, <2>1, <2>2 DEF LoopType
<1>5. Masters \subseteq Threads /\ Slaves \subseteq Threads /\ MasterConn' = MasterConn
  BY <1>1 DEF Threads, MasterConn
<1>9. BetweenBits' <=> BetweenBits
  BY <1>2, <1>5 DEF BetweenBits
<1>6. CallsKnown'
  <2>1. \A u \in Threads : /\ pc'[u] = "idle" <=> op'[u] = "none"
                           /\ pc'[u] \in Collecting <=> op'[u] = "events"
                           /\ pc'[u] = "wait" => op'[u] \in {"read", "write", "pollin", "pollout"}
                           /\ pc'[u] = "bits" => u \in Slaves /\ op'[u] \in {"open", "close"}
    BY <1>0, <1>2, <1>3 DEF CallsKnown, Collecting
  <2>2. \A u \in asleep' : pc'[u] = "wait"
    BY <1>0, <1>2 DEF CallsKnown, LoopType
  <2>3. \A u \in Threads : op'[u] = op[u] \/ op'[u] = "none"
    BY <1>2
  <2>4. \A s \in Slaves : /\ op'[s] # "events"
                          /\ op'[s] = "open" => (s \in conn <=> pc'[s] = "bits")
                          /\ op'[s] = "close" => (s \in conn <=> pc'[s] # "bits")
                          /\ op'[s] \notin {"none", "open", "close"} => s \in conn
    BY <1>0, <1>2, <1>5, <2>3 DEF CallsKnown
  <2>5. \A m \in Masters : op'[m] # "open" /\ (op'[m] # "none" => m \in conn)
    BY <1>0, <1>5, <2>3 DEF CallsKnown
  <2>6. \A m, u \in Masters : /\ op'[m] = "close" /\ u # m => op'[u] = "none"
                              /\ op'[m] = "events" /\ op'[u] = "events" => u = m
    BY <1>0, <1>5, <2>3 DEF CallsKnown
  <2> QED BY <1>0, <1>1, <1>5, <2>1, <2>2, <2>4, <2>5, <2>6 DEF CallsKnown
<1>7. ASSUME Orderly PROVE ChannelKnown'
  <2>1. ChannelKnown
    BY <1>0, <1>7
  <2>2. \A u \in Threads : op'[u] # "none" => sem_ready
    BY <1>2, <1>3, <2>1 DEF ChannelKnown
  <2>3. sem' \in {0, 1} /\ (sem' = 1 => sem_ready)
    BY <1>0, <1>3, <2>1 DEF ChannelKnown, LoopType
  <2>4. \A u \in Threads : pc'[u] \in {"inside", "bits"} =>
          sem' = 0 /\ \A w \in Threads : pc'[w] \in {"inside", "bits"} => w = u
    BY <1>2, <2>1 DEF ChannelKnown
  <2>5. \A s \in Slaves : pc'[s] = "bits" /\ op'[s] = "close" => pc[s] = "bits" /\ op[s] = "close"
    BY <1>2, <1>5
  <2> QED BY <1>1, <2>1, <2>2, <2>3, <2>4, <2>5 DEF ChannelKnown
<1>8. ASSUME Orderly, ~Faults PROVE EventsKnown'
  <2>1. EventsKnown
    BY <1>0, <1>8
  <2>2. \A m \in Masters : /\ op'[m] = "events" <=> op[m] = "events"
                           /\ op[m] = "events" => pc'[m] = pc[m]
                           /\ pc'[m] = "report" <=> pc[m] = "report"
    BY <1>2, <1>3, <1>5
  <2> QED BY <1>1, <1>9, <2>1, <2>2 DEF EventsKnown
<1> QED BY <1>2, <1>4, <1>6, <1>7, <1>8, <1>9

(* A call that leaves the channel alone keeps everything, if the bytes it  *)
(* puts into a ring wake those who wait for them.                          *)
LEMMA ThreadKeeps ==
  ASSUME LoopInv, NEW t \in Threads, UNCHANGED life_vars, UNCHANGED event_vars,
         pc[t] \in {"down", "inside", "wait"},
         \/ Return(t)
         \/ \E l \in {"down", "inside", "wait"} :
              Goto(t, l) /\ (l = "wait" => op[t] \in {"read", "write", "pollin", "pollout"}),
         asleep' \subseteq asleep \cup {t}, t \in asleep' => pc'[t] = "wait",
         \/ pc[t] = "inside" /\ pc'[t] # "inside" /\ sem' = sem + 1
         \/ pc[t] # "inside" /\ pc'[t] = "inside" /\ sem > 0 /\ sem' = sem - 1
         \/ pc[t] # "inside" /\ pc'[t] # "inside" /\ sem' = sem,
         RingsKept', \A e \in Dirs : Cnt(e)' \in Nat,
         t \in asleep' => op'[t] = op[t] /\ Quiet(t),
         \A e \in Dirs : (Cnt(e) = 0 => Cnt(e)' = 0) \/ asleep' = StillAsleep(e)
  PROVE  LoopInv'
<1>1. /\ LoopType' /\ CallsKnown'
      /\ Orderly => ChannelKnown'
      /\ Orderly /\ ~Faults => EventsKnown'
      /\ \A u \in Threads : u # t => op'[u] = op[u]
      /\ BetweenBits' <=> BetweenBits
  BY ThreadMoves
<1>2. ASSUME ~Faults PROVE ReadersWoken'
  <2>1. LoopType /\ RingsKept /\ ReadersWoken
    BY <1>2 DEF LoopInv
  <2>2. asleep' \subseteq Threads
    BY <2>1 DEF LoopType
  <2>3. \A u \in asleep' : op'[u] = op[u] /\ (u \in Slaves \/ ~BetweenBits' => Quiet(u))
    BY <1>1, <2>1, <2>2 DEF ReadersWoken, Quiet
  <2>4. "m2s" \in Dirs /\ "s2m" \in Dirs
    BY DEF Dirs
  <2>5. UNCHANGED <<created, slave_open_count, pending_events>>
    BY DEF life_vars
  <2>6. \/ \A u \in asleep' \cap Slaves : Dir(u) # "m2s"
        \/ (created => created') /\ (Cnt("m2s") = 0 => Cnt("m2s")' = 0)
    BY <2>4, <2>5 DEF StillAsleep
  <2>7. \/ \A u \in asleep' \cap Masters : Dir(u) # "s2m"
        \/ /\ slave_open_count' = slave_open_count
           /\ pending_events' \cap {Opened, Closed} \subseteq pending_events
           /\ Cnt("s2m") = 0 => Cnt("s2m")' = 0
    BY <2>4, <2>5 DEF StillAsleep
  <2> QED BY <2>1, <2>2, <2>3, <2>6, <2>7, SleepersQuiet
<1> QED BY <1>1, <1>2 DEF LoopInv

(* The calls that go on, sleep or are interrupted.                         *)
LEMMA StepWait ==
  ASSUME LoopInv, NEW t \in Threads, Down(t) \/ Wait(t) \/ Interrupt(t) \/ Poll(t)
  PROVE  LoopInv'
<1>0. /\ LoopType /\ CallsKnown /\ RingsKept /\ pc \in [Threads -> {"idle", "down", "inside", "bits", "wait"} \cup Collecting]
      /\ asleep \subseteq Threads /\ \A u \in asleep : pc[u] = "wait"
  BY DEF LoopInv, LoopType, CallsKnown
<1>1. UNCHANGED <<ring, in, out, got>> /\ UNCHANGED life_vars /\ UNCHANGED event_vars
  BY DEF Down, Wait, Interrupt, Poll, data_vars
<1>2. RingsKept' /\ \A e \in Dirs : Cnt(e)' \in Nat /\ Cnt(e)' = Cnt(e)
  BY <1>0, <1>1, DataUnchanged, CntType
<1>3. pc[t] = "wait" => op[t] \in {"read", "write", "pollin", "pollout"}
  BY <1>0 DEF CallsKnown
<1>4. (pc[t] = "wait" /\ UNCHANGED <<op, pc, count>>) => Goto(t, "wait")
  BY <1>0 DEF Goto
<1>5. ASSUME Return(t) PROVE pc'[t] = "idle"
  BY <1>0, <1>5, Returns
<1>6. ASSUME NEW l \in {"down", "inside", "wait"}, Goto(t, l) PROVE pc'[t] = l /\ op' = op
  BY <1>0, <1>6, Goes
<1>7. /\ pc[t] \in {"down", "inside", "wait"}
      /\ \/ Return(t)
         \/ \E l \in {"down", "inside", "wait"} :
              Goto(t, l) /\ (l = "wait" => op[t] \in {"read", "write", "pollin", "pollout"})
      /\ asleep' \subseteq asleep \cup {t}
      /\ t \in asleep' => pc'[t] = "wait" /\ op'[t] = op[t] /\ Quiet(t)
      /\ \/ pc[t] = "inside" /\ pc'[t] # "inside" /\ sem' = sem + 1
         \/ pc[t] # "inside" /\ pc'[t] = "inside" /\ sem > 0 /\ sem' = sem - 1
         \/ pc[t] # "inside" /\ pc'[t] # "inside" /\ sem' = sem
  <2>1. CASE Down(t)
    BY <1>0, <1>5, <1>6, <2>1 DEF Down
  <2>2. CASE Wait(t)
    BY <1>0, <1>3, <1>4, <1>6, <2>2 DEF Wait, Quiet
  <2>3. CASE Interrupt(t)
    BY <1>0, <1>3, <1>4, <1>5, <1>6, <2>3 DEF Interrupt
  <2>4. CASE Poll(t)
    BY <1>0, <1>5, <1>6, <2>4 DEF Poll, Inside, Up, Quiet
  <2> QED BY <2>1, <2>2, <2>3, <2>4
<1> QED BY <1>1, <1>2, <1>7, ThreadKeeps

(* read() and write().                                                     *)
LEMMA StepCopy ==
  ASSUME LoopInv, NEW t \in Threads, Read(t) \/ Write(t)
  PROVE  LoopInv'
<1>0. /\ LoopType /\ CallsKnown /\ RingsKept
      /\ asleep \subseteq Threads /\ \A u \in asleep : pc[u] = "wait"
  BY DEF LoopInv, LoopType, CallsKnown
<1>1. /\ UNCHANGED life_vars /\ UNCHANGED event_vars /\ sem' = sem + 1
      /\ pc[t] = "inside" /\ op[t] \in {"read", "write"}
      /\ Return(t) \/ Goto(t, "wait")
  BY DEF Read, Write, Fails, Blocks, Inside, Up
<1>2. asleep' \subseteq asleep
  BY DEF Read, Write, Fails, Blocks, StillAsleep
<1>3. t \notin asleep'
  BY <1>0, <1>1, <1>2
<1>4. pc'[t] # "inside"
  <2>1. CASE Return(t)
    BY <1>0, <2>1, Returns
  <2>2. CASE Goto(t, "wait")
    BY <1>0, <2>2, Goes
  <2> QED BY <1>1, <2>1, <2>2
<1>5. RingsKept' /\ \A e \in Dirs : (Cnt(e) = 0 => Cnt(e)' = 0) \/ asleep' = StillAsleep(e)
  <2>1. \A e \in Dirs : Cnt(e) \in Nat
    BY <1>0, CntType
  <2>2. CASE Read(t)
    <3>1. RingsKept' /\ \A e \in Dirs : Cnt(e)' <= Cnt(e)
      BY <1>0, <2>2, ReadData
    <3>2. \A e \in Dirs : Cnt(e)' \in Nat
      BY <3>1, RingCnt DEF RingsKept, Cnt
    <3> QED BY <2>1, <3>1, <3>2
  <2>3. CASE Write(t)
    BY <1>0, <2>3, WriteData
  <2> QED BY <2>2, <2>3
<1>6. \A e \in Dirs : Cnt(e)' \in Nat
  BY <1>5, RingCnt DEF RingsKept, Cnt
<1> QED BY <1>1, <1>2, <1>3, <1>4, <1>5, <1>6, ThreadKeeps

(* A thread enters a call or the ioctl.                                    *)
LEMMA StepEnter ==
  ASSUME LoopInv, NEW t \in Threads,
         NEW o \in {"read", "write", "open", "close", "pollin", "pollout", "events"},
         MayCall(t, o), op' = [op EXCEPT ![t] = o],
         pc' = [pc EXCEPT ![t] = IF o = "events" THEN "opened" ELSE "down"],
         count' \in [Threads -> Nat],
         o = "events" => t \in Masters /\ \A u \in Masters : op[u] # "events",
         UNCHANGED <<life_vars, sem, asleep, data_vars, event_vars>>
  PROVE  LoopInv'
<1>0. /\ LoopType /\ CallsKnown /\ RingsKept /\ (Orderly => ChannelKnown)
      /\ (~Faults => ReadersWoken) /\ (Orderly /\ ~Faults => EventsKnown)
  BY DEF LoopInv
<1>1. UNCHANGED <<created, slave_open_count, pending_events, sem_ready, creating, node, conn,
                  sem, asleep, ring, in, out, got, temp, told, misled>>
  BY DEF life_vars, data_vars, event_vars
<1>2. /\ op'[t] = o /\ pc'[t] = (IF o = "events" THEN "opened" ELSE "down")
      /\ \A u \in Threads : u # t => pc'[u] = pc[u] /\ op'[u] = op[u]
      /\ op' \in [Threads -> {"none", "read", "write", "open", "close", "pollin", "pollout",
                              "events"}]
      /\ pc' \in [Threads -> {"idle", "down", "inside", "bits", "wait"} \cup Collecting]
  BY <1>0 DEF LoopType, Collecting
<1>3. /\ Masters \subseteq Threads /\ Slaves \subseteq Threads /\ Masters \cap Slaves = {}
      /\ MasterConn' = MasterConn
  BY <1>1, LoopAssumption DEF Threads, MasterConn
<1>4. /\ pc[t] = "idle" /\ op[t] = "none"
      /\ o = "open" => t \in Slaves /\ t \notin conn /\ (Orderly => sem_ready)
      /\ o # "open" => t \in conn
      /\ o # "open" /\ t \in Masters => \A u \in Masters : op[u] # "close"
      /\ o = "close" /\ t \in Masters => \A u \in Masters : pc[u] = "idle"
  BY <1>0 DEF MayCall, CallsKnown
<1>11. BetweenBits' <=> BetweenBits
  BY <1>2, <1>3, <1>4 DEF BetweenBits
<1>5. LoopType'
  BY <1>0, <1>1, <1>2 DEF LoopType
<1>6. CallsKnown'
  <2>1. \A u \in Threads : /\ pc'[u] = "idle" <=> op'[u] = "none"
                           /\ pc'[u] \in Collecting <=> op'[u] = "events"
                           /\ pc'[u] = "wait" => op'[u] \in {"read", "write", "pollin", "pollout"}
                           /\ pc'[u] = "bits" => u \in Slaves /\ op'[u] \in {"open", "close"}
    BY <1>0, <1>2 DEF CallsKnown, Collecting
  <2>2. \A u \in asleep : pc'[u] = "wait"
    BY <1>0, <1>2, <1>4 DEF CallsKnown, LoopType
  <2>3. \A s \in Slaves : /\ op'[s] # "events"
                          /\ op'[s] = "open" => (s \in conn <=> pc'[s] = "bits")
                          /\ op'[s] = "close" => (s \in conn <=> pc'[s] # "bits")
                          /\ op'[s] \notin {"none", "open", "close"} => s \in conn
    BY <1>0, <1>2, <1>3, <1>4 DEF CallsKnown
  <2>4. \A m \in Masters : op'[m] # "open" /\ (op'[m] # "none" => m \in conn)
    BY <1>0, <1>2, <1>3, <1>4 DEF CallsKnown
  <2>5. \A m, u \in Masters : /\ op'[m] = "close" /\ u # m => op'[u] = "none"
                              /\ op'[m] = "events" /\ op'[u] = "events" => u = m
    BY <1>0, <1>2, <1>3, <1>4 DEF CallsKnown
  <2> QED BY <1>0, <1>1, <1>3, <2>1, <2>2, <2>3, <2>4, <2>5 DEF CallsKnown
<1>7. RingsKept' /\ \A e \in Dirs : Cnt(e)' = Cnt(e) /\ Cnt(e)' \in Nat
  BY <1>0, <1>1, DataUnchanged, CntType
<1>8. ASSUME Orderly PROVE ChannelKnown'
  <2>1. ChannelKnown
    BY <1>0, <1>8
  <2>2. \A u \in Threads : op'[u] # "none" => sem_ready
    BY <1>2, <1>4, <1>8, <2>1 DEF ChannelKnown
  <2>3. \A u \in Threads : pc'[u] \in {"inside", "bits"} => pc'[u] = pc[u] /\ op'[u] = op[u]
    BY <1>2
  <2> QED BY <1>1, <1>3, <2>1, <2>2, <2>3 DEF ChannelKnown
<1>9. ASSUME ~Faults PROVE ReadersWoken'
  <2>1. \A u \in asleep' : op'[u] = op[u] /\ (u \in Slaves \/ ~BetweenBits' => Quiet(u))
    BY <1>0, <1>1, <1>2, <1>4, <1>9, <1>11 DEF ReadersWoken, Quiet, CallsKnown, LoopType
  <2>2. asleep' \subseteq Threads /\ "m2s" \in Dirs /\ "s2m" \in Dirs
    BY <1>0, <1>1 DEF LoopType, Dirs
  <2> QED BY <1>0, <1>1, <1>7, <2>1, <2>2, SleepersQuiet
<1>10. ASSUME Orderly, ~Faults PROVE EventsKnown'
  <2>1. EventsKnown
    BY <1>0, <1>10
  <2>2. \A m \in Masters : m # t => op'[m] = op[m] /\ pc'[m] = pc[m]
    BY <1>2, <1>3
  <2>3. CASE o = "events"
    <3>1. \A m \in Masters : op[m] # "events" /\ pc[m] # "report"
      BY <1>0, <1>3, <2>3 DEF CallsKnown, Collecting
    <3>2. t \in Masters /\ op'[t] = "events" /\ pc'[t] = "opened"
      BY <1>2, <2>3
    <3>3. \A m \in Masters : pc'[m] # "report"
      BY <2>2, <3>1, <3>2
    <3> QED BY <1>1, <1>11, <2>1, <3>1, <3>2, <3>3 DEF EventsKnown, State
  <2>4. CASE o # "events"
    <3>1. \A m \in Masters : /\ op'[m] = "events" <=> op[m] = "events"
                             /\ op[m] = "events" => pc'[m] = pc[m]
                             /\ pc'[m] = "report" <=> pc[m] = "report"
      BY <1>2, <1>4, <2>2, <2>4
    <3> QED BY <1>1, <1>11, <2>1, <3>1 DEF EventsKnown
  <2> QED BY <2>3, <2>4
<1> QED BY <1>5, <1>6, <1>7, <1>8, <1>9, <1>10 DEF LoopInv

(* The events are collected bit by bit.                                    *)
LEMMA StepCollect ==
  ASSUME LoopInv, NEW m \in Masters, CollectEvents(m)
  PROVE  LoopInv'
<1>0. /\ LoopType /\ CallsKnown /\ RingsKept /\ (Orderly => ChannelKnown)
      /\ (~Faults => ReadersWoken) /\ (Orderly /\ ~Faults => EventsKnown)
  BY DEF LoopInv
<1>1. PICK l \in {"opened", "closed", "state"}, bit \in {Opened, Closed, State},
           next \in {"closed", "state", "report"} :
        Collect(m, l, bit, next) /\ (bit = State <=> next = "report")
  BY DEF CollectEvents, Opened, Closed, State
<1>2. /\ pc[m] = l /\ temp' = temp \cup (pending_events \cap {bit})
      /\ pending_events' = pending_events \ ({bit} \ {State}) /\ Goto(m, next)
      /\ UNCHANGED <<created, slave_open_count, sem_ready, creating, node, conn, sem,
                     asleep, ring, in, out, got, told>>
      /\ misled' = IF bit = State THEN BetweenBits ELSE misled
  BY <1>1 DEF Collect, data_vars
<1>3. m \in Threads /\ Masters \subseteq Threads /\ MasterConn' = MasterConn
  BY <1>2 DEF Threads, MasterConn
<1>4. /\ pc'[m] = next /\ op' = op /\ count' = count
      /\ \A u \in Threads : u # m => pc'[u] = pc[u]
      /\ pc' \in [Threads -> {"idle", "down", "inside", "bits", "wait"} \cup Collecting]
  <2>1. next \in {"down", "inside", "bits", "wait"} \cup Collecting
    BY DEF Collecting
  <2> QED BY <1>0, <1>2, <1>3, <2>1, Goes
<1>5. op[m] = "events" /\ pc[m] # "report" /\ pc[m] \in Collecting /\ next \in Collecting
  BY <1>0, <1>2, <1>3 DEF CallsKnown, Collecting
<1>12. (BetweenBits' <=> BetweenBits) /\ \A s \in Slaves : pc'[s] = pc[s]
  <2>1. m \notin Slaves /\ Slaves \subseteq Threads
    BY LoopAssumption DEF Threads
  <2> QED BY <1>4, <2>1 DEF BetweenBits
<1>6. LoopType'
  <2>1. misled' \in BOOLEAN
    <3>1. BetweenBits \in BOOLEAN /\ misled \in BOOLEAN
      BY <1>0 DEF BetweenBits, LoopType
    <3> QED BY <1>2, <3>1
  <2> QED BY <1>0, <1>2, <1>4, <2>1 DEF LoopType
<1>7. CallsKnown'
  <2>1. \A u \in Threads : /\ pc'[u] = "idle" <=> op'[u] = "none"
                           /\ pc'[u] \in Collecting <=> op'[u] = "events"
                           /\ pc'[u] = "wait" => op'[u] \in {"read", "write", "pollin", "pollout"}
                           /\ pc'[u] = "bits" => u \in Slaves /\ op'[u] \in {"open", "close"}
    BY <1>0, <1>4, <1>5 DEF CallsKnown, Collecting
  <2>2. \A u \in asleep : pc'[u] = "wait"
    BY <1>0, <1>4, <1>5 DEF CallsKnown, LoopType, Collecting
  <2> QED BY <1>0, <1>2, <1>3, <1>4, <1>12, <2>1, <2>2 DEF CallsKnown
<1>8. RingsKept' /\ \A e \in Dirs : Cnt(e)' = Cnt(e) /\ Cnt(e)' \in Nat
  BY <1>0, <1>2, DataUnchanged, CntType
<1>9. ASSUME Orderly PROVE ChannelKnown'
  <2>1. ChannelKnown
    BY <1>0, <1>9
  <2>2. \A u \in Threads : pc'[u] \in {"inside", "bits"} => pc'[u] = pc[u]
    BY <1>4, <1>5 DEF Collecting
  <2> QED BY <1>2, <1>4, <1>12, <2>1, <2>2 DEF ChannelKnown
<1>10. ASSUME ~Faults PROVE ReadersWoken'
  <2>1. \A u \in asleep' : op'[u] = op[u] /\ (u \in Slaves \/ ~BetweenBits' => Quiet(u))
    BY <1>0, <1>2, <1>4, <1>10, <1>12 DEF ReadersWoken, Quiet
  <2>2. /\ asleep' \subseteq Threads /\ "m2s" \in Dirs /\ "s2m" \in Dirs
        /\ pending_events' \cap {Opened, Closed} \subseteq pending_events
    BY <1>0, <1>2 DEF LoopType, Dirs
  <2> QED BY <1>0, <1>2, <1>8, <2>1, <2>2, SleepersQuiet
<1>11. ASSUME Orderly, ~Faults PROVE EventsKnown'
  <2>1. EventsKnown
    BY <1>0, <1>11
  <2>2. \A u \in Masters : op[u] = "events" => u = m
    BY <1>0, <1>5 DEF CallsKnown
  <2>3. \A u \in Masters : pc'[u] = "report" => u = m /\ bit = State
    BY <1>0, <1>1, <1>3, <1>4, <2>2 DEF CallsKnown, Collecting
  <2>4. State \in pending_events' <=> State \in pending_events
    BY <1>2
  <2>5. State \notin temp /\ (bit # State => State \notin temp')
    BY <1>2, <1>5, <2>1 DEF EventsKnown
  <2>6. bit = State => (State \in temp' <=> State \in pending_events) /\ pending_events' = pending_events
    BY <1>2, <2>5
  <2>7. State \in pending_events' <=> (slave_open_count' > 0 <=> ~BetweenBits')
    BY <1>2, <1>12, <2>1, <2>4 DEF EventsKnown
  <2>8. bit = State /\ ~misled' => (State \in temp' <=> slave_open_count' > 0)
    BY <1>2, <2>1, <2>6 DEF EventsKnown
  <2>9. \A u \in Masters : op'[u] = "events" /\ pc'[u] # "report" => State \notin temp'
    BY <1>1, <1>4, <2>2, <2>5
  <2>10. op'[m] = "events"
    BY <1>4, <1>5
  <2> QED BY <2>3, <2>7, <2>8, <2>9, <2>10 DEF EventsKnown
<1> QED BY <1>6, <1>7, <1>8, <1>9, <1>10, <1>11 DEF LoopInv

(* The events are handed to the user, or put back.                         *)
LEMMA StepReport ==
  ASSUME LoopInv, NEW m \in Masters, ReportEvents(m)
  PROVE  LoopInv'
<1>0. /\ LoopType /\ CallsKnown /\ RingsKept /\ (Orderly => ChannelKnown)
      /\ (~Faults => ReadersWoken) /\ (Orderly /\ ~Faults => EventsKnown)
  BY DEF LoopInv
<1>1. /\ pc[m] = "report" /\ temp' = {} /\ Return(m)
      /\ pending_events' = pending_events \/ (Faults /\ pending_events' = temp)
      /\ told' = told \/ told' = (State \in temp)
      /\ ~Faults => told' = (State \in temp) /\ pending_events' = pending_events
      /\ UNCHANGED <<created, slave_open_count, sem_ready, creating, node, conn, sem,
                     asleep, ring, in, out, got, misled>>
  BY DEF ReportEvents, data_vars
<1>2. m \in Threads /\ Masters \subseteq Threads /\ Slaves \subseteq Threads /\ MasterConn' = MasterConn
  BY <1>1 DEF Threads, MasterConn
<1>3. /\ pc'[m] = "idle" /\ op'[m] = "none"
      /\ \A u \in Threads : u # m => pc'[u] = pc[u] /\ op'[u] = op[u]
      /\ op' \in [Threads -> {"none", "read", "write", "open", "close", "pollin", "pollout",
                              "events"}]
      /\ pc' \in [Threads -> {"idle", "down", "inside", "bits", "wait"} \cup Collecting]
      /\ count' \in [Threads -> Nat]
  BY <1>0, <1>1, <1>2, Returns
<1>4. op[m] = "events"
  BY <1>0, <1>1, <1>2 DEF CallsKnown, Collecting
<1>11. BetweenBits' <=> BetweenBits
  BY <1>1, <1>2, <1>3 DEF BetweenBits
<1>5. LoopType'
  <2>1. told' \in BOOLEAN
    <3>1. told \in BOOLEAN /\ (State \in temp) \in BOOLEAN
      BY <1>0 DEF LoopType
    <3>2. CASE told' = told
      BY <3>1, <3>2, Zenon
    <3>3. CASE told' = (State \in temp)
      BY <3>1, <3>3, Zenon
    <3> QED BY <1>1, <3>2, <3>3
  <2> QED BY <1>0, <1>1, <1>3, <2>1 DEF LoopType
<1>6. CallsKnown'
  <2>1. \A u \in Threads : /\ pc'[u] = "idle" <=> op'[u] = "none"
                           /\ pc'[u] \in Collecting <=> op'[u] = "events"
                           /\ pc'[u] = "wait" => op'[u] \in {"read", "write", "pollin", "pollout"}
                           /\ pc'[u] = "bits" => u \in Slaves /\ op'[u] \in {"open", "close"}
    BY <1>0, <1>3 DEF CallsKnown, Collecting
  <2>2. \A u \in asleep : pc'[u] = "wait"
    BY <1>0, <1>1, <1>3 DEF CallsKnown, LoopType
  <2>3. \A u \in Threads : op'[u] = op[u] \/ op'[u] = "none"
    BY <1>3
  <2>4. \A s \in Slaves : /\ op'[s] # "events"
                          /\ op'[s] = "open" => (s \in conn <=> pc'[s] = "bits")
                          /\ op'[s] = "close" => (s \in conn <=> pc'[s] # "bits")
                          /\ op'[s] \notin {"none", "open", "close"} => s \in conn
    BY <1>0, <1>2, <1>3, <2>3 DEF CallsKnown
  <2>5. \A u \in Masters : op'[u] # "open" /\ (op'[u] # "none" => u \in conn)
    BY <1>0, <1>2, <2>3 DEF CallsKnown
  <2>6. \A w, u \in Masters : /\ op'[w] = "close" /\ u # w => op'[u] = "none"
                              /\ op'[w] = "events" /\ op'[u] = "events" => u = w
    BY <1>0, <1>2, <2>3 DEF CallsKnown
  <2> QED BY <1>0, <1>1, <1>2, <2>1, <2>2, <2>4, <2>5, <2>6 DEF CallsKnown
<1>7. RingsKept' /\ \A e \in Dirs : Cnt(e)' = Cnt(e) /\ Cnt(e)' \in Nat
  BY <1>0, <1>1, DataUnchanged, CntType
<1>8. ASSUME Orderly PROVE ChannelKnown'
  <2>1. ChannelKnown
    BY <1>0, <1>8
  <2>2. \A u \in Threads : /\ pc'[u] \in {"inside", "bits"} => pc'[u] = pc[u] /\ op'[u] = op[u]
                           /\ op'[u] # "none" => op[u] # "none"
    BY <1>3
  <2> QED BY <1>1, <1>2, <2>1, <2>2 DEF ChannelKnown
<1>9. ASSUME ~Faults PROVE ReadersWoken'
  <2>1. \A u \in asleep' : op'[u] = op[u] /\ (u \in Slaves \/ ~BetweenBits' => Quiet(u))
    BY <1>0, <1>1, <1>3, <1>9, <1>11 DEF ReadersWoken, Quiet, CallsKnown, LoopType
  <2>2. asleep' \subseteq Threads /\ "m2s" \in Dirs /\ "s2m" \in Dirs
    BY <1>0, <1>1 DEF LoopType, Dirs
  <2>3. pending_events' \cap {Opened, Closed} \subseteq pending_events
    BY <1>1, <1>9
  <2> QED BY <1>0, <1>1, <1>7, <2>1, <2>2, <2>3, SleepersQuiet
<1>10. ASSUME Orderly, ~Faults PROVE EventsKnown'
  <2>1. EventsKnown /\ told' = (State \in temp) /\ pending_events' = pending_events
    BY <1>0, <1>1, <1>10
  <2>2. told' <=> State \in temp
    BY <2>1
  <2>3. \A u \in Masters : op'[u] # "events" /\ pc'[u] # "report"
    BY <1>0, <1>2, <1>3, <1>4 DEF CallsKnown, Collecting
  <2> QED BY <1>1, <1>11, <2>1, <2>2, <2>3 DEF EventsKnown
<1> QED BY <1>5, <1>6, <1>7, <1>8, <1>9, <1>10 DEF LoopInv

(* create_slave_dev() clears the channel: the readers that sleep are no    *)
(* readers of it.                                                          *)
LEMMA StepCreateBegin ==
  ASSUME LoopInv, CreateBegin
  PROVE  LoopInv'
<1>0. /\ LoopType /\ CallsKnown /\ RingsKept /\ (Orderly => ChannelKnown)
      /\ (~Faults => ReadersWoken) /\ (Orderly /\ ~Faults => EventsKnown)
  BY DEF LoopInv
<1>1. /\ ~created /\ ~MasterConn /\ (Orderly => conn = {} /\ \A s \in Slaves : pc[s] = "idle")
      /\ creating' = TRUE /\ slave_open_count' = 0 /\ pending_events' = {} /\ told' = FALSE
      /\ misled' = FALSE /\ sem' = 0 /\ sem_ready' = FALSE /\ node' \in {node, TRUE}
      /\ UNCHANGED <<created, conn, op, pc, count, asleep, temp>>
  BY DEF CreateBegin, call_vars
<1>2. Masters \subseteq Threads /\ Slaves \subseteq Threads /\ MasterConn' = MasterConn
  BY <1>1 DEF Threads, MasterConn
<1>3. \A m \in Masters : op[m] = "none" /\ pc[m] = "idle" /\ m \notin asleep
  BY <1>0, <1>1, <1>2 DEF CallsKnown, MasterConn
<1>10. BetweenBits' <=> BetweenBits
  BY <1>1 DEF BetweenBits
<1>4. LoopType'
  <2>1. node' \in BOOLEAN
    <3>1. node \in BOOLEAN
      BY <1>0 DEF LoopType
    <3> QED BY <1>1, <3>1, Zenon
  <2> QED BY <1>0, <1>1, <2>1 DEF LoopType
<1>5. CallsKnown'
  BY <1>0, <1>1, <1>2 DEF CallsKnown
<1>6. RingsKept'
  BY CreateData
<1>7. ASSUME Orderly PROVE ChannelKnown'
  <2>1. \A u \in Threads : op[u] = "none" /\ pc[u] = "idle"
    BY <1>0, <1>1, <1>3, <1>7 DEF CallsKnown, Threads
  <2>2. conn = {}
    BY <1>1, <1>7
  <2> QED BY <1>1, <2>1, <2>2 DEF ChannelKnown
<1>8. ASSUME ~Faults PROVE ReadersWoken'
  <2>1. \A u \in asleep' : op'[u] = op[u] /\ (u \in Slaves \/ ~BetweenBits' => Quiet(u))
    BY <1>0, <1>1, <1>8, <1>10 DEF ReadersWoken, Quiet
  <2>2. asleep' \subseteq Threads
    BY <1>0, <1>1 DEF LoopType
  <2>3. \A u \in asleep' \cap Masters : Dir(u) # "s2m"
    BY <1>1, <1>3
  <2>4. ASSUME NEW u \in asleep' \cap Slaves PROVE Dir(u) # "m2s"
    <3>1. u \notin Masters /\ u \in asleep /\ u \in Threads
      BY <1>1, <1>2, <2>4, LoopAssumption
    <3>2. op[u] \in {"read", "write", "pollin", "pollout"}
      BY <1>0, <3>1 DEF CallsKnown
    <3>3. op[u] \notin {"read", "pollin"}
      BY <1>1, <2>1, <2>4 DEF Quiet, WaitCondition, PollReady, PeerGone
    <3> QED BY <3>1, <3>2, <3>3 DEF Dir
  <2>5. \A e \in Dirs : Cnt(e)' \in Nat
    BY <1>6, RingCnt DEF RingsKept, Cnt
  <2> QED BY <1>0, <2>1, <2>2, <2>3, <2>4, <2>5, SleepersQuiet
<1>9. ASSUME Orderly, ~Faults PROVE EventsKnown'
  <2>1. temp = {}
    BY <1>0, <1>3, <1>9 DEF EventsKnown
  <2>2. ~BetweenBits
    BY <1>1, <1>9 DEF BetweenBits
  <2> QED BY <1>1, <1>3, <1>10, <2>1, <2>2 DEF EventsKnown
<1> QED BY <1>4, <1>5, <1>6, <1>7, <1>8, <1>9 DEF LoopInv

(* The rest of create_slave_dev().                                         *)
LEMMA StepCreateEnd ==
  ASSUME LoopInv, CreateEnd
  PROVE  LoopInv'
<1>0. /\ LoopType /\ CallsKnown /\ RingsKept /\ (Orderly => ChannelKnown)
      /\ (~Faults => ReadersWoken) /\ (Orderly /\ ~Faults => EventsKnown)
  BY DEF LoopInv
<1>1. /\ creating /\ creating' = FALSE
      /\ \/ UNCHANGED <<created, conn, sem, sem_ready>>
         \/ sem' = 1 /\ sem_ready' = TRUE /\ created' = TRUE /\ conn' = conn \cup Masters
      /\ UNCHANGED <<slave_open_count, pending_events, node, op, pc, count, asleep,
                     ring, in, out, got, temp, told, misled>>
  BY DEF CreateEnd, call_vars, data_vars, event_vars
<1>2. Masters \subseteq Threads /\ Slaves \subseteq Threads /\ Masters \cap Slaves = {}
  BY LoopAssumption DEF Threads
<1>3. /\ MasterConn' => created' /\ conn' \cap Slaves = conn \cap Slaves
      /\ \A s \in Slaves : s \in conn' <=> s \in conn
      /\ BetweenBits' <=> BetweenBits
  BY <1>0, <1>1, <1>2 DEF MasterConn, CallsKnown, BetweenBits
<1>4. LoopType'
  <2>1. created \in BOOLEAN /\ sem_ready \in BOOLEAN
    BY <1>0 DEF LoopType
  <2>2. created' \in BOOLEAN /\ sem_ready' \in BOOLEAN /\ creating' \in BOOLEAN
    BY <1>1, <2>1, Zenon
  <2>3. sem' \in Nat /\ conn' \subseteq Threads
    BY <1>0, <1>1, <1>2 DEF LoopType
  <2> QED BY <1>0, <1>1, <2>2, <2>3 DEF LoopType
<1>5. CallsKnown'
  BY <1>0, <1>1, <1>2, <1>3 DEF CallsKnown
<1>6. RingsKept' /\ \A e \in Dirs : Cnt(e)' = Cnt(e) /\ Cnt(e)' \in Nat
  BY <1>0, <1>1, DataUnchanged, CntType
<1>7. ASSUME Orderly PROVE ChannelKnown'
  <2>1. ChannelKnown
    BY <1>0, <1>7
  <2>2. \A u \in Threads : op[u] = "none" /\ pc[u] \notin {"inside", "bits"}
    BY <1>0, <1>1, <2>1 DEF ChannelKnown, CallsKnown
  <2> QED BY <1>1, <1>2, <1>3, <2>1, <2>2 DEF ChannelKnown
<1>8. ASSUME ~Faults PROVE ReadersWoken'
  <2>1. \A u \in asleep' : op'[u] = op[u] /\ (u \in Slaves \/ ~BetweenBits' => Quiet(u))
    BY <1>0, <1>1, <1>3, <1>8 DEF ReadersWoken, Quiet
  <2>2. /\ asleep' \subseteq Threads /\ "m2s" \in Dirs /\ "s2m" \in Dirs
        /\ created => created'
    BY <1>0, <1>1 DEF LoopType, Dirs
  <2> QED BY <1>0, <1>1, <1>6, <2>1, <2>2, SleepersQuiet
<1>9. ASSUME Orderly, ~Faults PROVE EventsKnown'
  BY <1>0, <1>1, <1>3, <1>9 DEF EventsKnown
<1> QED BY <1>4, <1>5, <1>6, <1>7, <1>8, <1>9 DEF LoopInv

(* A slave counts itself in or out and sets its event bit.                 *)
LEMMA SlaveBegins ==
  ASSUME LoopInv, NEW s \in Slaves, pc[s] = "inside", Goto(s, "bits"),
         \/ /\ op[s] = "open" /\ created /\ slave_open_count = 0
            /\ slave_open_count' = slave_open_count + 1
            /\ pending_events' = pending_events \cup {Opened} /\ conn' = conn \cup {s}
         \/ /\ op[s] = "close"
            /\ slave_open_count' = IF slave_open_count > 0 THEN slave_open_count - 1 ELSE 0
            /\ pending_events' = pending_events \cup {Closed} /\ conn' = conn \ {s},
         UNCHANGED <<created, sem_ready, creating, node, sem, asleep, ring, in, out, got, temp,
                     told, misled>>
  PROVE  LoopInv'
<1>0. /\ LoopType /\ CallsKnown /\ RingsKept /\ (Orderly => ChannelKnown)
      /\ (~Faults => ReadersWoken) /\ (Orderly /\ ~Faults => EventsKnown)
  BY DEF LoopInv
<1>2. /\ s \in Threads /\ s \notin Masters /\ Masters \subseteq Threads /\ Slaves \subseteq Threads
      /\ Masters \cap Slaves = {}
  BY LoopAssumption DEF Threads
<1>3. /\ pc'[s] = "bits" /\ op' = op /\ count' = count
      /\ \A u \in Threads : u # s => pc'[u] = pc[u]
      /\ pc' \in [Threads -> {"idle", "down", "inside", "bits", "wait"} \cup Collecting]
  BY <1>0, <1>2, Goes
<1>4. RingsKept' /\ \A e \in Dirs : Cnt(e)' = Cnt(e) /\ Cnt(e)' \in Nat
  BY <1>0, DataUnchanged, CntType
<1>5. s \notin asleep /\ (op[s] = "open" => s \notin conn) /\ (op[s] = "close" => s \in conn)
  BY <1>0 DEF CallsKnown
<1>6. BetweenBits'
  BY <1>3 DEF BetweenBits
<1>7. \A m \in Masters : op'[m] = op[m] /\ pc'[m] = pc[m] /\ (m \in conn' <=> m \in conn)
  BY <1>2, <1>3
<1>8. LoopType'
  <2>1. slave_open_count' \in Nat /\ conn' \subseteq Threads
    BY <1>0, <1>2 DEF LoopType
  <2>2. pending_events' \subseteq {Opened, Closed, State}
    BY <1>0 DEF LoopType
  <2> QED BY <1>0, <1>3, <2>1, <2>2 DEF LoopType
<1>9. CallsKnown'
  <2>1. \A u \in Threads : /\ pc'[u] = "idle" <=> op'[u] = "none"
                           /\ pc'[u] \in Collecting <=> op'[u] = "events"
                           /\ pc'[u] = "wait" => op'[u] \in {"read", "write", "pollin", "pollout"}
                           /\ pc'[u] = "bits" => u \in Slaves /\ op'[u] \in {"open", "close"}
    BY <1>0, <1>3 DEF CallsKnown, Collecting
  <2>2. \A u \in asleep' : pc'[u] = "wait"
    BY <1>0, <1>3, <1>5 DEF CallsKnown, LoopType
  <2>3. \A u \in Slaves : /\ op'[u] # "events"
                          /\ op'[u] = "open" => (u \in conn' <=> pc'[u] = "bits")
                          /\ op'[u] = "close" => (u \in conn' <=> pc'[u] # "bits")
                          /\ op'[u] \notin {"none", "open", "close"} => u \in conn'
    BY <1>0, <1>2, <1>3 DEF CallsKnown
  <2>4. MasterConn' <=> MasterConn
    BY <1>7 DEF MasterConn
  <2> QED BY <1>0, <1>7, <2>1, <2>2, <2>3, <2>4 DEF CallsKnown
<1>10. ASSUME Orderly PROVE ChannelKnown'
  <2>1. ChannelKnown
    BY <1>0, <1>10
  <2>2. \/ op[s] = "open" /\ conn' \cap Slaves = {s} /\ slave_open_count' = 1
        \/ op[s] = "close" /\ conn' \cap Slaves = {} /\ slave_open_count' = 0
    BY <1>5, <2>1 DEF ChannelKnown
  <2>3. ~creating /\ sem_ready /\ sem = 0
    BY <1>0, <1>2, <1>5, <2>1 DEF ChannelKnown, CallsKnown
  <2>4. \A u \in Threads : pc'[u] \in {"inside", "bits"} => u = s
    BY <1>2, <1>3, <2>1 DEF ChannelKnown
  <2> QED BY <1>2, <1>3, <2>1, <2>2, <2>3, <2>4 DEF ChannelKnown
<1>11. ASSUME ~Faults PROVE ReadersWoken'
  <2>1. \A u \in asleep' : op'[u] = op[u] /\ (u \in Slaves \/ ~BetweenBits' => Quiet(u))
    BY <1>0, <1>3, <1>6, <1>11 DEF ReadersWoken, Quiet
  <2>2. asleep' \subseteq Threads
    BY <1>0 DEF LoopType
  <2>3. (created => created') /\ (Cnt("m2s") = 0 => Cnt("m2s")' = 0)
    BY <1>4 DEF Dirs
  <2> QED BY <1>0, <1>4, <1>6, <2>1, <2>2, <2>3, SleepersQuiet
<1>12. ASSUME Orderly, ~Faults PROVE EventsKnown'
  <2>1. EventsKnown /\ ChannelKnown
    BY <1>0, <1>12
  <2>2. ~BetweenBits
    BY <1>2, <2>1 DEF ChannelKnown, BetweenBits
  <2>3. pending_events' \cap {Opened, Closed} # {}
    OBVIOUS
  <2>4. State \in pending_events' <=> State \in pending_events
    BY DEF State, Opened, Closed
  <2>5. slave_open_count' > 0 <=> ~(slave_open_count > 0)
    BY <1>5, <2>1 DEF ChannelKnown
  <2> QED BY <1>6, <1>7, <2>1, <2>2, <2>3, <2>4, <2>5 DEF EventsKnown
<1> QED BY <1>4, <1>8, <1>9, <1>10, <1>11, <1>12 DEF LoopInv

(* A slave sets or clears its state bit, wakes the master and leaves.      *)
LEMMA SlaveEnds ==
  ASSUME LoopInv, NEW s \in Slaves, pc[s] = "bits", Return(s), sem' = sem + 1,
         \/ op[s] = "open" /\ pending_events' = pending_events \cup {State}
         \/ op[s] = "close" /\ pending_events' = pending_events \ {State},
         node' \in BOOLEAN, asleep' = StillAsleep("s2m"),
         UNCHANGED <<created, slave_open_count, sem_ready, creating, conn, temp, told, misled>>,
         RingsKept', \A e \in Dirs : Cnt(e)' = Cnt(e) \/ (e = "m2s" /\ Cnt(e)' = 0)
  PROVE  LoopInv'
<1>0. /\ LoopType /\ CallsKnown /\ RingsKept /\ (Orderly => ChannelKnown)
      /\ (~Faults => ReadersWoken) /\ (Orderly /\ ~Faults => EventsKnown)
  BY DEF LoopInv
<1>2. /\ s \in Threads /\ s \notin Masters /\ Masters \subseteq Threads /\ Slaves \subseteq Threads
      /\ Masters \cap Slaves = {}
  BY LoopAssumption DEF Threads
<1>3. /\ pc'[s] = "idle" /\ op'[s] = "none"
      /\ \A u \in Threads : u # s => pc'[u] = pc[u] /\ op'[u] = op[u]
      /\ op' \in [Threads -> {"none", "read", "write", "open", "close", "pollin", "pollout",
                              "events"}]
      /\ pc' \in [Threads -> {"idle", "down", "inside", "bits", "wait"} \cup Collecting]
      /\ count' \in [Threads -> Nat]
  BY <1>0, <1>2, Returns
<1>4. \A e \in Dirs : Cnt(e)' \in Nat
  BY RingCnt DEF RingsKept, Cnt
<1>5. s \notin asleep
  BY <1>0 DEF CallsKnown
<1>7. \A m \in Masters : op'[m] = op[m] /\ pc'[m] = pc[m]
  BY <1>2, <1>3
<1>8. LoopType'
  <2>1. sem' \in Nat /\ asleep' \subseteq Threads
    BY <1>0 DEF LoopType, StillAsleep
  <2>2. pending_events' \subseteq {Opened, Closed, State}
    BY <1>0 DEF LoopType
  <2> QED BY <1>0, <1>3, <2>1, <2>2 DEF LoopType
<1>9. CallsKnown'
  <2>1. \A u \in Threads : /\ pc'[u] = "idle" <=> op'[u] = "none"
                           /\ pc'[u] \in Collecting <=> op'[u] = "events"
                           /\ pc'[u] = "wait" => op'[u] \in {"read", "write", "pollin", "pollout"}
                           /\ pc'[u] = "bits" => u \in Slaves /\ op'[u] \in {"open", "close"}
    BY <1>0, <1>3 DEF CallsKnown, Collecting
  <2>2. \A u \in asleep' : pc'[u] = "wait"
    BY <1>0, <1>3, <1>5 DEF CallsKnown, LoopType, StillAsleep
  <2>3. \A u \in Slaves : /\ op'[u] # "events"
                          /\ op'[u] = "open" => (u \in conn' <=> pc'[u] = "bits")
                          /\ op'[u] = "close" => (u \in conn' <=> pc'[u] # "bits")
                          /\ op'[u] \notin {"none", "open", "close"} => u \in conn'
    BY <1>0, <1>2, <1>3 DEF CallsKnown
  <2>4. MasterConn' <=> MasterConn
    BY DEF MasterConn
  <2> QED BY <1>0, <1>7, <2>1, <2>2, <2>3, <2>4 DEF CallsKnown
<1>10. ASSUME Orderly PROVE ChannelKnown' /\ ~BetweenBits'
  <2>1. ChannelKnown
    BY <1>0, <1>10
  <2>3. ~creating /\ sem_ready /\ sem = 0
    BY <1>0, <1>2, <2>1 DEF ChannelKnown, CallsKnown
  <2>4. \A u \in Threads : pc'[u] \notin {"inside", "bits"}
    BY <1>2, <1>3, <2>1 DEF ChannelKnown
  <2>5. sem' = 1
    BY <2>3
  <2>6. \A u \in Threads : op'[u] # "none" => sem_ready'
    BY <2>3
  <2> QED BY <1>2, <2>1, <2>3, <2>4, <2>5, <2>6 DEF ChannelKnown, BetweenBits
<1>11. ASSUME ~Faults PROVE ReadersWoken'
  <2>1. asleep' \subseteq Threads /\ \A u \in asleep' \cap Masters : Dir(u) # "s2m"
    BY <1>0 DEF LoopType, StillAsleep
  <2>2. \A u \in asleep' : op'[u] = op[u] /\ (u \in Slaves \/ ~BetweenBits' => Quiet(u))
    <3> SUFFICES ASSUME NEW u \in asleep' PROVE op'[u] = op[u] /\ Quiet(u)
      OBVIOUS
    <3>1. u \in asleep /\ u \in Threads /\ op'[u] = op[u]
      BY <1>3, <1>5, <2>1 DEF StillAsleep
    <3>2. CASE u \in Slaves
      BY <1>0, <1>11, <3>1, <3>2 DEF ReadersWoken, Quiet
    <3>3. CASE u \in Masters
      BY <2>1, <3>1, <3>3 DEF Quiet, Dir
    <3> QED BY <3>1, <3>2, <3>3 DEF Threads
  <2>3. (created => created') /\ (Cnt("m2s") = 0 => Cnt("m2s")' = 0)
    BY DEF Dirs
  <2> QED BY <1>0, <1>4, <2>1, <2>2, <2>3, SleepersQuiet
<1>12. ASSUME Orderly, ~Faults PROVE EventsKnown'
  <2>1. EventsKnown /\ ChannelKnown /\ ~BetweenBits'
    BY <1>0, <1>10, <1>12
  <2>2. pending_events' \cap {Opened, Closed} = pending_events \cap {Opened, Closed}
    BY DEF State, Opened, Closed
  <2>3. op[s] = "open" => slave_open_count > 0
    BY <1>0, <2>1 DEF ChannelKnown, CallsKnown
  <2>4. op[s] = "close" => slave_open_count = 0
    BY <2>1 DEF ChannelKnown
  <2>5. State \in pending_events' <=> (slave_open_count' > 0 <=> ~BetweenBits')
    BY <2>1, <2>3, <2>4
  <2> QED BY <1>7, <2>1, <2>2, <2>5 DEF EventsKnown
<1> QED BY <1>8, <1>9, <1>10, <1>11, <1>12 DEF LoopInv

(* A slave opens the device, or is refused.                                *)
LEMMA StepOpenSlave ==
  ASSUME LoopInv, NEW s \in Slaves, OpenSlave(s)
  PROVE  LoopInv'
<1>0. LoopType /\ CallsKnown /\ RingsKept /\ s \in Threads
  BY DEF LoopInv, Threads
<1>1. /\ pc[s] = "inside" /\ op[s] = "open"
      /\ UNCHANGED <<created, sem_ready, creating, node, asleep, ring, in, out, got, temp, told,
                     misled>>
  BY DEF OpenSlave, Inside, data_vars, event_vars
<1>2. CASE Return(s) /\ Up /\ UNCHANGED <<slave_open_count, pending_events, conn>>
  <2>1. UNCHANGED life_vars /\ UNCHANGED event_vars
    BY <1>1, <1>2 DEF life_vars, event_vars
  <2>2. pc'[s] = "idle"
    BY <1>0, <1>2, Returns
  <2>3. asleep' \subseteq asleep \cup {s} /\ s \notin asleep' /\ pc'[s] # "inside"
    BY <1>0, <1>1, <2>2 DEF CallsKnown
  <2>4. RingsKept' /\ \A e \in Dirs : Cnt(e)' = Cnt(e) /\ Cnt(e)' \in Nat
    BY <1>0, <1>1, DataUnchanged, CntType
  <2> QED BY <1>0, <1>1, <1>2, <2>1, <2>3, <2>4, ThreadKeeps DEF Up
<1>3. CASE /\ created /\ slave_open_count = 0
           /\ slave_open_count' = slave_open_count + 1
           /\ pending_events' = pending_events \cup {Opened}
           /\ conn' = conn \cup {s} /\ Goto(s, "bits") /\ UNCHANGED sem
  BY <1>1, <1>3, SlaveBegins
<1> QED BY <1>2, <1>3 DEF OpenSlave

LEMMA StepSlaveOpened ==
  ASSUME LoopInv, NEW s \in Slaves, SlaveOpened(s)
  PROVE  LoopInv'
<1>1. /\ pc[s] = "bits" /\ op[s] = "open" /\ Return(s) /\ sem' = sem + 1
      /\ pending_events' = pending_events \cup {State} /\ asleep' = StillAsleep("s2m")
      /\ UNCHANGED <<created, slave_open_count, sem_ready, creating, node, conn, temp, told,
                     misled>>
  BY DEF SlaveOpened, Up, event_vars
<1>2. RingsKept' /\ \A e \in Dirs : Cnt(e)' = Cnt(e) \/ (e = "m2s" /\ Cnt(e)' = 0)
  BY OpenData DEF LoopInv
<1>3. node' \in BOOLEAN
  BY <1>1 DEF LoopInv, LoopType
<1> QED BY <1>1, <1>2, <1>3, SlaveEnds

(* A slave closes the device.                                              *)
LEMMA StepCloseSlave ==
  ASSUME LoopInv, NEW s \in Slaves, CloseSlave(s)
  PROVE  LoopInv'
<1>1. /\ pc[s] = "inside" /\ op[s] = "close" /\ Goto(s, "bits")
      /\ slave_open_count' = (IF slave_open_count > 0 THEN slave_open_count - 1 ELSE 0)
      /\ pending_events' = pending_events \cup {Closed} /\ conn' = conn \ {s}
      /\ UNCHANGED <<created, sem_ready, creating, node, sem, asleep, ring, in, out, got, temp,
                     told, misled>>
  BY DEF CloseSlave, Inside, data_vars, event_vars
<1> QED BY <1>1, SlaveBegins

LEMMA StepSlaveClosed ==
  ASSUME LoopInv, NEW s \in Slaves, SlaveClosed(s)
  PROVE  LoopInv'
<1>1. /\ pc[s] = "bits" /\ op[s] = "close" /\ Return(s) /\ sem' = sem + 1
      /\ pending_events' = pending_events \ {State} /\ asleep' = StillAsleep("s2m")
      /\ node' = (node /\ created)
      /\ UNCHANGED <<created, slave_open_count, sem_ready, creating, conn, ring, in, out, got,
                     temp, told, misled>>
  BY DEF SlaveClosed, Up, data_vars, event_vars
<1>2. RingsKept' /\ \A e \in Dirs : Cnt(e)' = Cnt(e)
  BY <1>1, DataUnchanged DEF LoopInv
<1>3. node' \in BOOLEAN
  BY <1>1
<1> QED BY <1>1, <1>2, <1>3, SlaveEnds

(* The master closes its file, and the channel with it.                    *)
LEMMA StepCloseMaster ==
  ASSUME LoopInv, NEW m \in Masters, CloseMaster(m)
  PROVE  LoopInv'
<1>0. /\ LoopType /\ CallsKnown /\ RingsKept /\ (Orderly => ChannelKnown)
      /\ (~Faults => ReadersWoken) /\ (Orderly /\ ~Faults => EventsKnown)
  BY DEF LoopInv
<1>1. /\ pc[m] = "inside" /\ op[m] = "close" /\ Return(m) /\ sem' = sem + 1
      /\ created' = FALSE /\ node' = (node /\ slave_open_count > 0)
      /\ conn' = conn \ Masters /\ asleep' = StillAsleep("m2s")
      /\ UNCHANGED <<slave_open_count, pending_events, sem_ready, creating, ring, in, out, got,
                     temp, told, misled>>
  BY DEF CloseMaster, Inside, Up, data_vars, event_vars
<1>2. /\ m \in Threads /\ m \notin Slaves /\ Masters \subseteq Threads /\ Slaves \subseteq Threads
      /\ Masters \cap Slaves = {}
  BY LoopAssumption DEF Threads
<1>3. /\ pc'[m] = "idle" /\ op'[m] = "none"
      /\ \A u \in Threads : u # m => pc'[u] = pc[u] /\ op'[u] = op[u]
      /\ op' \in [Threads -> {"none", "read", "write", "open", "close", "pollin", "pollout",
                              "events"}]
      /\ pc' \in [Threads -> {"idle", "down", "inside", "bits", "wait"} \cup Collecting]
      /\ count' \in [Threads -> Nat]
  BY <1>0, <1>1, <1>2, Returns
<1>4. RingsKept' /\ \A e \in Dirs : Cnt(e)' = Cnt(e) /\ Cnt(e)' \in Nat
  BY <1>0, <1>1, DataUnchanged, CntType
<1>5. m \notin asleep /\ m \in conn
  BY <1>0, <1>1 DEF CallsKnown
<1>6. node' \in BOOLEAN /\ (node' <=> node /\ slave_open_count > 0)
  BY <1>1
<1>7. /\ \A u \in Masters : /\ op'[u] = "none" /\ pc'[u] = "idle"
                            /\ op[u] # "events" /\ pc[u] # "report"
      /\ \A s \in Slaves : op'[s] = op[s] /\ pc'[s] = pc[s] /\ (s \in conn' <=> s \in conn)
  BY <1>0, <1>1, <1>2, <1>3 DEF CallsKnown, Collecting
<1>13. BetweenBits' <=> BetweenBits
  BY <1>7 DEF BetweenBits
<1>8. LoopType'
  <2>1. sem' \in Nat
    BY <1>0, <1>1 DEF LoopType
  <2> QED BY <1>0, <1>1, <1>3, <1>6, <2>1 DEF LoopType, StillAsleep
<1>9. CallsKnown'
  <2>1. \A u \in Threads : /\ pc'[u] = "idle" <=> op'[u] = "none"
                           /\ pc'[u] \in Collecting <=> op'[u] = "events"
                           /\ pc'[u] = "wait" => op'[u] \in {"read", "write", "pollin", "pollout"}
                           /\ pc'[u] = "bits" => u \in Slaves /\ op'[u] \in {"open", "close"}
    BY <1>0, <1>3 DEF CallsKnown, Collecting
  <2>2. \A u \in asleep' : pc'[u] = "wait"
    BY <1>0, <1>1, <1>3, <1>5 DEF CallsKnown, LoopType, StillAsleep
  <2>3. ~MasterConn'
    BY <1>1 DEF MasterConn
  <2> QED BY <1>0, <1>1, <1>7, <2>1, <2>2, <2>3 DEF CallsKnown
<1>10. ASSUME Orderly PROVE ChannelKnown'
  <2>1. ChannelKnown
    BY <1>0, <1>10
  <2>2. conn' \cap Slaves = conn \cap Slaves
    BY <1>1, <1>2
  <2>3. ~creating /\ sem_ready /\ sem = 0
    BY <1>1, <1>2, <1>5, <2>1 DEF ChannelKnown
  <2>4. \A u \in Threads : pc'[u] \notin {"inside", "bits"}
    BY <1>1, <1>2, <1>3, <2>1 DEF ChannelKnown
  <2>5. sem' = 1
    BY <1>1, <2>3
  <2>6. \A u \in Threads : op'[u] # "none" => sem_ready'
    BY <1>1, <2>3
  <2> QED BY <1>1, <1>2, <2>1, <2>2, <2>3, <2>4, <2>5, <2>6 DEF ChannelKnown
<1>11. ASSUME ~Faults PROVE ReadersWoken'
  <2>1. \A u \in asleep' : op'[u] = op[u] /\ (u \in Slaves \/ ~BetweenBits' => Quiet(u))
    BY <1>0, <1>1, <1>3, <1>5, <1>11, <1>13 DEF ReadersWoken, Quiet, LoopType, StillAsleep
  <2>2. /\ asleep' \subseteq Threads /\ \A u \in asleep' \cap Slaves : Dir(u) # "m2s"
        /\ "s2m" \in Dirs
    BY <1>0, <1>1 DEF LoopType, StillAsleep, Dirs
  <2> QED BY <1>0, <1>1, <1>4, <2>1, <2>2, SleepersQuiet
<1>12. ASSUME Orderly, ~Faults PROVE EventsKnown'
  BY <1>0, <1>1, <1>7, <1>12, <1>13 DEF EventsKnown
<1> QED BY <1>4, <1>8, <1>9, <1>10, <1>11, <1>12 DEF LoopInv

-----------------------------------------------------------------------------
(* The driver starts with the invariant ...                                *)
LEMMA LoopInvInit == Init => LoopInv
<1> SUFFICES ASSUME Init PROVE LoopInv
  OBVIOUS
<1>1. /\ ring = [d \in Dirs |-> EmptyRing] /\ in = [d \in Dirs |-> 0] /\ out = [d \in Dirs |-> 0]
      /\ got = [d \in Dirs |-> <<>>]
  BY DEF Init
<1>2. RingsKept
  <2>1. PICK f, z, g : f = [d \in Dirs |-> EmptyRing] /\ z = [d \in Dirs |-> 0] /\ g = [d \in Dirs |-> <<>>]
    OBVIOUS
  <2>2. /\ f \in [Dirs -> RingType] /\ z \in [Dirs -> Nat] /\ g \in [Dirs -> Seq(Nat)]
        /\ \A d \in Dirs : RingHolds(f[d], z[d], z[d], g[d])
    BY <2>1, EmptyRings, Zenon
  <2>3. ring = f /\ in = z /\ out = z /\ got = g
    BY <1>1, <2>1
  <2> QED BY <2>2, <2>3, Zenon DEF RingsKept
<1>3. LoopType
  BY DEF Init, LoopType
<1>4. Masters \subseteq Threads /\ Slaves \subseteq Threads
  BY DEF Threads
<1>5. CallsKnown
  BY <1>4 DEF Init, CallsKnown, MasterConn, Collecting
<1>6. ChannelKnown
  BY DEF Init, ChannelKnown
<1>7. ReadersWoken
  BY DEF Init, ReadersWoken
<1>8. EventsKnown
  BY <1>4 DEF Init, EventsKnown, BetweenBits
<1> QED BY <1>2, <1>3, <1>5, <1>6, <1>7, <1>8 DEF LoopInv

(* ... and every step keeps it.                                            *)
LEMMA LoopInvStep == LoopInv /\ [Next]_vars => LoopInv'
<1> SUFFICES ASSUME LoopInv, [Next]_vars PROVE LoopInv'
  OBVIOUS
<1>0. Masters \subseteq Threads /\ Slaves \subseteq Threads /\ count \in [Threads -> Nat]
  BY DEF Threads, LoopInv, LoopType
<1>1. CASE CreateBegin
  BY <1>1, StepCreateBegin
<1>2. CASE CreateEnd
  BY <1>2, StepCreateEnd
<1>3. ASSUME NEW t \in Threads, NEW n \in Nat,
             NEW o \in {"read", "write", "open", "close", "pollin", "pollout"}, Call(t, o, n)
      PROVE  LoopInv'
  <2>1. /\ MayCall(t, o) /\ op' = [op EXCEPT ![t] = o] /\ pc' = [pc EXCEPT ![t] = "down"]
        /\ count' \in [Threads -> Nat]
        /\ UNCHANGED <<life_vars, sem, asleep, data_vars, event_vars>>
    BY <1>0, <1>3 DEF Call
  <2>2. o # "events" /\ (IF o = "events" THEN "opened" ELSE "down") = "down"
        /\ o \in {"read", "write", "open", "close", "pollin", "pollout", "events"}
    OBVIOUS
  <2> QED BY <2>1, <2>2, StepEnter
<1>4. ASSUME NEW t \in Threads, Down(t) \/ Wait(t) \/ Interrupt(t) \/ Body(t)
      PROVE  LoopInv'
  <2>1. CASE Down(t) \/ Wait(t) \/ Interrupt(t) \/ Poll(t)
    BY <2>1, StepWait
  <2>2. CASE Read(t) \/ Write(t)
    BY <2>2, StepCopy
  <2>3. CASE CloseSlave(t)
    <3>1. t \in Slaves
      BY <2>3 DEF CloseSlave
    <3> QED BY <2>3, <3>1, StepCloseSlave
  <2>5. CASE SlaveClosed(t)
    <3>1. t \in Slaves
      BY <2>5 DEF SlaveClosed, LoopInv, CallsKnown
    <3> QED BY <2>5, <3>1, StepSlaveClosed
  <2>4. CASE CloseMaster(t)
    <3>1. t \in Masters
      BY <2>4 DEF CloseMaster
    <3> QED BY <2>4, <3>1, StepCloseMaster
  <2> QED BY <1>4, <2>1, <2>2, <2>3, <2>4, <2>5 DEF Body
<1>5. ASSUME NEW s \in Slaves, OpenSlave(s) \/ SlaveOpened(s) PROVE LoopInv'
  BY <1>5, StepOpenSlave, StepSlaveOpened
<1>6. ASSUME NEW m \in Masters, GetEvents(m) PROVE LoopInv'
  <2>1. /\ MayCall(m, "events") /\ op' = [op EXCEPT ![m] = "events"]
        /\ pc' = [pc EXCEPT ![m] = "opened"] /\ count' \in [Threads -> Nat]
        /\ \A u \in Masters : op[u] # "events"
        /\ UNCHANGED <<life_vars, sem, asleep, data_vars, event_vars>>
    BY <1>0, <1>6 DEF GetEvents
  <2>2. PICK o \in {"read", "write", "open", "close", "pollin", "pollout", "events"} : o = "events"
    OBVIOUS
  <2>3. /\ MayCall(m, o) /\ op' = [op EXCEPT ![m] = o]
        /\ pc' = [pc EXCEPT ![m] = IF o = "events" THEN "opened" ELSE "down"]
    BY <2>1, <2>2
  <2>4. m \in Threads
    BY <1>0
  <2> QED BY <2>1, <2>3, <2>4, StepEnter
<1>7. ASSUME NEW m \in Masters, CollectEvents(m) PROVE LoopInv'
  BY <1>7, StepCollect
<1>8. ASSUME NEW m \in Masters, ReportEvents(m) PROVE LoopInv'
  BY <1>8, StepReport
<1>9. CASE UNCHANGED vars
  <2>1. UNCHANGED <<created, slave_open_count, pending_events, sem_ready, creating, node, conn, sem,
                    op, pc, count, asleep, ring, in, out, got, temp, told, misled>>
    BY <1>9 DEF vars, life_vars, call_vars, data_vars, event_vars
  <2>2. (LoopType <=> LoopType') /\ (CallsKnown <=> CallsKnown') /\ (ChannelKnown <=> ChannelKnown')
    BY <2>1 DEF LoopType, CallsKnown, MasterConn, ChannelKnown
  <2>3. (RingsKept <=> RingsKept') /\ (EventsKnown <=> EventsKnown')
    BY <2>1 DEF RingsKept, EventsKnown, BetweenBits
  <2>4. ReadersWoken <=> ReadersWoken'
    BY <2>1 DEF ReadersWoken, BetweenBits, WaitCondition, PollReady, PeerGone, Cnt, Space, Dir
  <2> QED BY <2>2, <2>3, <2>4 DEF LoopInv
<1>10. ASSUME Next PROVE LoopInv'
  <2>1. \A n \in 0..MaxCount : n \in Nat
    BY LoopAssumption
  <2>2. 0 \in Nat
    OBVIOUS
  <2> QED BY <1>1, <1>2, <1>3, <1>4, <1>5, <1>6, <1>7, <1>8, <1>10, <2>1, <2>2, Zenon DEF Next
<1> QED BY <1>9, <1>10

(* The invariant holds in every reachable state.                           *)
LEMMA LoopInvariant == Spec => []LoopInv
BY LoopInvInit, LoopInvStep, PTL DEF Spec

(* Each ring is a FIFO of the bytes written to it, whatever is opened,     *)
(* closed, created again or interrupted, and wherever the two-piece copies *)
(* of read() and write() wrap around: nothing is overwritten, skipped or   *)
(* read twice (read_slave, read_master, write_slave, write_master).        *)
THEOREM RingsAreFifo == Spec => []RingIsFifo
<1>1. LoopInv => RingIsFifo
  <2> SUFFICES ASSUME LoopInv, NEW d \in Dirs
               PROVE  /\ in[d] = out[d] + Cnt(d)
                      /\ Take(ring[d], Cnt(d)) = [i \in 1..Cnt(d) |-> out[d] + i]
                      /\ got[d] = [i \in 1..Len(got[d]) |-> out[d] - Len(got[d]) + i]
    BY DEF RingIsFifo
  <2>1. /\ ring[d] \in RingType /\ in[d] \in Nat /\ out[d] \in Nat /\ got[d] \in Seq(Nat)
        /\ RingHolds(ring[d], out[d], in[d], got[d])
    BY CntType DEF LoopInv
  <2>2. PICK r, k, n, g : r = ring[d] /\ k = out[d] /\ n = in[d] /\ g = got[d]
    OBVIOUS
  <2>3. r \in RingType /\ k \in Nat /\ n \in Nat /\ g \in Seq(Nat) /\ RingHolds(r, k, n, g)
    BY <2>1, <2>2, Zenon
  <2>4. PICK a : a = CIRC_CNT(r.head, r.tail, BUFSIZE)
    OBVIOUS
  <2>5. /\ n = k + a /\ Take(r, a) = [i \in 1..a |-> k + i]
        /\ g = [i \in 1..Len(g) |-> k - Len(g) + i]
    BY <2>3, <2>4, HoldsFifo
  <2>6. Cnt(d) = a
    BY <2>2, <2>4 DEF Cnt
  <2> QED BY <2>2, <2>5, <2>6
<1> QED BY <1>1, LoopInvariant, PTL

(* A channel that is created only when nobody uses it has one slave at     *)
(* most, and slave_open_count counts it (open_slave, close_slave).         *)
THEOREM SlaveIsAlone ==
  ASSUME Orderly
  PROVE  Spec => []OneSlave
<1>1. LoopInv => OneSlave
  <2> SUFFICES ASSUME LoopInv PROVE OneSlave
    OBVIOUS
  <2>1. \/ conn \cap Slaves = {} /\ slave_open_count = 0
        \/ \E s \in Slaves : conn \cap Slaves = {s} /\ slave_open_count = 1
    BY DEF LoopInv, ChannelKnown
  <2>2. Cardinality({}) = 0 /\ \A s : Cardinality({s}) = 1
    BY FS_EmptySet, FS_Singleton
  <2>3. CASE conn \cap Slaves = {} /\ slave_open_count = 0
    BY <2>2, <2>3 DEF OneSlave
  <2>4. ASSUME NEW s \in Slaves, conn \cap Slaves = {s} /\ slave_open_count = 1 PROVE OneSlave
    BY <2>2, <2>4 DEF OneSlave
  <2> QED BY <2>1, <2>3, <2>4
<1> QED BY <1>1, LoopInvariant, PTL

(* The close() that leaves the channel without master and slave removes    *)
(* the device node, and no other one does (close_slave, close_master),     *)
(* whether device_create() had made one or not, if the channel is created  *)
(* only when nobody uses it.                                               *)
THEOREM NodeStays ==
  ASSUME Orderly
  PROVE  Spec => NodeUntilLastClose
<1> DEFINE Kept == node' <=> node /\ (created' \/ conn' # {})
<1>1. ASSUME LoopInv, Next, NEW t \in Threads, op[t] = "close", op'[t] = "none" PROVE Kept
  <2>0. LoopType /\ CallsKnown /\ ChannelKnown /\ Masters \cap Slaves = {}
    BY <1>1, LoopAssumption DEF LoopInv
  <2>1. CASE SlaveClosed(t)
    <3>1. /\ pc[t] = "bits" /\ op[t] = "close" /\ (node' <=> node /\ created)
          /\ conn' = conn /\ created' = created
      BY <2>1 DEF SlaveClosed
    <3>2. conn \cap Slaves = {}
      BY <2>0, <3>1 DEF CallsKnown, ChannelKnown
    <3>3. conn # {} => created
      BY <2>0, <3>2 DEF CallsKnown, MasterConn, LoopType, Threads
    <3> QED BY <3>1, <3>3
  <2>2. CASE CloseMaster(t)
    <3>1. /\ (node' <=> node /\ slave_open_count > 0) /\ created' = FALSE
          /\ conn' = conn \ Masters
      BY <2>2 DEF CloseMaster
    <3>2. slave_open_count > 0 <=> conn \cap Slaves # {}
      BY <2>0 DEF ChannelKnown
    <3>3. conn' # {} <=> conn \cap Slaves # {}
      BY <2>0, <3>1 DEF LoopType, Threads
    <3> QED BY <3>1, <3>2, <3>3
  <2>3. SlaveClosed(t) \/ CloseMaster(t)
    <3>1. op \in [Threads -> {"none", "read", "write", "open", "close", "pollin", "pollout", "events"}]
      BY <2>0 DEF LoopType
    <3>2. ASSUME NEW u \in Threads, op'[t] # op[t], Return(u) PROVE u = t
      BY <3>1, <3>2 DEF Return
    <3>3. op'[t] # op[t]
      BY <1>1
    <3>4. ~CreateBegin /\ ~CreateEnd
      BY <3>3 DEF CreateBegin, CreateEnd, call_vars
    <3>5. ASSUME NEW u \in Threads, NEW o \in {"read", "write", "open", "close", "pollin", "pollout"},
                 NEW n, Call(u, o, n)
          PROVE  FALSE
      BY <1>1, <3>1, <3>5 DEF Call
    <3>6. ASSUME NEW u \in Threads, Down(u) \/ Wait(u) \/ Interrupt(u) PROVE FALSE
      <4>1. Return(u)
        BY <3>3, <3>6 DEF Down, Wait, Interrupt, Goto
      <4>2. op[u] # "close"
        BY <2>0, <3>6, <4>1, <3>3 DEF Down, Wait, Interrupt, Goto, CallsKnown
      <4> QED BY <1>1, <3>2, <3>3, <4>1, <4>2
    <3>7. ASSUME NEW u \in Threads, Body(u) PROVE SlaveClosed(t) \/ CloseMaster(t)
      <4>1. CASE Read(u) \/ Write(u) \/ Poll(u)
        <5>1. Return(u) /\ op[u] # "close"
          BY <3>3, <4>1 DEF Read, Write, Poll, Fails, Blocks, Goto, Inside
        <5> QED BY <1>1, <3>2, <3>3, <5>1
      <4>2. CASE CloseSlave(u)
        BY <3>3, <4>2 DEF CloseSlave, Goto
      <4>3. CASE SlaveClosed(u)
        BY <3>2, <3>3, <4>3 DEF SlaveClosed
      <4>4. CASE CloseMaster(u)
        BY <3>2, <3>3, <4>4 DEF CloseMaster
      <4> QED BY <3>7, <4>1, <4>2, <4>3, <4>4 DEF Body
    <3>8. ASSUME NEW s \in Slaves, OpenSlave(s) \/ SlaveOpened(s) PROVE FALSE
      <4>1. Return(s) /\ op[s] # "close" /\ s \in Threads
        BY <3>3, <3>8 DEF OpenSlave, SlaveOpened, Goto, Inside, Threads
      <4> QED BY <1>1, <3>2, <3>3, <4>1
    <3>9. ASSUME NEW m \in Masters, GetEvents(m) \/ CollectEvents(m) \/ ReportEvents(m) PROVE FALSE
      <4>1. m \in Threads
        BY DEF Threads
      <4>2. CASE GetEvents(m)
        BY <1>1, <3>1, <4>1, <4>2 DEF GetEvents
      <4>3. CASE CollectEvents(m)
        BY <3>3, <4>3 DEF CollectEvents, Collect, Goto
      <4>4. CASE ReportEvents(m)
        <5>1. Return(m) /\ op[m] # "close"
          BY <2>0, <4>1, <4>4 DEF ReportEvents, CallsKnown, Collecting
        <5> QED BY <1>1, <3>2, <3>3, <4>1, <5>1
      <4> QED BY <3>9, <4>2, <4>3, <4>4
    <3> QED BY <1>1, <3>4, <3>5, <3>6, <3>7, <3>8, <3>9, Zenon DEF Next
  <2> QED BY <2>1, <2>2, <2>3
<1>2. LoopInv /\ [Next]_vars =>
        [\A t \in Threads : op[t] = "close" /\ op'[t] = "none" => Kept]_vars
  BY <1>1
<1> QED BY <1>2, LoopInvariant, PTL DEF Spec, NodeUntilLastClose

(* No reader sleeps although its condition holds: write(), open() and both *)
(* kinds of close() wake them, and create_slave_dev() cannot deprive them  *)
(* of it (wait_event_interruptible, poll_wait), unless events that were    *)
(* cleared are put back, which wakes nobody; a slave in the middle of its  *)
(* open() or close() has yet to wake the master's readers.                 *)
THEOREM ReadersAreWoken ==
  ASSUME ~Faults
  PROVE  Spec => []ReadersWoken
<1>1. LoopInv => ReadersWoken
  BY DEF LoopInv
<1> QED BY <1>1, LoopInvariant, PTL

(* When no event is pending and none is being reported, the master was     *)
(* last told the truth about its slave (EQ3LOOP_IOCGEVENTS), unless the    *)
(* ioctl read the state bit while a slave was between its event bit and    *)
(* its state bit (open_slave, close_slave).                                *)
THEOREM MasterIsTold ==
  ASSUME Orderly, ~Faults
  PROVE  Spec => []MasterKnowsState
<1>1. LoopInv => MasterKnowsState
  <2> SUFFICES ASSUME LoopInv, pending_events \cap {Opened, Closed} = {}, ~misled,
                      \A m \in Masters : op[m] # "events"
               PROVE  told = (slave_open_count > 0)
    BY DEF MasterKnowsState
  <2>1. told <=> slave_open_count > 0
    BY DEF LoopInv, EventsKnown
  <2>2. told \in BOOLEAN
    BY DEF LoopInv, LoopType
  <2>3. CASE told
    <3>1. told = TRUE /\ (slave_open_count > 0) = TRUE
      BY <2>1, <2>2, <2>3
    <3> QED BY <3>1, Zenon
  <2>4. CASE ~told
    <3>1. told = FALSE /\ (slave_open_count > 0) = FALSE
      BY <2>1, <2>2, <2>4
    <3> QED BY <3>1, Zenon
  <2> QED BY <2>3, <2>4
<1> QED BY <1>1, LoopInvariant, PTL
=============================================================================
