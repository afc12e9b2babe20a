------------------------- MODULE RawUartTx_proofs --------------------------
(* Proofs about the transmit side of the raw UART (RawUartTx), for any     *)
(* number of connections, priorities, frame, chunk and transfer sizes.     *)
EXTENDS RawUartTx, TLAPS, SequenceTheorems

(* The chunk loop sends no more than what is left of the frame.            *)
LEMMA BurstsBounded ==
  ASSUME NEW rest \in Nat, NEW ready \in {0, 1}, NEW n \in Bursts(rest, ready)
  PROVE  n \in 0..rest
<1>1. PICK r \in ready..ChunkSize :
        n = IF r * BulkSize <= rest THEN r * BulkSize ELSE rest
  BY DEF Bursts
<1>2. r \in Nat
  BY <1>1
<1>3. r * BulkSize \in Nat
  BY <1>2, TxAssumption
<1> QED BY <1>1, <1>3

(* What is left of a frame is a natural number.                            *)
LEMMA RestNat ==
  ASSUME TypeOK, NEW c \in Conns
  PROVE  /\ Rest(c) \in Nat
         /\ tx_buf_index[c] + Rest(c) <= MaxLength
BY TxAssumption DEF TypeOK, Rest

(* The wire after n more characters of the frame of c.                     *)
LEMMA WireGrows ==
  ASSUME TypeOK, NEW c \in Conns, NEW n \in 0..Rest(c), txbuf[c] >= 1,
         TxQueuedUnlocked(c, n)
  PROVE  /\ wire' \in Seq(Chars)
         /\ Len(wire') = Len(wire) + n
         /\ \A i \in 1..Len(wire) : wire'[i] = wire[i]
         /\ \A i \in 1..n : wire'[Len(wire) + i] = Char(c, txbuf[c], tx_buf_index[c] + i)
<1> DEFINE s == NextChars(c, n)
<1>1. n \in Nat /\ tx_buf_index[c] \in Nat /\ tx_buf_index[c] + n <= MaxLength
  BY RestNat, TxAssumption DEF TypeOK
<1>2. txbuf[c] \in 1..MaxWrites
  BY TxAssumption DEF TypeOK
<1>3. \A i \in 1..n : Char(c, txbuf[c], tx_buf_index[c] + i) \in Chars
  BY <1>1, <1>2, TxAssumption DEF Char, Chars
<1>4. s \in Seq(Chars) /\ Len(s) = n
  <2>1. s \in [1..n -> Chars]
    BY <1>3 DEF NextChars
  <2> QED BY <2>1, <1>1, SeqDef
<1>5. wire \in Seq(Chars) /\ wire' = wire \o s
  BY DEF TypeOK, TxQueuedUnlocked
<1>6. /\ wire' \in Seq(Chars)
      /\ Len(wire') = Len(wire) + n
      /\ \A i \in 1..(Len(wire) + n) :
           wire'[i] = IF i <= Len(wire) THEN wire[i] ELSE s[i - Len(wire)]
  BY <1>4, <1>5, ConcatProperties
<1>7. Len(wire) \in Nat
  BY <1>5, LenProperties
<1>8. \A i \in 1..n : s[i] = Char(c, txbuf[c], tx_buf_index[c] + i)
  BY DEF NextChars
<1>9. ASSUME NEW i \in 1..Len(wire) PROVE wire'[i] = wire[i]
  BY <1>6, <1>7, <1>1
<1>10. ASSUME NEW i \in 1..n
       PROVE wire'[Len(wire) + i] = Char(c, txbuf[c], tx_buf_index[c] + i)
  <2>1. /\ Len(wire) + i \in 1..(Len(wire) + n) /\ ~(Len(wire) + i <= Len(wire))
        /\ (Len(wire) + i) - Len(wire) = i
    BY <1>7, <1>1
  <2>2. wire'[Len(wire) + i] = s[i]
    BY <1>6, <2>1
  <2> QED BY <1>8, <2>2
<1> QED BY <1>6, <1>9, <1>10

-----------------------------------------------------------------------------
(* The steps that send characters keep the types.                          *)
LEMMA SendingTyped ==
  ASSUME TypeOK, NEW c \in Conns, NEW n \in 0..Rest(c), txbuf[c] >= 1,
         TxQueuedUnlocked(c, n)
  PROVE  /\ wire' \in Seq(Chars)
         /\ tx_buf_index' \in [Conns -> 0..MaxLength]
         /\ tx_connection' \in {c, NULL}
         /\ tx_irq' \in BOOLEAN
         /\ writeq' \in {{}, writeq}
<1>a. Rest(c) \in Nat /\ tx_buf_index[c] + Rest(c) <= MaxLength
  BY RestNat
<1>b. tx_buf_index[c] \in Nat
  BY TxAssumption DEF TypeOK
<1>1. tx_buf_index[c] + n \in 0..MaxLength
  BY <1>a, <1>b, TxAssumption
<1>2. wire' \in Seq(Chars)
  BY WireGrows
<1> QED BY <1>1, <1>2 DEF TypeOK, TxQueuedUnlocked

(* TypeInv holds initially.                                                *)
LEMMA TypeInvInit == Init => TypeInv
<1>1. Init => wire \in Seq(Chars)
  BY EmptySeq DEF Init
<1>2. Init => TypeOK
  <2>1. 0 \in 0..MaxLength /\ 0 \in 0..MaxWrites /\ 0 \in Priorities
    BY TxAssumption
  <2> QED BY <1>1, <2>1 DEF Init, TypeOK
<1>3. Init => FrameCopied
  BY DEF Init, FrameCopied, Busy
<1> QED BY <1>2, <1>3 DEF TypeInv

(* TypeInv is inductive.                                                   *)
LEMMA TypeInvStep == TypeInv /\ [Next]_vars => TypeInv'
<1> SUFFICES ASSUME TypeInv, [Next]_vars PROVE TypeInv'
  OBVIOUS
<1> USE TxAssumption DEF TypeInv
<1>1. ASSUME NEW ready \in {0, 1}, TxQueued(ready) PROVE TypeInv'
  <2>1. PICK n \in Bursts(Rest(tx_connection), ready) : TxQueuedUnlocked(tx_connection, n)
    BY <1>1 DEF TxQueued
  <2>2. tx_connection \in Conns /\ txbuf[tx_connection] >= 1
    BY <1>1 DEF TxQueued, TypeOK, FrameCopied
  <2>3. n \in 0..Rest(tx_connection)
    BY <2>2, RestNat, BurstsBounded
  <2>4. /\ wire' \in Seq(Chars)
        /\ tx_buf_index' \in [Conns -> 0..MaxLength]
        /\ tx_connection' \in {tx_connection, NULL}
        /\ tx_irq' \in BOOLEAN
        /\ writeq' \in {{}, writeq}
    BY <2>1, <2>2, <2>3, SendingTyped
  <2> QED BY <1>1, <2>2, <2>4 DEF TxQueued, TypeOK, FrameCopied
<1>2. ASSUME NEW c \in Conns, NEW n \in 0..(MaxLength + 1), Write(c, n) PROVE TypeInv'
  <2>a. txbuf' = txbuf \/ txbuf' = [txbuf EXCEPT ![c] = txbuf[c] + 1]
    BY <1>2 DEF Write
  <2>b. txbuf \in [Conns -> 0..MaxWrites] /\ txbuf[c] + 1 \in 0..MaxWrites
    BY <1>2 DEF Write, TypeOK
  <2>1. txbuf' \in [Conns -> 0..MaxWrites] /\ \A d \in Conns : txbuf'[d] >= txbuf[d]
    BY <2>a, <2>b
  <2>c. count' = count \/ (n <= MaxLength /\ count' = [count EXCEPT ![c] = n])
    BY <1>2 DEF Write
  <2>d. count \in [Conns -> 0..MaxLength]
    BY DEF TypeOK
  <2>2. count' \in [Conns -> 0..MaxLength]
    BY <2>c, <2>d
  <2>3. pc' = [pc EXCEPT ![c] = "idle"] \/ pc' = [pc EXCEPT ![c] = "copied"]
    BY <1>2 DEF Write, Return, Goto
  <2>4. ret' \in [Conns -> 0..MaxLength \cup {EFAULT, EMSGSIZE, ERESTARTSYS}]
    BY <1>2 DEF Write, Return, TypeOK
  <2>5. TypeOK'
    BY <1>2, <2>1, <2>2, <2>3, <2>4 DEF Write, TypeOK
  <2>6. pc'[c] \in Busy => txbuf'[c] >= 1
    BY <1>2 DEF Write, Return, Goto, TypeOK, Busy
  <2>7. FrameCopied'
    BY <1>2, <2>1, <2>3, <2>6 DEF Write, Return, Goto, TypeOK, FrameCopied, Busy
  <2> QED BY <2>5, <2>7
<1>3. ASSUME NEW c \in Conns, ResetIndex(c) PROVE TypeInv'
  <2>0. 0 \in 0..MaxLength /\ tx_buf_index \in [Conns -> 0..MaxLength]
    BY DEF TypeOK
  <2>1. tx_buf_index' \in [Conns -> 0..MaxLength]
    <3>1. tx_buf_index' = [tx_buf_index EXCEPT ![c] = 0] \/ tx_buf_index' = tx_buf_index
      BY <1>3 DEF ResetIndex
    <3> QED BY <2>0, <3>1
  <2>2. TypeOK'
    BY <1>3, <2>1 DEF ResetIndex, Goto, TypeOK
  <2>3. FrameCopied'
    BY <1>3 DEF ResetIndex, Goto, TypeOK, FrameCopied, Busy
  <2> QED BY <2>2, <2>3
<1>4. ASSUME NEW c \in Conns, SetLength(c) PROVE TypeInv'
  BY <1>4 DEF SetLength, Goto, TypeOK, FrameCopied, Busy
<1>5. ASSUME NEW c \in Conns, AcquireSender(c) PROVE TypeInv'
  <2>1. txbuf[c] >= 1
    BY <1>5 DEF AcquireSender, FrameCopied, Busy
  <2>2. CASE tx_connection = NULL
    <3>1. PICK n \in Bursts(Rest(c), 0) : TxQueuedUnlocked(c, n)
      BY <1>5, <2>2 DEF AcquireSender, MayAcquire
    <3>2. n \in 0..Rest(c)
      BY RestNat, BurstsBounded
    <3>3. /\ wire' \in Seq(Chars)
          /\ tx_buf_index' \in [Conns -> 0..MaxLength]
          /\ tx_connection' \in {c, NULL}
          /\ tx_irq' \in BOOLEAN
          /\ writeq' \in {{}, writeq}
      BY <2>1, <3>1, <3>2, SendingTyped
    <3>4. Goto(c, "complete")
      BY <1>5, <2>2 DEF AcquireSender, MayAcquire
    <3> QED BY <1>5, <2>1, <3>3, <3>4 DEF AcquireSender, Goto, TypeOK, FrameCopied, Busy
  <2>3. CASE tx_connection # NULL
    BY <1>5, <2>1, <2>3 DEF AcquireSender, Goto, TypeOK, FrameCopied, Busy
  <2> QED BY <2>2, <2>3
<1>6. ASSUME NEW c \in Conns, SendCompleted(c) PROVE TypeInv'
  BY <1>6 DEF SendCompleted, conn_vars, Return, Goto, TypeOK, FrameCopied, Busy
<1>7. ASSUME NEW c \in Conns, Interrupt(c) PROVE TypeInv'
  BY <1>7 DEF Interrupt, conn_vars, Return, Goto, TypeOK, FrameCopied, Busy
<1>8. ASSUME NEW c \in Conns, NEW p \in Priorities, SetPriority(c, p) PROVE TypeInv'
  BY <1>8 DEF SetPriority, TypeOK, FrameCopied, Busy
<1>9. ASSUME NEW c \in Conns, Poll(c) PROVE TypeInv'
  BY <1>9 DEF Poll, conn_vars, Goto, TypeOK, FrameCopied, Busy
<1>10. CASE UNCHANGED vars
  BY <1>10 DEF vars, TypeOK, FrameCopied
<1> QED
  BY <1>1, <1>2, <1>3, <1>4, <1>5, <1>6, <1>7, <1>8, <1>9, <1>10 DEF Next

(* Every variable keeps its type: in particular tx_buf_index never leaves  *)
(* txbuf, whatever chunk and transfer sizes the driver declares and        *)
(* whichever wait of write() a signal ends.                                *)
THEOREM TypeCorrect == Spec => []TypeOK
<1>1. TypeInv => TypeOK
  BY DEF TypeInv
<1> QED BY <1>1, TypeInvInit, TypeInvStep, PTL DEF Spec

-----------------------------------------------------------------------------
(* Sending characters ends with an idle sender and everybody awake, or     *)
(* with c as the sender and the wait queue as it was.                      *)
LEMMA SendingOutcome ==
  ASSUME NEW c \in Conns, NEW n, TxQueuedUnlocked(c, n)
  PROVE  \/ tx_connection' = NULL /\ tx_irq' = FALSE /\ writeq' = {}
         \/ tx_connection' = c /\ tx_irq' = TRUE /\ writeq' = writeq
BY DEF TxQueuedUnlocked

(* SenderInv is inductive as long as no signal ends the wait for           *)
(* completion.                                                             *)
LEMMA SenderInvStep ==
  ASSUME "complete" \notin Interruptible
  PROVE  TypeInv /\ SenderInv /\ [Next]_vars => SenderInv'
<1> SUFFICES ASSUME TypeInv, SenderInv, [Next]_vars PROVE SenderInv'
  OBVIOUS
<1> USE TxAssumption DEF TypeInv, SenderInv
<1>1. ASSUME NEW ready \in {0, 1}, TxQueued(ready) PROVE SenderInv'
  <2>1. tx_connection \in Conns
    BY <1>1 DEF TxQueued, TypeOK
  <2>2. \/ tx_connection' = NULL /\ tx_irq' = FALSE /\ writeq' = {}
        \/ tx_connection' = tx_connection /\ tx_irq' = TRUE /\ writeq' = writeq
    BY <1>1, <2>1, SendingOutcome DEF TxQueued
  <2> QED BY <1>1, <2>1, <2>2 DEF TxQueued, TypeOK, SenderIsWriting, NoLostWakeup, SleepersWait
<1>2. ASSUME NEW c \in Conns, NEW n \in 0..(MaxLength + 1), Write(c, n) PROVE SenderInv'
  BY <1>2 DEF Write, Return, Goto, TypeOK, SenderIsWriting, NoLostWakeup, SleepersWait
<1>3. ASSUME NEW c \in Conns, ResetIndex(c) PROVE SenderInv'
  BY <1>3 DEF ResetIndex, Goto, TypeOK, SenderIsWriting, NoLostWakeup, SleepersWait
<1>4. ASSUME NEW c \in Conns, SetLength(c) PROVE SenderInv'
  BY <1>4 DEF SetLength, Goto, TypeOK, SenderIsWriting, NoLostWakeup, SleepersWait
<1>5. ASSUME NEW c \in Conns, AcquireSender(c) PROVE SenderInv'
  <2>1. CASE tx_connection = NULL
    <3>1. Goto(c, "complete") /\ writeq = {}
      BY <1>5, <2>1 DEF AcquireSender, MayAcquire, NoLostWakeup, SleepersWait
    <3>2. \/ tx_connection' = NULL /\ tx_irq' = FALSE /\ writeq' = {}
          \/ tx_connection' = c /\ tx_irq' = TRUE /\ writeq' = writeq
      BY <1>5, <2>1, SendingOutcome DEF AcquireSender, MayAcquire
    <3> QED BY <3>1, <3>2 DEF Goto, TypeOK, SenderIsWriting, NoLostWakeup, SleepersWait
  <2>2. CASE tx_connection # NULL /\ MayAcquire(c)
    BY <1>5, <2>2 DEF AcquireSender, Goto, TypeOK, SenderIsWriting, NoLostWakeup, SleepersWait
  <2>3. CASE ~MayAcquire(c)
    <3>0. tx_connection \in Conns /\ ~(priority[tx_connection] < priority[c])
      BY <2>3 DEF MayAcquire, TypeOK
    <3>1. priority[tx_connection] >= priority[c]
      <4>1. priority[tx_connection] \in Nat /\ priority[c] \in Nat
        BY <3>0 DEF TypeOK
      <4> QED BY <3>0, <4>1
    <3>2. /\ writeq' = writeq \cup {c}
          /\ pc[c] = "acquire"
          /\ UNCHANGED <<pc, tx_connection, tx_irq, priority>>
      BY <1>5, <2>3 DEF AcquireSender, MayAcquire
    <3> QED BY <3>0, <3>1, <3>2 DEF SenderIsWriting, NoLostWakeup, SleepersWait
  <2> QED BY <2>1, <2>2, <2>3
<1>6. ASSUME NEW c \in Conns, SendCompleted(c) PROVE SenderInv'
  BY <1>6 DEF SendCompleted, conn_vars, Return, Goto, TypeOK, SenderIsWriting, NoLostWakeup, SleepersWait
<1>7. ASSUME NEW c \in Conns, Interrupt(c) PROVE SenderInv'
  BY <1>7 DEF Interrupt, conn_vars, Return, Goto, TypeOK, SenderIsWriting, NoLostWakeup, SleepersWait
<1>8. ASSUME NEW c \in Conns, NEW p \in Priorities, SetPriority(c, p) PROVE SenderInv'
  BY <1>8 DEF SetPriority, TypeOK, SenderIsWriting, NoLostWakeup, SleepersWait
<1>9. ASSUME NEW c \in Conns, Poll(c) PROVE SenderInv'
  BY <1>9 DEF Poll, MayAcquire, conn_vars, Goto, TypeOK, SenderIsWriting, NoLostWakeup, SleepersWait
<1>10. CASE UNCHANGED vars
  BY <1>10 DEF vars, SenderIsWriting, NoLostWakeup, SleepersWait
<1> QED
  BY <1>1, <1>2, <1>3, <1>4, <1>5, <1>6, <1>7, <1>8, <1>9, <1>10 DEF Next

-----------------------------------------------------------------------------
(* The wire after sending n more characters of the frame of c, when it     *)
(* held exactly the characters of that frame up to tx_buf_index.           *)
LEMMA SendingWire ==
  ASSUME TypeOK, WireInv, NEW c \in Conns, NEW n \in 0..Rest(c), txbuf[c] >= 1,
         TxQueuedUnlocked(c, n), UNCHANGED txbuf,
         \A k \in 1..MaxLength : OnWire(c, k) <=> k <= tx_buf_index[c],
         tx_buf_index[c] > 0 =>
           Len(wire) > 0 /\ wire[Len(wire)] = Char(c, txbuf[c], tx_buf_index[c])
  PROVE  /\ \A k \in 1..MaxLength : OnWire(c, k)' <=> k <= tx_buf_index'[c]
         /\ \A d \in Conns \ {c} : \A k \in 1..MaxLength : OnWire(d, k)' <=> OnWire(d, k)
         /\ \A d \in Conns : \A i \in 1..Len(wire') :
              wire'[i].conn = d => wire'[i].frame <= txbuf'[d]
         /\ tx_buf_index'[c] > 0 =>
              Len(wire') > 0 /\ wire'[Len(wire')] = Char(c, txbuf[c], tx_buf_index'[c])
         /\ FramesContiguous'
         /\ NoCharTwice'
<1> DEFINE L == Len(wire)
           x == tx_buf_index[c]
           f == txbuf[c]
<1>1. /\ L \in Nat /\ wire \in Seq(Chars)
      /\ \A i \in 1..L : wire[i] \in Chars
  BY LenProperties, ElementOfSeq DEF TypeOK
<1>2. /\ Len(wire') = L + n
      /\ \A i \in 1..L : wire'[i] = wire[i]
      /\ \A i \in 1..n : wire'[L + i] = Char(c, f, x + i)
  BY WireGrows
<1>3. n \in Nat /\ x \in Nat /\ x + n <= MaxLength /\ f \in Nat /\ MaxLength \in Nat
  BY RestNat, TxAssumption DEF TypeOK
<1>4. tx_buf_index'[c] = x + n
  BY DEF TxQueuedUnlocked, TypeOK
<1>5. \A i \in 1..(L + n) : \/ i \in 1..L /\ wire'[i] = wire[i]
                            \/ i - L \in 1..n /\ wire'[i] = Char(c, f, x + (i - L))
  <2>1. SUFFICES ASSUME NEW i \in 1..(L + n), i \notin 1..L
                 PROVE i - L \in 1..n /\ wire'[i] = Char(c, f, x + (i - L))
    BY <1>2
  <2>2. i - L \in 1..n /\ L + (i - L) = i
    BY <1>1, <1>3, <2>1
  <2> QED BY <1>2, <2>2
<1>6. \A k \in 1..MaxLength : OnWire(c, k)' <=> k <= x + n
  <2> SUFFICES ASSUME NEW k \in 1..MaxLength PROVE OnWire(c, k)' <=> k <= x + n
    OBVIOUS
  <2>1. ASSUME k <= x PROVE OnWire(c, k)'
    <3>1. PICK i \in 1..L : wire[i] = Char(c, f, k)
      BY <2>1 DEF OnWire
    <3>2. i \in 1..Len(wire') /\ wire'[i] = Char(c, f, k)
      BY <3>1, <1>1, <1>2, <1>3
    <3> QED BY <3>2 DEF OnWire
  <2>2. ASSUME k > x, k <= x + n PROVE OnWire(c, k)'
    <3>1. k - x \in 1..n /\ x + (k - x) = k /\ L + (k - x) \in 1..Len(wire')
      BY <2>2, <1>1, <1>2, <1>3
    <3>2. wire'[L + (k - x)] = Char(c, f, k)
      BY <3>1, <1>2
    <3> QED BY <3>1, <3>2 DEF OnWire
  <2>3. ASSUME OnWire(c, k)' PROVE k <= x + n
    <3>1. PICK i \in 1..(L + n) : wire'[i] = Char(c, f, k)
      BY <2>3, <1>2 DEF OnWire
    <3>2. CASE i \in 1..L
      <4>1. OnWire(c, k)
        BY <3>1, <3>2, <1>2 DEF OnWire
      <4> QED BY <4>1, <1>3
    <3>3. CASE i - L \in 1..n /\ wire'[i] = Char(c, f, x + (i - L))
      <4>1. k = x + (i - L)
        BY <3>1, <3>3 DEF Char
      <4> QED BY <4>1, <3>3, <1>3
    <3> QED BY <3>1, <3>2, <3>3, <1>5
  <2> QED BY <2>1, <2>2, <2>3, <1>3
<1>7. ASSUME NEW d \in Conns \ {c}, NEW k \in 1..MaxLength
      PROVE  OnWire(d, k)' <=> OnWire(d, k)
  <2>1. ASSUME OnWire(d, k) PROVE OnWire(d, k)'
    <3>1. PICK i \in 1..L : wire[i] = Char(d, txbuf[d], k)
      BY <2>1 DEF OnWire
    <3>2. i \in 1..Len(wire') /\ wire'[i] = Char(d, txbuf[d], k)
      BY <3>1, <1>1, <1>2, <1>3
    <3> QED BY <3>2 DEF OnWire
  <2>2. ASSUME OnWire(d, k)' PROVE OnWire(d, k)
    <3>1. PICK i \in 1..(L + n) : wire'[i] = Char(d, txbuf[d], k)
      BY <2>2, <1>2 DEF OnWire
    <3>2. wire'[i].conn = d /\ d # c
      BY <3>1 DEF Char
    <3>3. i \in 1..L /\ wire[i] = Char(d, txbuf[d], k)
      <4>1. CASE i \in 1..L /\ wire'[i] = wire[i]
        BY <3>1, <4>1
      <4>2. CASE wire'[i] = Char(c, f, x + (i - L))
        BY <3>2, <4>2 DEF Char
      <4> QED BY <4>1, <4>2, <1>5
    <3> QED BY <3>3 DEF OnWire
  <2> QED BY <2>1, <2>2
<1>8. ASSUME NEW d \in Conns, NEW i \in 1..Len(wire'), wire'[i].conn = d
      PROVE  wire'[i].frame <= txbuf'[d]
  <2>1. CASE i \in 1..L
    BY <2>1, <1>2, <1>8 DEF WireInv, WireMatches, FrameMatches
  <2>2. CASE i - L \in 1..n /\ wire'[i] = Char(c, f, x + (i - L))
    BY <2>2, <1>3, <1>8 DEF Char
  <2> QED BY <2>1, <2>2, <1>2, <1>5
<1>9. ASSUME tx_buf_index'[c] > 0
      PROVE  Len(wire') > 0 /\ wire'[Len(wire')] = Char(c, f, tx_buf_index'[c])
  <2>1. CASE n = 0
    BY <2>1, <1>1, <1>2, <1>3, <1>4, <1>9
  <2>2. CASE n > 0
    <3>1. n \in 1..n /\ L + n > 0
      BY <2>2, <1>1, <1>3
    <3> QED BY <3>1, <1>2, <1>4
  <2> QED BY <2>1, <2>2, <1>3
<1>10. FramesContiguous'
  <2>1. SUFFICES ASSUME NEW i \in 1..(L + n - 1)
                 PROVE  Follows(wire'[i], wire'[i+1])
    BY <1>2 DEF FramesContiguous
  <2>2. CASE i + 1 \in 1..L
    <3>1. i \in 1..(L - 1) /\ i \in 1..L
      BY <2>2, <1>1
    <3>2. wire'[i] = wire[i] /\ wire'[i+1] = wire[i+1]
      BY <2>2, <3>1, <1>2
    <3> QED BY <3>1, <3>2 DEF WireInv, FramesContiguous
  <2>3. CASE i \in 1..L /\ i + 1 \notin 1..L
    <3>1. i = L /\ 1 \in 1..n /\ i + 1 = L + 1
      BY <2>1, <2>3, <1>1, <1>3
    <3>2. wire'[i+1] = Char(c, f, x + 1) /\ wire'[i] = wire[L]
      BY <3>1, <2>3, <1>2
    <3>3. CASE x > 0
      BY <3>1, <3>2, <3>3 DEF Char, Follows
    <3>4. CASE x = 0
      <4>1. wire[L] \in Chars
        BY <1>1, <2>3, <3>1
      <4>2. wire[L].conn # c \/ wire[L].frame # f
        <5>1. SUFFICES ASSUME wire[L].conn = c, wire[L].frame = f PROVE FALSE
          OBVIOUS
        <5>2. wire[L].pos \in 1..MaxLength /\ wire[L] = Char(c, f, wire[L].pos)
          BY <4>1, <5>1 DEF Char, Chars
        <5>3. OnWire(c, wire[L].pos)
          BY <5>2, <2>3, <3>1 DEF OnWire
        <5> QED BY <5>2, <5>3, <3>4
      <4> QED BY <3>2, <3>4, <4>2 DEF Char, Follows
    <3> QED BY <3>3, <3>4, <1>3
  <2>4. CASE i \notin 1..L
    <3>1. i \in 1..(L + n) /\ i + 1 \in 1..(L + n) /\ i + 1 \notin 1..L
      BY <2>1, <2>4, <1>1, <1>3
    <3>2. wire'[i] = Char(c, f, x + (i - L)) /\ wire'[i+1] = Char(c, f, x + (i + 1 - L))
      BY <2>4, <3>1, <1>5
    <3>3. x + (i + 1 - L) = x + (i - L) + 1
      BY <1>1, <1>3
    <3> QED BY <3>2, <3>3 DEF Char, Follows
  <2> QED BY <2>2, <2>3, <2>4
<1>11. NoCharTwice'
  <2>1. SUFFICES ASSUME NEW i \in 1..(L + n), NEW j \in 1..(L + n), wire'[i] = wire'[j]
                 PROVE  i = j
    BY <1>2 DEF NoCharTwice
  <2>2. ASSUME NEW a \in 1..(L + n), NEW b \in 1..(L + n), a \in 1..L, b \notin 1..L
        PROVE  wire'[a] # wire'[b]
    <3>1. b - L \in 1..n /\ wire'[b] = Char(c, f, x + (b - L)) /\ wire'[a] = wire[a]
      BY <2>2, <1>2, <1>5
    <3>2. x + (b - L) \in 1..MaxLength /\ x + (b - L) > x
      BY <3>1, <1>3
    <3>3. ~OnWire(c, x + (b - L))
      BY <3>2, <1>3
    <3> QED BY <3>1, <3>3, <2>2 DEF OnWire
  <2>3. CASE i \in 1..L /\ j \in 1..L
    BY <2>1, <2>3, <1>2 DEF WireInv, NoCharTwice
  <2>4. CASE i \notin 1..L /\ j \notin 1..L
    <3>0. wire'[i] = Char(c, f, x + (i - L)) /\ wire'[j] = Char(c, f, x + (j - L))
      BY <2>4, <1>5
    <3>1. x + (i - L) = x + (j - L)
      <4>1. wire'[i].pos = x + (i - L)
        BY <3>0 DEF Char
      <4>2. wire'[j].pos = x + (j - L)
        BY <3>0 DEF Char
      <4> QED BY <2>1, <4>1, <4>2
    <3> QED BY <3>1, <1>1, <1>3
  <2> QED BY <2>1, <2>2, <2>3, <2>4
<1> QED BY <1>4, <1>6, <1>7, <1>8, <1>9, <1>10, <1>11

(* A step that leaves the wire and the frame of d alone leaves what is on  *)
(* the wire of that frame alone.                                           *)
LEMMA WireKept ==
  ASSUME NEW d \in Conns, UNCHANGED wire, txbuf'[d] = txbuf[d], NEW k
  PROVE  OnWire(d, k)' <=> OnWire(d, k)
BY DEF OnWire

(* Nothing is on the wire of a frame that is just being copied.            *)
LEMMA NewFrameNotOnWire ==
  ASSUME TypeOK, WireMatches, NEW c \in Conns, UNCHANGED wire,
         txbuf'[c] = txbuf[c] + 1, NEW k
  PROVE  ~OnWire(c, k)'
<1>1. SUFFICES ASSUME NEW i \in 1..Len(wire), wire[i] = Char(c, txbuf[c] + 1, k) PROVE FALSE
  BY DEF OnWire
<1>2. wire[i].conn = c /\ wire[i].frame = txbuf[c] + 1
  BY <1>1 DEF Char
<1>3. wire[i].frame <= txbuf[c]
  BY <1>2 DEF WireMatches, FrameMatches
<1> QED BY <1>2, <1>3, TxAssumption DEF TypeOK

(* WireInv is inductive as long as no signal ends the wait for completion. *)
LEMMA WireInvStep ==
  ASSUME "complete" \notin Interruptible
  PROVE  TypeInv /\ SenderInv /\ WireInv /\ [Next]_vars => WireInv'
<1> SUFFICES ASSUME TypeInv, SenderInv, WireInv, [Next]_vars PROVE WireInv'
  OBVIOUS
<1> USE TxAssumption DEF TypeInv
<1>1. ASSUME NEW ready \in {0, 1}, TxQueued(ready) PROVE WireInv'
  <2>0. PICK c \in Conns : c = tx_connection
    BY <1>1 DEF TxQueued, TypeOK
  <2>1. c \in Conns /\ pc[c] = "complete" /\ txbuf[c] >= 1
    BY <1>1, <2>0 DEF TxQueued, TypeOK, SenderInv, SenderIsWriting, FrameCopied
  <2>2. PICK n \in Bursts(Rest(c), ready) : TxQueuedUnlocked(c, n)
    BY <1>1, <2>0 DEF TxQueued
  <2>3. n \in 0..Rest(c)
    BY <2>1, RestNat, BurstsBounded
  <2>4. UNCHANGED <<pc, count, txbuf, tx_buf_length, ret>>
    BY <1>1 DEF TxQueued
  <2>5. \A k \in 1..MaxLength : OnWire(c, k) <=> k <= tx_buf_index[c]
    BY <2>1 DEF WireInv, WireMatches, FrameMatches
  <2>6. tx_buf_index[c] > 0 =>
          Len(wire) > 0 /\ wire[Len(wire)] = Char(c, txbuf[c], tx_buf_index[c])
    BY <2>0, <1>1 DEF TxQueued, WireInv, WireEnd
  <2>7. /\ \A k \in 1..MaxLength : OnWire(c, k)' <=> k <= tx_buf_index'[c]
        /\ \A d \in Conns \ {c} : \A k \in 1..MaxLength : OnWire(d, k)' <=> OnWire(d, k)
        /\ \A d \in Conns : \A i \in 1..Len(wire') :
             wire'[i].conn = d => wire'[i].frame <= txbuf'[d]
        /\ tx_buf_index'[c] > 0 =>
             Len(wire') > 0 /\ wire'[Len(wire')] = Char(c, txbuf[c], tx_buf_index'[c])
        /\ FramesContiguous'
        /\ NoCharTwice'
    BY <2>1, <2>2, <2>3, <2>4, <2>5, <2>6, SendingWire
  <2>8. WireMatches'
    <3>1. FrameMatches(c)'
      BY <2>1, <2>4, <2>7 DEF FrameMatches, Busy
    <3>2. ASSUME NEW d \in Conns \ {c} PROVE FrameMatches(d)'
      <4>1. tx_buf_index'[d] = tx_buf_index[d]
        BY <2>2 DEF TxQueuedUnlocked, TypeOK
      <4> QED BY <2>4, <2>7, <4>1 DEF WireInv, WireMatches, FrameMatches
    <3> QED BY <3>1, <3>2 DEF WireMatches
  <2>9. WireEnd'
    BY <2>2, <2>4, <2>7 DEF WireEnd, TxQueuedUnlocked
  <2>10. Progress'
    <3>1. tx_buf_index' = [tx_buf_index EXCEPT ![c] = @ + n]
      BY <2>2 DEF TxQueuedUnlocked
    <3>2. tx_buf_index[c] <= tx_buf_length[c]
      BY <2>1 DEF WireInv, Progress
    <3>3. tx_buf_index'[c] <= tx_buf_length'[c]
      BY <2>1, <2>3, <2>4, <3>1, <3>2 DEF Rest, TypeOK
    <3> QED BY <2>1, <2>4, <3>1, <3>3 DEF WireInv, Progress, TypeOK
  <2> QED BY <2>7, <2>8, <2>9, <2>10 DEF WireInv
<1>2. ASSUME NEW c \in Conns, NEW n \in 0..(MaxLength + 1), Write(c, n) PROVE WireInv'
  <2>0. tx_connection # c /\ pc[c] = "idle" /\ tx_connection \in Conns \cup {NULL}
    BY <1>2 DEF Write, SenderInv, SenderIsWriting, TypeOK
  <2>1. /\ UNCHANGED <<wire, tx_connection, tx_buf_index, tx_buf_length>>
        /\ \A d \in Conns \ {c} : /\ txbuf'[d] = txbuf[d] /\ pc'[d] = pc[d]
                                   /\ ret'[d] = ret[d] /\ count'[d] = count[d]
    BY <1>2 DEF Write, Return, Goto, TypeOK
  <2>2. \/ txbuf' = txbuf /\ pc'[c] = "idle" /\ ret'[c] = EMSGSIZE
        \/ /\ txbuf'[c] = txbuf[c] + 1
           /\ (pc'[c] = "idle" /\ ret'[c] = EFAULT) \/ pc'[c] = "copied"
    BY <1>2 DEF Write, Return, Goto, TypeOK
  <2>3. FramesContiguous' /\ NoCharTwice'
    BY <2>1 DEF WireInv, FramesContiguous, NoCharTwice
  <2>4. WireEnd'
    BY <2>0, <2>1 DEF WireInv, WireEnd
  <2>5. Progress'
    <3>1. pc'[c] = "idle" => ret'[c] < 0 /\ ret'[c] \in Int /\ count'[c] = count[c]
      BY <1>2, <2>2 DEF Write, Return, Goto, TypeOK, EFAULT, EMSGSIZE
    <3>2. count[c] \in Nat
      BY DEF TypeOK
    <3>3. pc'[c] \in {"idle", "poll"} => ret'[c] <= count'[c]
      BY <2>2, <3>1, <3>2
    <3> QED BY <2>0, <2>1, <2>2, <3>3 DEF WireInv, Progress
  <2>6. \A d \in Conns : \A i \in 1..Len(wire') : wire'[i].conn = d => wire'[i].frame <= txbuf'[d]
    <3>1. SUFFICES ASSUME NEW d \in Conns, NEW i \in 1..Len(wire), wire[i].conn = d
                   PROVE wire[i].frame <= txbuf'[d]
      BY <2>1
    <3>2. wire[i].frame <= txbuf[d] /\ wire[i].frame \in Nat
      <4>1. wire[i] \in Chars
        BY ElementOfSeq DEF TypeOK
      <4>2. wire[i].frame \in Nat
        BY <4>1 DEF Chars
      <4> QED BY <3>1, <4>2 DEF WireInv, WireMatches, FrameMatches
    <3>3. txbuf'[d] = txbuf[d] \/ txbuf'[d] = txbuf[d] + 1
      BY <2>1, <2>2
    <3> QED BY <3>2, <3>3 DEF TypeOK
  <2>7. ASSUME NEW d \in Conns \ {c}, NEW k PROVE OnWire(d, k)' <=> OnWire(d, k)
    BY <2>1, WireKept
  <2>8. txbuf'[c] = txbuf[c] + 1 => \A k : ~OnWire(c, k)'
    BY <2>1, NewFrameNotOnWire DEF WireInv
  <2>9. WireMatches'
    <3>1. /\ pc'[c] \in {"copied", "indexed", "acquire"} => \A k \in 1..MaxLength : ~OnWire(c, k)'
          /\ pc'[c] = "complete" =>
               \A k \in 1..MaxLength : OnWire(c, k)' <=> k <= tx_buf_index'[c]
          /\ pc'[c] \notin Busy /\ txbuf'[c] > 0 /\ ret'[c] >= 0 =>
               \A k \in 1..MaxLength : OnWire(c, k)' <=> k <= ret'[c]
      BY <2>2, <2>8 DEF Busy, EFAULT, EMSGSIZE
    <3> QED BY <2>1, <2>6, <2>7, <3>1 DEF WireInv, WireMatches, FrameMatches, Busy
  <2> QED BY <2>3, <2>4, <2>5, <2>9 DEF WireInv
<1>3. ASSUME NEW c \in Conns, ResetIndex(c) PROVE WireInv'
  <2>1. tx_connection # c
    BY <1>3 DEF ResetIndex, SenderInv, SenderIsWriting
  <2>2. /\ pc[c] = "copied" /\ pc' = [pc EXCEPT ![c] = "indexed"]
        /\ tx_buf_index' = [tx_buf_index EXCEPT ![c] = 0]
        /\ UNCHANGED <<wire, count, txbuf, tx_connection, tx_buf_length, ret>>
    BY <1>3, <2>1 DEF ResetIndex, Goto
  <2>3. \A d \in Conns : \A k : OnWire(d, k)' <=> OnWire(d, k)
    BY <2>2, WireKept
  <2>4. WireMatches'
    BY <2>2, <2>3 DEF WireInv, WireMatches, FrameMatches, TypeOK, Busy
  <2>5. Progress' /\ WireEnd'
    BY <2>1, <2>2 DEF WireInv, Progress, WireEnd, TypeOK
  <2> QED BY <2>2, <2>4, <2>5 DEF WireInv, FramesContiguous, NoCharTwice
<1>4. ASSUME NEW c \in Conns, SetLength(c) PROVE WireInv'
  <2>1. /\ pc[c] = "indexed" /\ pc' = [pc EXCEPT ![c] = "acquire"]
        /\ UNCHANGED <<wire, count, txbuf, tx_connection, tx_buf_index, ret>>
        /\ tx_buf_length' = [tx_buf_length EXCEPT ![c] = count[c]]
    BY <1>4 DEF SetLength, Goto
  <2>2. \A d \in Conns : \A k : OnWire(d, k)' <=> OnWire(d, k)
    BY <2>1, WireKept
  <2>3. WireMatches'
    BY <2>1, <2>2 DEF WireInv, WireMatches, FrameMatches, TypeOK, Busy
  <2>4. Progress' /\ WireEnd'
    BY <2>1 DEF WireInv, Progress, WireEnd, TypeOK
  <2> QED BY <2>1, <2>3, <2>4 DEF WireInv, FramesContiguous, NoCharTwice
<1>5. ASSUME NEW c \in Conns, AcquireSender(c) PROVE WireInv'
  <2>0. pc[c] = "acquire" /\ UNCHANGED <<count, txbuf, tx_buf_length, ret>>
    BY <1>5 DEF AcquireSender
  <2>1. tx_buf_index[c] = 0 /\ txbuf[c] >= 1
    BY <2>0 DEF WireInv, Progress, FrameCopied, Busy
  <2>2. \A k \in 1..MaxLength : ~OnWire(c, k)
    BY <2>0 DEF WireInv, WireMatches, FrameMatches
  <2>3. CASE tx_connection = NULL
    <3>1. PICK n \in Bursts(Rest(c), 0) : TxQueuedUnlocked(c, n)
      BY <1>5, <2>3 DEF AcquireSender, MayAcquire
    <3>2. n \in 0..Rest(c)
      BY RestNat, BurstsBounded
    <3>3. pc' = [pc EXCEPT ![c] = "complete"]
      BY <1>5, <2>3 DEF AcquireSender, MayAcquire, Goto
    <3>4. /\ \A k \in 1..MaxLength : OnWire(c, k)' <=> k <= tx_buf_index'[c]
          /\ \A d \in Conns \ {c} : \A k \in 1..MaxLength : OnWire(d, k)' <=> OnWire(d, k)
          /\ \A d \in Conns : \A i \in 1..Len(wire') :
               wire'[i].conn = d => wire'[i].frame <= txbuf'[d]
          /\ tx_buf_index'[c] > 0 =>
               Len(wire') > 0 /\ wire'[Len(wire')] = Char(c, txbuf[c], tx_buf_index'[c])
          /\ FramesContiguous'
          /\ NoCharTwice'
      <4>1. \A k \in 1..MaxLength : OnWire(c, k) <=> k <= tx_buf_index[c]
        BY <2>1, <2>2
      <4>2. tx_buf_index[c] > 0 =>
              Len(wire) > 0 /\ wire[Len(wire)] = Char(c, txbuf[c], tx_buf_index[c])
        BY <2>1
      <4> QED BY <2>0, <2>1, <3>1, <3>2, <4>1, <4>2, SendingWire
    <3>5. WireMatches'
      <4>1. FrameMatches(c)'
        BY <2>0, <3>3, <3>4 DEF FrameMatches, Busy, TypeOK
      <4>2. ASSUME NEW d \in Conns \ {c} PROVE FrameMatches(d)'
        <5>1. tx_buf_index'[d] = tx_buf_index[d] /\ pc'[d] = pc[d]
          BY <3>1, <3>3 DEF TxQueuedUnlocked, TypeOK
        <5> QED BY <2>0, <3>4, <5>1 DEF WireInv, WireMatches, FrameMatches
      <4> QED BY <4>1, <4>2 DEF WireMatches
    <3>6. WireEnd'
      BY <2>0, <3>1, <3>4 DEF WireEnd, TxQueuedUnlocked
    <3>7. Progress'
      <4>1. tx_buf_index' = [tx_buf_index EXCEPT ![c] = @ + n]
        BY <3>1 DEF TxQueuedUnlocked
      <4>2. tx_buf_index'[c] <= tx_buf_length'[c]
        BY <2>0, <2>1, <3>2, <4>1 DEF Rest, TypeOK
      <4> QED BY <2>0, <3>3, <4>1, <4>2 DEF WireInv, Progress, TypeOK
    <3> QED BY <3>4, <3>5, <3>6, <3>7 DEF WireInv
  <2>4. CASE tx_connection # NULL
    <3>1. /\ UNCHANGED <<wire, tx_buf_index>>
          /\ \/ pc' = pc /\ tx_connection' = tx_connection
             \/ pc' = [pc EXCEPT ![c] = "complete"] /\ tx_connection' = c
      BY <1>5, <2>4 DEF AcquireSender, Goto
    <3>2. \A d \in Conns : \A k : OnWire(d, k)' <=> OnWire(d, k)
      BY <2>0, <3>1, WireKept
    <3>3. \A k \in 1..MaxLength : OnWire(c, k)' <=> k <= tx_buf_index'[c]
      BY <2>1, <2>2, <3>1, <3>2
    <3>4. WireMatches'
      BY <2>0, <3>1, <3>2, <3>3 DEF WireInv, WireMatches, FrameMatches, TypeOK, Busy
    <3>5. Progress' /\ WireEnd'
      BY <2>0, <2>1, <3>1 DEF WireInv, Progress, WireEnd, TypeOK
    <3> QED BY <3>1, <3>4, <3>5 DEF WireInv, FramesContiguous, NoCharTwice
  <2> QED BY <2>3, <2>4
<1>6. ASSUME NEW c \in Conns, SendCompleted(c) PROVE WireInv'
  <2>1. /\ pc[c] = "complete"
        /\ UNCHANGED <<wire, count, txbuf, tx_connection, tx_buf_index, tx_buf_length>>
        /\ \/ UNCHANGED <<pc, ret>>
           \/ /\ pc' = [pc EXCEPT ![c] = "idle"]
              /\ ret' = [ret EXCEPT ![c] = tx_buf_index[c]]
    BY <1>6 DEF SendCompleted, conn_vars, Return, Goto
  <2>2. \A d \in Conns : \A k : OnWire(d, k)' <=> OnWire(d, k)
    BY <2>1, WireKept
  <2>3. tx_buf_index[c] <= count[c]
    BY <2>1 DEF WireInv, Progress
  <2>4. WireMatches'
    BY <2>1, <2>2 DEF WireInv, WireMatches, FrameMatches, TypeOK, Busy
  <2>5. Progress' /\ WireEnd'
    BY <2>1, <2>3 DEF WireInv, Progress, WireEnd, TypeOK
  <2> QED BY <2>1, <2>4, <2>5 DEF WireInv, FramesContiguous, NoCharTwice
<1>7. ASSUME NEW c \in Conns, Interrupt(c) PROVE WireInv'
  <2>1. /\ pc[c] = "acquire"
        /\ UNCHANGED <<wire, count, txbuf, tx_connection, tx_buf_index, tx_buf_length>>
        /\ pc' = [pc EXCEPT ![c] = "idle"]
        /\ ret' = [ret EXCEPT ![c] = ERESTARTSYS]
    BY <1>7 DEF Interrupt, conn_vars, Return, Goto
  <2>2. \A d \in Conns : \A k : OnWire(d, k)' <=> OnWire(d, k)
    BY <2>1, WireKept
  <2>3. ~(ERESTARTSYS >= 0) /\ ERESTARTSYS <= count[c]
    BY DEF ERESTARTSYS, TypeOK
  <2>4. WireMatches'
    BY <2>1, <2>2, <2>3 DEF WireInv, WireMatches, FrameMatches, TypeOK, Busy
  <2>5. Progress' /\ WireEnd'
    BY <2>1, <2>3 DEF WireInv, Progress, WireEnd, TypeOK
  <2> QED BY <2>1, <2>4, <2>5 DEF WireInv, FramesContiguous, NoCharTwice
<1>8. ASSUME NEW c \in Conns, NEW p \in Priorities, SetPriority(c, p) PROVE WireInv'
  <2>1. UNCHANGED <<pc, wire, count, txbuf, tx_connection, tx_buf_index, tx_buf_length, ret>>
    BY <1>8 DEF SetPriority
  <2>2. \A d \in Conns : \A k : OnWire(d, k)' <=> OnWire(d, k)
    BY <2>1, WireKept
  <2>3. WireMatches'
    BY <2>1, <2>2 DEF WireInv, WireMatches, FrameMatches
  <2>4. Progress' /\ WireEnd'
    BY <2>1 DEF WireInv, Progress, WireEnd
  <2> QED BY <2>1, <2>3, <2>4 DEF WireInv, FramesContiguous, NoCharTwice
<1>9. ASSUME NEW c \in Conns, Poll(c) PROVE WireInv'
  <2>1. /\ pc[c] \notin Busy
        /\ UNCHANGED <<wire, count, txbuf, tx_connection, tx_buf_index, tx_buf_length, ret>>
        /\ pc' = pc \/ pc' = [pc EXCEPT ![c] = "idle"] \/ pc' = [pc EXCEPT ![c] = "poll"]
    BY <1>9 DEF Poll, conn_vars, Goto, Busy
  <2>2. \A d \in Conns : \A k : OnWire(d, k)' <=> OnWire(d, k)
    BY <2>1, WireKept
  <2>3. WireMatches'
    BY <2>1, <2>2 DEF WireInv, WireMatches, FrameMatches, TypeOK, Busy
  <2>4. Progress' /\ WireEnd'
    BY <2>1 DEF WireInv, Progress, WireEnd, TypeOK, Busy
  <2> QED BY <2>1, <2>3, <2>4 DEF WireInv, FramesContiguous, NoCharTwice
<1>10. CASE UNCHANGED vars
  BY <1>10 DEF vars, WireInv, Progress, WireMatches, FrameMatches, OnWire, WireEnd, FramesContiguous, NoCharTwice
<1> QED
  BY <1>1, <1>2, <1>3, <1>4, <1>5, <1>6, <1>7, <1>8, <1>9, <1>10 DEF Next

-----------------------------------------------------------------------------
(* An idle transmit side satisfies the invariant.                          *)
LEMMA TxInvInit == Init => TypeInv /\ SenderInv /\ WireInv
<1>1. Init => SenderInv
  BY DEF Init, SenderInv, SenderIsWriting, NoLostWakeup, SleepersWait
<1>2. Init => WireInv
  <2>1. SUFFICES ASSUME Init PROVE WireInv
    OBVIOUS
  <2>2. wire = <<>> /\ Len(wire) = 0
    BY <2>1 DEF Init
  <2>3. WireMatches
    <3>1. SUFFICES ASSUME NEW c \in Conns PROVE FrameMatches(c)
      BY DEF WireMatches
    <3>2. pc[c] = "idle" /\ txbuf[c] = 0 /\ ret[c] = 0 /\ 1..Len(wire) = {}
      BY <2>1, <2>2 DEF Init
    <3> QED BY <3>2 DEF FrameMatches, Busy
  <2>4. Progress /\ WireEnd
    BY <2>1 DEF Init, Progress, WireEnd
  <2>5. FramesContiguous /\ NoCharTwice
    BY <2>2 DEF FramesContiguous, NoCharTwice
  <2> QED BY <2>3, <2>4, <2>5 DEF WireInv
<1> QED BY <1>1, <1>2, TypeInvInit

(* The inductive invariant of the transmit side when no signal ends the    *)
(* wait for completion.                                                    *)
LEMMA TxInvariant ==
  ASSUME "complete" \notin Interruptible
  PROVE  Spec => [](TypeInv /\ SenderInv /\ WireInv)
BY TxInvInit, TypeInvStep, SenderInvStep, WireInvStep, PTL DEF Spec

(* As long as no signal ends the wait for completion, nobody sleeps on     *)
(* writeq who could go on: the two wake-ups of the driver are enough.      *)
THEOREM WakeupsSuffice ==
  ASSUME "complete" \notin Interruptible
  PROVE  Spec => []NoLostWakeup
<1>1. SenderInv => NoLostWakeup
  BY DEF SenderInv
<1> QED BY <1>1, TxInvariant, PTL

(* As long as no signal ends the wait for completion, the sender works     *)
(* only on a connection whose write() waits for it, semaphore held, and    *)
(* the hardware is enabled exactly while there is a sender.                *)
THEOREM SenderOwned ==
  ASSUME "complete" \notin Interruptible
  PROVE  Spec => []SenderIsWriting
<1>1. SenderInv => SenderIsWriting
  BY DEF SenderInv
<1> QED BY <1>1, TxInvariant, PTL

(* As long as no signal ends the wait for completion, frames reach the     *)
(* wire unmixed, however often connections preempt each other.             *)
THEOREM FramesUnmixed ==
  ASSUME "complete" \notin Interruptible
  PROVE  Spec => []FramesContiguous
<1>1. WireInv => FramesContiguous
  BY DEF WireInv
<1> QED BY <1>1, TxInvariant, PTL

(* As long as no signal ends the wait for completion, no character is sent *)
(* twice, not even by a connection that was preempted and wrote again.     *)
THEOREM CharsSentOnce ==
  ASSUME "complete" \notin Interruptible
  PROVE  Spec => []NoCharTwice
<1>1. WireInv => NoCharTwice
  BY DEF WireInv
<1> QED BY <1>1, TxInvariant, PTL

(* As long as no signal ends the wait for completion, write() returns the  *)
(* number of characters actually sent.                                     *)
THEOREM CountReturned ==
  ASSUME "complete" \notin Interruptible
  PROVE  Spec => []ReturnedCountIsSent
<1>1. WireInv => ReturnedCountIsSent
  BY DEF WireInv, WireMatches, FrameMatches, ReturnedCountIsSent, Busy
<1> QED BY <1>1, TxInvariant, PTL

(* As long as no signal ends the wait for completion, the hardware is      *)
(* handed nothing beyond the frame, and write() claims no more than it was *)
(* given, for every chunk and transfer size of the driver.                 *)
THEOREM FrameNotOverrun ==
  ASSUME "complete" \notin Interruptible
  PROVE  Spec => []NothingBeyondFrame
<1>1. TypeInv /\ WireInv => NothingBeyondFrame
  <2>1. SUFFICES ASSUME TypeInv, WireInv, NEW c \in Conns
                 PROVE  /\ pc[c] = "complete" => \A k \in 1..MaxLength : OnWire(c, k) => k <= count[c]
                        /\ pc[c] \in {"idle", "poll"} => ret[c] <= count[c]
    BY DEF NothingBeyondFrame
  <2>2. pc[c] = "complete" => tx_buf_index[c] <= count[c]
    BY <2>1 DEF WireInv, Progress
  <2>3. count[c] \in Nat /\ tx_buf_index[c] \in Nat
    BY <2>1, TxAssumption DEF TypeInv, TypeOK
  <2>4. pc[c] = "complete" => \A k \in 1..MaxLength : OnWire(c, k) => k <= tx_buf_index[c]
    BY <2>1 DEF WireInv, WireMatches, FrameMatches
  <2>5. pc[c] \in {"idle", "poll"} => ret[c] <= count[c]
    BY <2>1 DEF WireInv, Progress
  <2> QED BY <2>2, <2>3, <2>4, <2>5
<1> QED BY <1>1, TxInvariant, PTL

(* As long as no signal ends the wait for completion, a frame is left      *)
(* unfinished only for a connection of strictly higher priority.           *)
THEOREM PreemptionIsStrict ==
  ASSUME "complete" \notin Interruptible
  PROVE  Spec => UnfinishedOnlyForHigher
<1> DEFINE A == \A c \in Conns :
                  tx_connection = c /\ tx_connection' # c =>
                    \/ tx_buf_index'[c] = tx_buf_length[c]
                    \/ tx_connection' # NULL /\ priority[tx_connection'] > priority[c]
<1>1. TypeInv /\ SenderInv /\ WireInv /\ [Next]_vars => [A]_vars
  <2>1. SUFFICES ASSUME TypeInv, SenderInv, WireInv, Next,
                        NEW c \in Conns, tx_connection = c, tx_connection' # c
                 PROVE  \/ tx_buf_index'[c] = tx_buf_length[c]
                        \/ tx_connection' # NULL /\ priority[tx_connection'] > priority[c]
    OBVIOUS
  <2>2. /\ pc[c] = "complete" /\ c # NULL
        /\ tx_buf_index[c] \in Nat /\ tx_buf_length[c] \in Nat
        /\ tx_buf_index[c] <= tx_buf_length[c]
    BY <2>1, TxAssumption
       DEF TypeInv, TypeOK, SenderInv, SenderIsWriting, WireInv, Progress
  <2>3. ASSUME NEW ready \in {0, 1}, TxQueued(ready)
        PROVE  tx_buf_index'[c] = tx_buf_length[c]
    <3>1. PICK n \in Bursts(Rest(c), ready) : TxQueuedUnlocked(c, n)
      BY <2>1, <2>3 DEF TxQueued
    <3>2. n \in 0..Rest(c)
      BY <2>1, <2>3, RestNat, BurstsBounded DEF TypeInv
    <3>3. /\ tx_buf_index[c] + n >= tx_buf_length[c]
          /\ tx_buf_index'[c] = tx_buf_index[c] + n
      BY <2>1, <3>1 DEF TxQueuedUnlocked, TypeInv, TypeOK
    <3> QED BY <2>2, <3>2, <3>3 DEF Rest
  <2>4. ASSUME NEW d \in Conns, AcquireSender(d)
        PROVE  tx_connection' # NULL /\ priority[tx_connection'] > priority[c]
    <3>1. tx_connection' = d /\ priority[c] < priority[d]
      BY <2>1, <2>2, <2>4 DEF AcquireSender, MayAcquire
    <3>2. priority[c] \in Nat /\ priority[d] \in Nat
      BY <2>1, TxAssumption DEF TypeInv, TypeOK
    <3> QED BY <3>1, <3>2, TxAssumption
  <2>5. ASSUME NEW d \in Conns,
               \/ \E n \in 0..(MaxLength + 1) : Write(d, n)
               \/ ResetIndex(d) \/ SetLength(d) \/ SendCompleted(d)
               \/ Interrupt(d) \/ Poll(d)
               \/ \E p \in Priorities : SetPriority(d, p)
        PROVE  UNCHANGED tx_connection
    BY <2>5 DEF Write, ResetIndex, SetLength, SendCompleted, Interrupt, Poll, SetPriority
  <2> QED BY <2>1, <2>3, <2>4, <2>5 DEF Next
<1> QED BY <1>1, TxInvariant, PTL DEF Spec, UnfinishedOnlyForHigher
=============================================================================
