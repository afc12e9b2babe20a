----------------------------- MODULE RawUartRx -----------------------------
(***************************************************************************)
(* The receive side of the raw UART character device                       *)
(* (kernel/generic_raw_uart.c): the driver's interrupt puts characters     *)
(* into the ring instance->rxbuf without any lock, read() of any number of *)
(* processes takes them out under instance->sem, and readers of an empty   *)
(* ring sleep on instance->readq.  The device stays open.                  *)
(*                                                                         *)
(* Interrupt and reader run on different CPUs: every store to head, tail   *)
(* and the buffer is a step of its own.  In particular head and tail       *)
(* equal CIRCBUF_SIZE for a moment before they wrap to 0.                  *)
(***************************************************************************)
EXTENDS Integers, Sequences, CircBuf

CONSTANTS
  Readers,      (* the processes that read                                  *)
  NULL,         (* nobody holds the semaphore                               *)
  CIRCBUF_SIZE, (* 1024 in the source, a power of two                       *)
  MaxCount,     (* the largest count a read() asks for                      *)
  MaxRx         (* bound: how many characters arrive                        *)

ASSUME RxAssumption ==
  /\ NULL \notin Readers
  /\ CIRCBUF_SIZE \in Nat /\ CIRCBUF_SIZE > 1
  /\ \E k \in 1..CIRCBUF_SIZE : CIRCBUF_SIZE = 2^k
  /\ MaxCount \in Nat
  /\ MaxRx \in Nat

VARIABLES
  buf,       (* instance->rxbuf.buf, 0 where nothing was stored yet        *)
  head,      (* instance->rxbuf.head                                       *)
  tail,      (* instance->rxbuf.tail                                       *)
  sem,       (* the reader that holds instance->sem                        *)
  readq,     (* the readers asleep on instance->readq                      *)
  irq,       (* where generic_raw_uart_handle_rx_char() is                 *)
  completed, (* the interrupt owes no call of rx_completed()               *)
  pc,        (* where each reader is                                       *)
  count,     (* the count of each reader's read()                          *)
  rx,        (* history: the number of characters that arrived             *)
  taken,     (* what the reader that holds the semaphore copied            *)
  delivered  (* history: the characters that left the ring, in order       *)

vars == <<buf, head, tail, sem, readq, irq, completed, pc, count, rx, taken, delivered>>
irq_vars == <<buf, head, irq, completed, rx>>

Cnt == CIRC_CNT(head, tail, CIRCBUF_SIZE)

(* What the ring holds, oldest first.                                      *)
Queue == [i \in 1..Cnt |-> buf[(tail + i - 1) % CIRCBUF_SIZE]]

Init ==
  /\ buf = [i \in 0..(CIRCBUF_SIZE - 1) |-> 0]
  /\ head = 0 /\ tail = 0
  /\ sem = NULL
  /\ readq = {}
  /\ irq = "idle" /\ completed = TRUE
  /\ pc = [r \in Readers |-> "idle"]
  /\ count = [r \in Readers |-> 0]
  /\ rx = 0
  /\ taken = <<>>
  /\ delivered = <<>>

-----------------------------------------------------------------------------
(* The interrupt: generic_raw_uart_handle_rx_char(), one step per store.   *)
RxUnchanged == UNCHANGED <<tail, sem, pc, count, taken, delivered>>

(* Mutants: the space in the ring is not checked, or one slot too many is  *)
(* kept free.                                                              *)
HandleRxCharUnchecked ==
  /\ irq = "idle" /\ rx < MaxRx
  /\ completed' = FALSE /\ rx' = rx + 1 /\ irq' = "store"
  /\ RxUnchanged /\ UNCHANGED <<buf, head, readq>>

HandleRxCharWasteful ==
  /\ irq = "idle" /\ rx < MaxRx
  /\ completed' = FALSE /\ rx' = rx + 1
  /\ irq' = IF CIRC_SPACE(head, tail, CIRCBUF_SIZE) > 1 THEN "store" ELSE "idle"
  /\ RxUnchanged /\ UNCHANGED <<buf, head, readq>>

(* A break is only counted; another character is dropped if the ring has   *)
(* no space, else stored.                                                  *)
HandleRxChar ==
  /\ irq = "idle"
  /\ completed' = FALSE
  /\ \/ UNCHANGED <<irq, rx>>
     \/ /\ rx < MaxRx
        /\ rx' = rx + 1
        /\ irq' = IF CIRC_SPACE(head, tail, CIRCBUF_SIZE) > 0 THEN "store" ELSE "idle"
  /\ RxUnchanged /\ UNCHANGED <<buf, head, readq>>

RxStore ==
  /\ irq = "store"
  /\ buf' = [buf EXCEPT ![head] = rx]
  /\ irq' = "bump"
  /\ RxUnchanged /\ UNCHANGED <<head, readq, completed, rx>>

(* Mutant: head wraps one character too late.                              *)
RxBumpHeadLate ==
  /\ irq = "bump"
  /\ head' = head + 1
  /\ irq' = IF head + 1 > CIRCBUF_SIZE THEN "wrap" ELSE "idle"
  /\ RxUnchanged /\ UNCHANGED <<buf, readq, completed, rx>>

RxBumpHead ==
  /\ irq = "bump"
  /\ head' = head + 1
  /\ irq' = IF head + 1 >= CIRCBUF_SIZE THEN "wrap" ELSE "idle"
  /\ RxUnchanged /\ UNCHANGED <<buf, readq, completed, rx>>

RxWrapHead ==
  /\ irq = "wrap"
  /\ head' = 0
  /\ irq' = "idle"
  /\ RxUnchanged /\ UNCHANGED <<buf, readq, completed, rx>>

(* Mutant: the end of a batch wakes nobody.                                *)
RxCompletedNoWake ==
  /\ irq = "idle" /\ ~completed
  /\ completed' = TRUE
  /\ RxUnchanged /\ UNCHANGED <<buf, head, irq, rx, readq>>

(* generic_raw_uart_rx_completed() ends a batch of characters.             *)
RxCompleted ==
  /\ irq = "idle" /\ ~completed
  /\ completed' = TRUE
  /\ readq' = {}
  /\ RxUnchanged /\ UNCHANGED <<buf, head, irq, rx>>

-----------------------------------------------------------------------------
(* A reader: generic_raw_uart_read() and the POLLIN part of poll().        *)
Goto(r, l) == pc' = [pc EXCEPT ![r] = l]

Read(r, n) ==
  /\ pc[r] = "idle"
  /\ count' = [count EXCEPT ![r] = n]
  /\ Goto(r, "down")
  /\ UNCHANGED <<irq_vars, tail, sem, readq, taken, delivered>>

(* down_interruptible(&instance->sem) takes a free semaphore; a signal     *)
(* ends the wait for one that somebody else holds.                         *)
DownSem(r) ==
  /\ pc[r] = "down"
  /\ \/ sem = NULL /\ sem' = r /\ Goto(r, "check")
     \/ sem # NULL /\ Goto(r, "idle") /\ UNCHANGED sem
  /\ UNCHANGED <<irq_vars, tail, readq, count, taken, delivered>>

(* The head of the while loop.  Nothing to read: the semaphore is released *)
(* and the call returns -EAGAIN (O_NONBLOCK) or waits; else count is       *)
(* limited to what can be copied in one piece.                             *)
CheckData(r) ==
  /\ pc[r] = "check"
  /\ \/ /\ Cnt = 0
        /\ sem' = NULL
        /\ \E l \in {"idle", "wait"} : Goto(r, l)
        /\ UNCHANGED count
     \/ /\ Cnt > 0
        /\ LET n == CIRC_CNT_TO_END(head, tail, CIRCBUF_SIZE)
           IN count' = [count EXCEPT ![r] = IF @ < n THEN @ ELSE n]
        /\ Goto(r, "copy")
        /\ UNCHANGED sem
  /\ UNCHANGED <<irq_vars, tail, readq, taken, delivered>>

(* Mutant: the reader sleeps without looking at the ring again.            *)
WaitDataBlindly(r) ==
  /\ pc[r] \in {"wait", "poll"} /\ r \notin readq
  /\ readq' = readq \cup {r}
  /\ UNCHANGED <<irq_vars, tail, sem, pc, count, taken, delivered>>

(* wait_event_interruptible(readq, CIRC_CNT) or a poll: go on, sleep, or   *)
(* return because of a signal or a timeout.                                *)
WaitData(r) ==
  /\ pc[r] \in {"wait", "poll"}
  /\ r \notin readq
  /\ \/ /\ Cnt > 0
        /\ Goto(r, IF pc[r] = "wait" THEN "down" ELSE "idle")
        /\ UNCHANGED readq
     \/ /\ Cnt = 0
        /\ readq' = readq \cup {r}
        /\ UNCHANGED pc
  /\ UNCHANGED <<irq_vars, tail, sem, count, taken, delivered>>

Interrupt(r) ==
  /\ pc[r] \in {"wait", "poll"}
  /\ Cnt = 0
  /\ Goto(r, "idle")
  /\ readq' = readq \ {r}
  /\ UNCHANGED <<irq_vars, tail, sem, count, taken, delivered>>

Poll(r) ==
  /\ pc[r] = "idle"
  /\ Goto(r, "poll")
  /\ UNCHANGED <<irq_vars, tail, sem, readq, count, taken, delivered>>

(* copy_to_user(): the characters are copied, or the call returns -EFAULT  *)
(* and leaves them where they are.                                         *)
CopyToUser(r) ==
  /\ pc[r] = "copy"
  /\ \/ /\ taken' = [i \in 1..count[r] |-> buf[tail + i - 1]]
        /\ Goto(r, "advance")
        /\ UNCHANGED sem
     \/ /\ sem' = NULL
        /\ Goto(r, "idle")
        /\ UNCHANGED taken
  /\ UNCHANGED <<irq_vars, tail, readq, count, delivered>>

(* tail += count; from here the interrupt may reuse the slots.             *)
AdvanceTail(r) ==
  /\ pc[r] = "advance"
  /\ tail' = tail + count[r]
  /\ delivered' = delivered \o taken
  /\ taken' = <<>>
  /\ Goto(r, "wraptail")
  /\ UNCHANGED <<irq_vars, sem, readq, count>>

(* The wrap of tail and up(&instance->sem).                                *)
WrapTail(r) ==
  /\ pc[r] = "wraptail"
  /\ tail' = IF tail >= CIRCBUF_SIZE THEN tail - CIRCBUF_SIZE ELSE tail
  /\ sem' = NULL
  /\ Goto(r, "idle")
  /\ UNCHANGED <<irq_vars, readq, count, taken, delivered>>

-----------------------------------------------------------------------------
Irq == HandleRxChar \/ RxStore \/ RxBumpHead \/ RxWrapHead \/ RxCompleted

InRead(r) == CheckData(r) \/ CopyToUser(r) \/ AdvanceTail(r) \/ WrapTail(r)

Next ==
  \/ Irq
  \/ \E r \in Readers :
       \/ \E n \in 0..MaxCount : Read(r, n)
       \/ DownSem(r) \/ WaitData(r) \/ Interrupt(r) \/ Poll(r)
       \/ InRead(r)

(* The interrupt handler runs to its end and a reader that is awake        *)
(* inside read() goes on; nobody has to call read() or poll().             *)
Fairness ==
  /\ WF_vars(RxStore \/ RxBumpHead \/ RxWrapHead)
  /\ WF_vars(RxCompleted)
  /\ \A r \in Readers : WF_vars(WaitData(r)) /\ WF_vars(InRead(r))

Spec == Init /\ [][Next]_vars
FairSpec == Spec /\ Fairness

-----------------------------------------------------------------------------
TypeOK ==
  /\ buf \in [0..(CIRCBUF_SIZE - 1) -> 0..MaxRx]
  /\ head \in 0..CIRCBUF_SIZE /\ (head = CIRCBUF_SIZE => irq = "wrap")
  /\ tail \in 0..CIRCBUF_SIZE
  /\ sem \in Readers \cup {NULL}
  /\ readq \subseteq Readers
  /\ irq \in {"idle", "store", "bump", "wrap"} /\ completed \in BOOLEAN
  /\ pc \in [Readers -> {"idle", "down", "check", "wait", "poll", "copy", "advance",
                         "wraptail"}]
  /\ count \in [Readers -> 0..MaxCount]
  /\ rx \in 0..MaxRx
  /\ taken \in Seq(1..MaxRx)
  /\ delivered \in Seq(1..MaxRx)

(* The interrupt never stores into a slot that a reader is about to copy:  *)
(* no lock is needed between them (handle_rx_char, read).                  *)
SlotsDisjoint ==
  \A r \in Readers :
    pc[r] \in {"copy", "advance"} /\ irq = "store" =>
      head \notin tail..(tail + count[r] - 1)

(* A reader sleeps on readq although the ring holds data only while the    *)
(* interrupt still owes it the wake-up of rx_completed().                  *)
NoLostRxWakeup ==
  readq # {} /\ Cnt > 0 => ~completed

(* A reader that waits while the ring holds data goes on, whatever the     *)
(* other readers do (wait_event_interruptible in read, rx_completed).      *)
ReaderGoesOn ==
  \A r \in Readers : (pc[r] = "wait" /\ Cnt > 0) ~> (pc[r] # "wait" \/ Cnt = 0)

(* The refinement mapping: a character has arrived once it is dropped or   *)
(* in the ring.                                                            *)
Seen == IF irq \in {"store", "bump"} THEN rx - 1 ELSE rx

Fifo == INSTANCE LossyFifo WITH
          Capacity <- CIRCBUF_SIZE - 1,
          seen     <- Seen,
          queue    <- Queue,
          out      <- delivered

(* The ring is a first-in first-out queue of CIRCBUF_SIZE - 1 characters   *)
(* that loses an arriving character only when it is full, and readers get  *)
(* every other character once and in order (rxbuf, handle_rx_char, read).  *)
IsLossyFifo == Fifo!Spec

-----------------------------------------------------------------------------
(* The inductive invariants the proofs use (RawUartRx_proofs).             *)

(* One reader at a time is past down_interruptible().                      *)
SemOwned ==
  \A r \in Readers : pc[r] \in {"check", "copy", "advance", "wraptail"} <=> sem = r

(* head and tail leave the array for a moment only.                        *)
Wrapping ==
  /\ irq = "wrap" <=> head = CIRCBUF_SIZE
  /\ tail = CIRCBUF_SIZE => \E r \in Readers : pc[r] = "wraptail"

(* The space the interrupt has found stays there until it is used, and the *)
(* interrupt owes a wake-up as long as it is inside handle_rx_char().      *)
SpaceKept ==
  /\ irq \in {"store", "bump"} => Cnt < CIRCBUF_SIZE - 1 /\ rx > 0
  /\ irq = "bump" => buf[head] = rx
  /\ irq # "idle" => ~completed

(* So does what a reader has found and copied.                             *)
DataKept ==
  \A r \in Readers :
    /\ pc[r] \in {"copy", "advance"} => count[r] <= Cnt /\ tail + count[r] <= CIRCBUF_SIZE
    /\ pc[r] = "advance" => taken = [i \in 1..count[r] |-> buf[tail + i - 1]]

(* The ring holds characters that have arrived.                            *)
RingFilled == \A i \in 1..Cnt : buf[(tail + i - 1) % CIRCBUF_SIZE] > 0

RxInv ==
  TypeOK /\ SemOwned /\ Wrapping /\ SpaceKept /\ DataKept /\ RingFilled /\ NoLostRxWakeup
=============================================================================
