----------------------------- MODULE RawUartTx -----------------------------
(***************************************************************************)
(* The transmit side of the raw UART character device                      *)
(* (kernel/generic_raw_uart.c): several open connections write frames,     *)
(* the instance sends the frame of one of them at a time                   *)
(* (tx_connection), a connection with a higher priority takes the sender   *)
(* over in the middle of a frame, and the hardware driver's interrupt      *)
(* pulls the characters out in chunks.                                     *)
(*                                                                         *)
(* lock_tx makes acquire_sender, send_completed and tx_queued atomic.      *)
(* The stores that prepare a frame (txbuf, tx_buf_index, tx_buf_length)    *)
(* happen under the connection's semaphore only, so each is a step of its  *)
(* own that the interrupt can fall between.  pc[c] is "idle" or "poll"     *)
(* exactly when the semaphore of connection c is free.                     *)
(***************************************************************************)
EXTENDS Integers, Sequences

CONSTANTS
  Conns,        (* the open connections (struct per_connection_data)        *)
  NULL,         (* no connection                                            *)
  Priorities,   (* the values IOCTL_IOCSPRIORITY may set                    *)
  MaxLength,    (* CON_DATA_TX_BUF_SIZE, 4096 in the source                 *)
  ChunkSize,    (* driver->tx_chunk_size                                    *)
  BulkSize,     (* driver->tx_bulktransfer_size                             *)
  MaxWrites,    (* bound: how many frames each connection hands over        *)
  Interruptible (* the waits of write() that a signal may interrupt: a      *)
                (* subset of {"acquire", "complete"}                        *)

ASSUME TxAssumption ==
  /\ NULL \notin Conns
  /\ Priorities \subseteq Nat /\ 0 \in Priorities
  /\ MaxLength \in Nat \ {0}
  /\ ChunkSize \in Nat \ {0}
  /\ BulkSize \in Nat \ {0}
  /\ MaxWrites \in Nat
  /\ Interruptible \subseteq {"acquire", "complete"}

VARIABLES
  pc,            (* where the thread working on the connection is           *)
  priority,      (* conn->priority                                          *)
  count,         (* the length argument of the write() in progress          *)
  txbuf,         (* conn->txbuf: the number of the frame copied to it       *)
  tx_buf_index,  (* conn->tx_buf_index                                      *)
  tx_buf_length, (* conn->tx_buf_length                                     *)
  tx_connection, (* instance->tx_connection                                 *)
  tx_irq,        (* between the driver's init_tx and stop_tx                *)
  writeq,        (* the connections asleep on instance->writeq              *)
  wire,          (* history: every character handed to the hardware         *)
  ret            (* history: the result of the connection's last write()    *)

conn_vars == <<priority, count, txbuf, tx_buf_index, tx_buf_length>>
vars == <<pc, priority, count, txbuf, tx_buf_index, tx_buf_length,
          tx_connection, tx_irq, writeq, wire, ret>>

EFAULT      == -14
EMSGSIZE    == -90
ERESTARTSYS == -512

(* A character on the wire: the frame it belongs to and its place in it.   *)
Char(c, f, k) == [conn |-> c, frame |-> f, pos |-> k]

Init ==
  /\ pc = [c \in Conns |-> "idle"]
  /\ priority = [c \in Conns |-> 0]
  /\ count = [c \in Conns |-> 0]
  /\ txbuf = [c \in Conns |-> 0]
  /\ tx_buf_index = [c \in Conns |-> 0]
  /\ tx_buf_length = [c \in Conns |-> 0]
  /\ tx_connection = NULL
  /\ tx_irq = FALSE
  /\ writeq = {}
  /\ wire = <<>>
  /\ ret = [c \in Conns |-> 0]

Goto(c, l) == pc' = [pc EXCEPT ![c] = l]
Return(c, value) == Goto(c, "idle") /\ ret' = [ret EXCEPT ![c] = value]

-----------------------------------------------------------------------------
(* The part of the frame of c that is still to be sent.                    *)
Rest(c) == IF tx_buf_index[c] < tx_buf_length[c]
           THEN tx_buf_length[c] - tx_buf_index[c] ELSE 0

(* Mutant: a transfer is not limited to what is left of the frame.         *)
BurstsUnlimited(rest, ready) ==
  { r * BulkSize : r \in {i \in ready..ChunkSize : (i - 1) * BulkSize < ChunkSize} }

(* How many characters one run of the chunk loop can send: r transfers of  *)
(* BulkSize, the last of them started before ChunkSize was reached, where  *)
(* isready_for_tx() of the hardware decides how far the loop gets.         *)
Bursts(rest, ready) ==
  { IF r * BulkSize <= rest THEN r * BulkSize ELSE rest :
      r \in {i \in ready..ChunkSize : (i - 1) * BulkSize < ChunkSize} }

(* Mutant: tx_chars() is not told the index to start from.                 *)
NextCharsFromStart(c, n) == [i \in 1..n |-> Char(c, txbuf[c], i)]

(* The next n characters of the frame of c.                                *)
NextChars(c, n) == [i \in 1..n |-> Char(c, txbuf[c], tx_buf_index[c] + i)]

(* Mutants: the end of a frame does not stop the transmitter, does not     *)
(* wake the writers, or is noticed one character too late.                 *)
TxQueuedNoStop(c, n) ==
  /\ wire' = wire \o NextChars(c, n)
  /\ tx_buf_index' = [tx_buf_index EXCEPT ![c] = @ + n]
  /\ tx_irq' = TRUE
  /\ IF tx_buf_index[c] + n >= tx_buf_length[c]
     THEN tx_connection' = NULL /\ writeq' = {}
     ELSE tx_connection' = c /\ UNCHANGED writeq

TxQueuedNoWake(c, n) ==
  /\ wire' = wire \o NextChars(c, n)
  /\ tx_buf_index' = [tx_buf_index EXCEPT ![c] = @ + n]
  /\ tx_connection' = IF tx_buf_index[c] + n >= tx_buf_length[c] THEN NULL ELSE c
  /\ tx_irq' = (tx_connection' # NULL)
  /\ UNCHANGED writeq

TxQueuedLate(c, n) ==
  /\ wire' = wire \o NextChars(c, n)
  /\ tx_buf_index' = [tx_buf_index EXCEPT ![c] = @ + n]
  /\ IF tx_buf_index[c] + n > tx_buf_length[c]
     THEN tx_connection' = NULL /\ tx_irq' = FALSE /\ writeq' = {}
     ELSE tx_connection' = c /\ tx_irq' = TRUE /\ UNCHANGED writeq

(* generic_raw_uart_tx_queued_unlocked() with tx_connection = c, n of      *)
(* whose characters the hardware takes.                                    *)
TxQueuedUnlocked(c, n) ==
  /\ wire' = wire \o NextChars(c, n)
  /\ tx_buf_index' = [tx_buf_index EXCEPT ![c] = @ + n]
  /\ IF tx_buf_index[c] + n >= tx_buf_length[c]
     THEN tx_connection' = NULL /\ tx_irq' = FALSE /\ writeq' = {}
     ELSE tx_connection' = c /\ tx_irq' = TRUE /\ UNCHANGED writeq

(* generic_raw_uart_tx_queued(), called by the driver when the transmitter *)
(* can take characters: ready is 1 if it takes at least one.               *)
TxQueued(ready) ==
  /\ tx_irq
  /\ tx_connection # NULL
  /\ \E n \in Bursts(Rest(tx_connection), ready) :
       TxQueuedUnlocked(tx_connection, n)
  /\ UNCHANGED <<pc, priority, count, txbuf, tx_buf_length, ret>>

-----------------------------------------------------------------------------
(* generic_raw_uart_write() up to copy_from_user(): a frame of n           *)
(* characters is refused, faults while it is copied, or is in txbuf.       *)
Write(c, n) ==
  /\ pc[c] = "idle"
  /\ txbuf[c] < MaxWrites
  /\ \/ /\ n > MaxLength
        /\ Return(c, EMSGSIZE)
        /\ UNCHANGED <<count, txbuf>>
     \/ /\ n <= MaxLength
        /\ txbuf' = [txbuf EXCEPT ![c] = @ + 1]
        /\ \/ Return(c, EFAULT) /\ UNCHANGED count
           \/ /\ Goto(c, "copied")
              /\ count' = [count EXCEPT ![c] = n]
              /\ UNCHANGED ret
  /\ UNCHANGED <<priority, tx_buf_index, tx_buf_length, tx_connection, tx_irq,
                 writeq, wire>>

(* conn->tx_buf_index = 0.  If the sender still works on this connection   *)
(* (an earlier write() was interrupted), the interrupt's                   *)
(* tx_buf_index += bulksize may run on another CPU and overwrite the 0.    *)
ResetIndex(c) ==
  /\ pc[c] = "copied"
  /\ \/ tx_buf_index' = [tx_buf_index EXCEPT ![c] = 0]
     \/ tx_connection = c /\ UNCHANGED tx_buf_index
  /\ Goto(c, "indexed")
  /\ UNCHANGED <<priority, count, txbuf, tx_buf_length, tx_connection, tx_irq,
                 writeq, wire, ret>>

(* Mutant: the length is that of txbuf instead of that of the frame.       *)
SetLengthOfBuffer(c) ==
  /\ pc[c] = "indexed"
  /\ tx_buf_length' = [tx_buf_length EXCEPT ![c] = MaxLength]
  /\ Goto(c, "acquire")
  /\ UNCHANGED <<priority, count, txbuf, tx_buf_index, tx_connection, tx_irq,
                 writeq, wire, ret>>

(* conn->tx_buf_length = count *)
SetLength(c) ==
  /\ pc[c] = "indexed"
  /\ tx_buf_length' = [tx_buf_length EXCEPT ![c] = count[c]]
  /\ Goto(c, "acquire")
  /\ UNCHANGED <<priority, count, txbuf, tx_buf_index, tx_connection, tx_irq,
                 writeq, wire, ret>>

-----------------------------------------------------------------------------
(* Mutant: a connection of the same priority takes the sender over.        *)
MayAcquireSame(c) ==
  \/ tx_connection = NULL
  \/ tx_connection # NULL /\ priority[tx_connection] <= priority[c]

(* The condition of generic_raw_uart_acquire_sender(): the sender is idle  *)
(* or busy with a connection of lower priority.                            *)
MayAcquire(c) ==
  \/ tx_connection = NULL
  \/ tx_connection # NULL /\ priority[tx_connection] < priority[c]

(* One evaluation of generic_raw_uart_acquire_sender() in                  *)
(* wait_event_interruptible().  The thread is on the wait queue before it  *)
(* evaluates the condition, so checking and falling asleep are one step.   *)
AcquireSender(c) ==
  /\ pc[c] = "acquire"
  /\ c \notin writeq
  /\ \/ /\ tx_connection = NULL
        /\ \E n \in Bursts(Rest(c), 0) : TxQueuedUnlocked(c, n)
        /\ Goto(c, "complete")
     \/ /\ tx_connection # NULL /\ MayAcquire(c)
        /\ tx_connection' = c
        /\ writeq' = {}
        /\ Goto(c, "complete")
        /\ UNCHANGED <<tx_irq, wire, tx_buf_index>>
     \/ /\ ~MayAcquire(c)
        /\ writeq' = writeq \cup {c}
        /\ UNCHANGED <<pc, tx_connection, tx_irq, wire, tx_buf_index>>
  /\ UNCHANGED <<priority, count, txbuf, tx_buf_length, ret>>

(* Mutants: a preempted write() claims the whole frame was sent, or        *)
(* resumes its frame.                                                      *)
SendCompletedAll(c) ==
  /\ pc[c] = "complete" /\ c \notin writeq /\ tx_connection # c
  /\ Return(c, tx_buf_length[c])
  /\ UNCHANGED <<conn_vars, tx_connection, tx_irq, wire, writeq>>

SendCompletedResume(c) ==
  /\ pc[c] = "complete" /\ c \notin writeq /\ tx_connection # c
  /\ IF Rest(c) > 0 THEN Goto(c, "acquire") /\ UNCHANGED ret
                    ELSE Return(c, tx_buf_index[c])
  /\ UNCHANGED <<conn_vars, tx_connection, tx_irq, wire, writeq>>

(* One evaluation of generic_raw_uart_send_completed(); when it is true    *)
(* write() returns tx_buf_index.                                           *)
SendCompleted(c) ==
  /\ pc[c] = "complete"
  /\ c \notin writeq
  /\ \/ /\ tx_connection # c
        /\ Return(c, tx_buf_index[c])
        /\ UNCHANGED writeq
     \/ /\ tx_connection = c
        /\ writeq' = writeq \cup {c}
        /\ UNCHANGED <<pc, ret>>
  /\ UNCHANGED <<conn_vars, tx_connection, tx_irq, wire>>

(* A signal ends one of the two waits of write() while its condition is    *)
(* false: the connection's semaphore is released and nothing else.         *)
Interrupt(c) ==
  /\ pc[c] \in Interruptible
  /\ pc[c] = "acquire" => ~MayAcquire(c)
  /\ pc[c] = "complete" => tx_connection = c
  /\ Return(c, ERESTARTSYS)
  /\ writeq' = writeq \ {c}
  /\ UNCHANGED <<conn_vars, tx_connection, tx_irq, wire>>

(* IOCTL_IOCSPRIORITY, under the connection's semaphore.                   *)
SetPriority(c, p) ==
  /\ pc[c] \in {"idle", "poll"}
  /\ priority' = [priority EXCEPT ![c] = p]
  /\ UNCHANGED <<pc, count, txbuf, tx_buf_index, tx_buf_length, tx_connection,
                 tx_irq, writeq, wire, ret>>

(* generic_raw_uart_poll() for POLLOUT, which takes no semaphore: the      *)
(* caller enters, is told that it may write, sleeps, or gives up.          *)
Poll(c) ==
  /\ \/ pc[c] = "idle" /\ Goto(c, "poll") /\ UNCHANGED writeq
     \/ /\ pc[c] = "poll" /\ c \notin writeq /\ MayAcquire(c)
        /\ Goto(c, "idle")
        /\ UNCHANGED writeq
     \/ /\ pc[c] = "poll" /\ c \notin writeq /\ ~MayAcquire(c)
        /\ writeq' = writeq \cup {c}
        /\ UNCHANGED pc
     \/ /\ pc[c] = "poll" /\ c \in writeq
        /\ Goto(c, "idle")
        /\ writeq' = writeq \ {c}
  /\ UNCHANGED <<conn_vars, tx_connection, tx_irq, wire, ret>>

-----------------------------------------------------------------------------
Next ==
  \/ \E ready \in {0, 1} : TxQueued(ready)
  \/ \E c \in Conns :
       \/ \E n \in 0..(MaxLength + 1) : Write(c, n)
       \/ ResetIndex(c)
       \/ SetLength(c)
       \/ AcquireSender(c)
       \/ SendCompleted(c)
       \/ Interrupt(c)
       \/ \E p \in Priorities : SetPriority(c, p)
       \/ Poll(c)

Spec == Init /\ [][Next]_vars

-----------------------------------------------------------------------------
Chars == [conn: Conns, frame: 1..MaxWrites, pos: 1..MaxLength]

TypeOK ==
  /\ pc \in [Conns -> {"idle", "poll", "copied", "indexed", "acquire", "complete"}]
  /\ priority \in [Conns -> Priorities]
  /\ count \in [Conns -> 0..MaxLength]
  /\ txbuf \in [Conns -> 0..MaxWrites]
  /\ tx_buf_index \in [Conns -> 0..MaxLength]
  /\ tx_buf_length \in [Conns -> 0..MaxLength]
  /\ tx_connection \in Conns \cup {NULL}
  /\ tx_irq \in BOOLEAN
  /\ writeq \subseteq Conns
  /\ wire \in Seq(Chars)
  /\ ret \in [Conns -> 0..MaxLength \cup {EFAULT, EMSGSIZE, ERESTARTSYS}]

(* The sender only ever works on a connection whose write() is waiting for *)
(* it, semaphore held, so that nobody changes the frame or the priority    *)
(* under it; and the hardware is enabled exactly as long as there is a     *)
(* sender (init_tx in acquire_sender, stop_tx in tx_queued_unlocked).      *)
SenderIsWriting ==
  /\ tx_connection # NULL => pc[tx_connection] = "complete"
  /\ tx_irq <=> tx_connection # NULL

(* Nobody sleeps on writeq although it could go on: a writer waiting for   *)
(* the sender faces one that is busy with at least its own priority, a     *)
(* writer waiting for completion is still the sender, and a poller faces a *)
(* busy sender (wake_up_interruptible in acquire_sender and                *)
(* tx_queued_unlocked).                                                    *)
NoLostWakeup ==
  \A c \in writeq :
    /\ tx_connection # NULL
    /\ pc[c] = "acquire" => priority[tx_connection] >= priority[c]
    /\ pc[c] = "complete" => tx_connection = c

(* b is the next character of the frame of a, or the first one of another. *)
Follows(a, b) ==
  IF a.conn = b.conn /\ a.frame = b.frame THEN b.pos = a.pos + 1 ELSE b.pos = 1

(* Frames are not mixed on the wire: after a character comes the next one  *)
(* of its frame or the first one of another frame, so that what the module *)
(* receives of a frame is a beginning of it (tx_queued_unlocked).          *)
FramesContiguous ==
  \A i \in 1..(Len(wire) - 1) : Follows(wire[i], wire[i + 1])

(* No character is sent twice, not even when its connection was preempted  *)
(* and wrote again (tx_buf_index is reset before the new frame only).      *)
NoCharTwice ==
  \A i, j \in 1..Len(wire) : wire[i] = wire[j] => i = j

(* Character k of the frame in txbuf of c went to the hardware.            *)
OnWire(c, k) == \E i \in 1..Len(wire) : wire[i] = Char(c, txbuf[c], k)

(* "return number of characters actually sent": a write() that returns n   *)
(* has put exactly the first n characters of its frame on the wire         *)
(* (generic_raw_uart_write).                                               *)
ReturnedCountIsSent ==
  \A c \in Conns : pc[c] = "idle" /\ txbuf[c] > 0 /\ ret[c] >= 0 =>
    \A k \in 1..MaxLength : OnWire(c, k) <=> k <= ret[c]

(* Nothing beyond the frame that was handed over goes to the hardware, the *)
(* rest of a longer earlier frame in txbuf included, whatever chunk and    *)
(* transfer sizes the driver declares and however often the frame was      *)
(* preempted; and write() never returns more than its length argument      *)
(* (generic_raw_uart_tx_queued_unlocked, generic_raw_uart_write).          *)
NothingBeyondFrame ==
  \A c \in Conns :
    /\ pc[c] = "complete" => \A k \in 1..MaxLength : OnWire(c, k) => k <= count[c]
    /\ pc[c] \in {"idle", "poll"} => ret[c] <= count[c]

(* The sender leaves a frame unfinished only for a connection of strictly  *)
(* higher priority (acquire_sender, tx_queued_unlocked).                   *)
UnfinishedOnlyForHigher ==
  [][\A c \in Conns :
       tx_connection = c /\ tx_connection' # c =>
         \/ tx_buf_index'[c] = tx_buf_length[c]
         \/ tx_connection' # NULL /\ priority[tx_connection'] > priority[c]]_vars

(* The threads inside write().                                             *)
Busy == {"copied", "indexed", "acquire", "complete"}

(* A write() returns once the other connections have stopped writing,      *)
(* whatever they sent with which priority before: nobody stays asleep on   *)
(* writeq and the frames come to an end.  While others keep writing a      *)
(* waiting connection may starve: acquire_sender() is no queue, and a      *)
(* higher or equal priority may win the sender every time.                 *)
WriteReturns ==
  \A c \in Conns :
    <>[](\A d \in Conns \ {c} : pc[d] \notin Busy) =>
      (pc[c] \in Busy ~> pc[c] = "idle")

-----------------------------------------------------------------------------
(* The inductive invariants the proofs use (RawUartTx_proofs).             *)

(* A frame that is being written was copied to txbuf before.               *)
FrameCopied ==
  /\ \A c \in Conns : pc[c] \in Busy => txbuf[c] >= 1
  /\ tx_connection # NULL => txbuf[tx_connection] >= 1

(* Only threads in a wait sleep on writeq.                                 *)
SleepersWait == \A c \in writeq : pc[c] \in {"poll", "acquire", "complete"}

(* How far each connection is with its frame, step by step of write().     *)
Progress ==
  \A c \in Conns :
    /\ pc[c] \in {"indexed", "acquire"} => tx_buf_index[c] = 0
    /\ pc[c] = "complete" => tx_buf_index[c] <= tx_buf_length[c]
    /\ pc[c] \in {"acquire", "complete"} => tx_buf_length[c] = count[c]
    /\ pc[c] \in {"idle", "poll"} => ret[c] <= count[c]

(* What the wire holds of the frame in txbuf of c.                         *)
FrameMatches(c) ==
  /\ \A i \in 1..Len(wire) : wire[i].conn = c => wire[i].frame <= txbuf[c]
  /\ pc[c] \in {"copied", "indexed", "acquire"} => \A k \in 1..MaxLength : ~OnWire(c, k)
  /\ pc[c] = "complete" => \A k \in 1..MaxLength : OnWire(c, k) <=> k <= tx_buf_index[c]
  /\ pc[c] \notin Busy /\ txbuf[c] > 0 /\ ret[c] >= 0 =>
       \A k \in 1..MaxLength : OnWire(c, k) <=> k <= ret[c]

WireMatches == \A c \in Conns : FrameMatches(c)

(* The last character on the wire is the one the sender sent last.         *)
WireEnd ==
  tx_connection # NULL /\ tx_buf_index[tx_connection] > 0 =>
    /\ Len(wire) > 0
    /\ wire[Len(wire)] =
         Char(tx_connection, txbuf[tx_connection], tx_buf_index[tx_connection])

TypeInv == TypeOK /\ FrameCopied
SenderInv == SenderIsWriting /\ NoLostWakeup /\ SleepersWait
WireInv == Progress /\ WireMatches /\ WireEnd /\ FramesContiguous /\ NoCharTwice
=============================================================================
