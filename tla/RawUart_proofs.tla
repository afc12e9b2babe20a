--------------------------- MODULE RawUart_proofs --------------------------
(* Proofs about the raw UART as a whole (RawUart): what RawUartTx_proofs   *)
(* and RawUartConn_proofs show about its parts holds of the composition,   *)
(* where connections are opened and closed while others are sending.       *)
EXTENDS RawUart, TLAPS, FiniteSetTheorems

TxP == INSTANCE RawUartTx_proofs
ConnP == INSTANCE RawUartConn_proofs WITH Files <- Conns

(* The assumptions of the parts.                                           *)
LEMMA ConnAssumed ==
  /\ NULL \notin Conns
  /\ ConnP!IsFiniteSet(Conns)
  /\ MAX_CONNECTIONS \in Nat \ {0}
  /\ Signals \subseteq {"open", "close", "reset"}
  /\ MaxModuleRefs \in Nat
BY RawUartAssumption DEF IsFiniteSet, ConnP!IsFiniteSet

(* The invariants of the parts, as their proofs and as RawUart name them.  *)
LEMMA SameConnInv ==
  (ConnP!ConnInv <=> Conn!ConnInv) /\ (ConnP!ConnInv' <=> Conn!ConnInv')
BY DEF ConnP!ConnInv, ConnP!TypeOK, ConnP!SemOwned, ConnP!RoomKept, ConnP!RefsHeld,
  ConnP!OpenCountCovers, ConnP!HwFollowsCount, ConnP!OpenFiles, ConnP!Referencing,
  ConnP!Opened, ConnP!Waiting, ConnP!Holding, ConnP!Cardinality,
  Conn!ConnInv, Conn!TypeOK, Conn!SemOwned, Conn!RoomKept, Conn!RefsHeld,
  Conn!OpenCountCovers, Conn!HwFollowsCount, Conn!OpenFiles, Conn!Referencing,
  Conn!Opened, Conn!Waiting, Conn!Holding, Conn!Cardinality

(* The steps of opening and closing, under both names.                     *)
LEMMA SameConnNext == [ConnP!Next]_ConnP!vars <=> [Conn!Next]_life_vars
BY DEF ConnP!Next, ConnP!vars, ConnP!SetConnectionState, ConnP!Open, ConnP!Close,
  ConnP!ResetIoctl, ConnP!ResetSysfs, ConnP!Down, ConnP!Interrupt, ConnP!OpenChecks,
  ConnP!OpenFails, ConnP!OpenSucceeds, ConnP!Closing, ConnP!ResetReturns, ConnP!Goto,
  ConnP!Waiting, ConnP!Inside, ConnP!Outside, ConnP!CallOf,
  Conn!Next, life_vars, Conn!SetConnectionState, Conn!Open, Conn!Close,
  Conn!ResetIoctl, Conn!ResetSysfs, Conn!Down, Conn!Interrupt, Conn!OpenChecks,
  Conn!OpenFails, Conn!OpenSucceeds, Conn!Closing, Conn!ResetReturns, Conn!Goto,
  Conn!Waiting, Conn!Inside, Conn!Outside, Conn!CallOf

(* Opening and closing connections is not disturbed by the writers.        *)
LEMMA ConnInvStep == Conn!ConnInv /\ [Conn!Next]_life_vars => Conn!ConnInv'
BY ConnP!ConnInvStep, ConnAssumed, SameConnInv, SameConnNext

(* The same for the transmit side.                                         *)
LEMMA SameTxInv ==
  /\ (TxP!TypeInv <=> Tx!TypeInv) /\ (TxP!TypeInv' <=> Tx!TypeInv')
  /\ (TxP!SenderInv <=> Tx!SenderInv) /\ (TxP!SenderInv' <=> Tx!SenderInv')
  /\ (TxP!WireInv <=> Tx!WireInv) /\ (TxP!WireInv' <=> Tx!WireInv')
<1>1. (TxP!TypeInv <=> Tx!TypeInv) /\ (TxP!TypeInv' <=> Tx!TypeInv')
  BY DEF TxP!TypeInv, TxP!TypeOK, TxP!FrameCopied, TxP!Busy, TxP!Chars, TxP!EFAULT,
    TxP!EMSGSIZE, TxP!ERESTARTSYS, Tx!TypeInv, Tx!TypeOK, Tx!FrameCopied, Tx!Busy, Tx!Chars,
    Tx!EFAULT, Tx!EMSGSIZE, Tx!ERESTARTSYS
<1>2. (TxP!SenderInv <=> Tx!SenderInv) /\ (TxP!SenderInv' <=> Tx!SenderInv')
  BY DEF TxP!SenderInv, TxP!SenderIsWriting, TxP!NoLostWakeup, TxP!SleepersWait,
    Tx!SenderInv, Tx!SenderIsWriting, Tx!NoLostWakeup, Tx!SleepersWait
<1>3. (TxP!WireInv <=> Tx!WireInv) /\ (TxP!WireInv' <=> Tx!WireInv')
  BY DEF TxP!WireInv, TxP!Progress, TxP!WireMatches, TxP!FrameMatches, TxP!WireEnd,
    TxP!FramesContiguous, TxP!NoCharTwice, TxP!OnWire, TxP!Char, TxP!Follows, TxP!Busy,
    Tx!WireInv, Tx!Progress, Tx!WireMatches, Tx!FrameMatches, Tx!WireEnd,
    Tx!FramesContiguous, Tx!NoCharTwice, Tx!OnWire, Tx!Char, Tx!Follows, Tx!Busy
<1> QED BY <1>1, <1>2, <1>3

(* The steps of the writers, under both names.                             *)
LEMMA SameTxNext == [TxP!Next]_TxP!vars <=> [Tx!Next]_tx_vars
BY DEF TxP!Next, TxP!vars, TxP!TxQueued, TxP!Write, TxP!ResetIndex, TxP!SetLength,
  TxP!AcquireSender, TxP!SendCompleted, TxP!Interrupt, TxP!SetPriority, TxP!Poll,
  TxP!TxQueuedUnlocked, TxP!NextChars, TxP!Bursts, TxP!Rest, TxP!MayAcquire, TxP!Goto,
  TxP!Return, TxP!Char, TxP!conn_vars, TxP!EFAULT, TxP!EMSGSIZE, TxP!ERESTARTSYS,
  Tx!Next, tx_vars, Tx!TxQueued, Tx!Write, Tx!ResetIndex, Tx!SetLength,
  Tx!AcquireSender, Tx!SendCompleted, Tx!Interrupt, Tx!SetPriority, Tx!Poll,
  Tx!TxQueuedUnlocked, Tx!NextChars, Tx!Bursts, Tx!Rest, Tx!MayAcquire, Tx!Goto,
  Tx!Return, Tx!Char, Tx!conn_vars, Tx!EFAULT, Tx!EMSGSIZE, Tx!ERESTARTSYS

TxInv == Tx!TypeInv /\ Tx!SenderInv /\ Tx!WireInv

(* The steps of the writers keep what they keep on their own.              *)
LEMMA TxInvStep ==
  ASSUME "complete" \notin Interruptible
  PROVE  TxInv /\ [Tx!Next]_tx_vars => TxInv'
BY TxP!TypeInvStep, TxP!SenderInvStep, TxP!WireInvStep, RawUartAssumption, SameTxInv, SameTxNext
   DEF TxInv

-----------------------------------------------------------------------------
(* Nobody is inside a call on a raw UART nobody has opened.                *)
LEMMA RawUartInvInit == Init => RawUartInv
<1> SUFFICES ASSUME Init PROVE RawUartInv
  OBVIOUS
<1>1. TxP!Init /\ ConnP!Init
  BY DEF Init, Tx!Init, Conn!Init, TxP!Init, ConnP!Init
<1>2. Tx!TypeInv /\ Tx!SenderInv /\ Tx!WireInv
  BY <1>1, TxP!TxInvInit, RawUartAssumption, SameTxInv
<1>3. Conn!ConnInv
  BY <1>1, ConnP!ConnInvInit, ConnAssumed, SameConnInv
<1>4. WorkersOpen
  BY DEF Init, Tx!Init, WorkersOpen
<1> QED BY <1>2, <1>3, <1>4 DEF RawUartInv

(* A connection that open() has just cleared is neither the sender nor     *)
(* asleep, so that nobody misses what it had in its fields.                *)
LEMMA ClearedConnection ==
  ASSUME TxInv, NEW c \in Conns, pc[c] = "idle",
         priority' = [priority EXCEPT ![c] = 0],
         tx_buf_index' = [tx_buf_index EXCEPT ![c] = 0],
         tx_buf_length' = [tx_buf_length EXCEPT ![c] = 0],
         UNCHANGED <<pc, count, txbuf, tx_connection, tx_irq, writeq, wire, ret>>
  PROVE  TxInv'
<1> USE RawUartAssumption DEF TxInv
<1>1. tx_connection # c /\ c \notin writeq
  BY DEF Tx!SenderInv, Tx!SenderIsWriting, Tx!SleepersWait
<1>2. Tx!TypeInv'
  BY DEF Tx!TypeInv, Tx!TypeOK, Tx!FrameCopied
<1>3. \A d \in Conns : d # c => priority'[d] = priority[d] /\ tx_buf_index'[d] = tx_buf_index[d]
                                /\ tx_buf_length'[d] = tx_buf_length[d]
  BY DEF Tx!TypeInv, Tx!TypeOK
<1>4. tx_connection \in Conns \cup {NULL} /\ writeq \subseteq Conns
  BY DEF Tx!TypeInv, Tx!TypeOK
<1>5. Tx!SenderInv'
  BY <1>1, <1>3, <1>4 DEF Tx!SenderInv, Tx!SenderIsWriting, Tx!NoLostWakeup, Tx!SleepersWait
<1>6. Tx!Progress'
  BY <1>3 DEF Tx!WireInv, Tx!Progress
<1>7. Tx!WireMatches' /\ Tx!FramesContiguous' /\ Tx!NoCharTwice'
  <2>1. Tx!FramesContiguous' /\ Tx!NoCharTwice'
    BY DEF Tx!WireInv, Tx!FramesContiguous, Tx!NoCharTwice
  <2>2. ASSUME NEW d \in Conns PROVE Tx!FrameMatches(d)'
    <3>1. Tx!FrameMatches(d)
      BY DEF Tx!WireInv, Tx!WireMatches
    <3>2. pc[d] = "complete" => tx_buf_index'[d] = tx_buf_index[d]
      BY <1>3
    <3> QED BY <3>1, <3>2 DEF Tx!FrameMatches, Tx!OnWire
  <2> QED BY <2>1, <2>2 DEF Tx!WireMatches
<1>8. Tx!WireEnd'
  BY <1>1, <1>3, <1>4 DEF Tx!WireInv, Tx!WireEnd
<1> QED BY <1>2, <1>5, <1>6, <1>7, <1>8 DEF Tx!WireInv

(* A sender's connection is open, so that the driver runs.                 *)
LEMMA DriverRuns ==
  ASSUME RawUartInv, tx_connection # NULL
  PROVE  fstate[tx_connection] = "open" /\ hw_running
<1>1. tx_connection \in Conns /\ pc[tx_connection] = "complete"
  BY DEF RawUartInv, Tx!TypeInv, Tx!TypeOK, Tx!SenderInv, Tx!SenderIsWriting
<1>2. fstate[tx_connection] = "open"
  BY <1>1 DEF RawUartInv, WorkersOpen
<1>3. Conn!OpenFiles # {}
  BY <1>1, <1>2 DEF Conn!OpenFiles, Conn!Opened
<1>4. ConnP!OpenFiles # {}
  BY <1>3 DEF Conn!OpenFiles, Conn!Opened, ConnP!OpenFiles, ConnP!Opened
<1>5. ConnP!Cardinality(ConnP!OpenFiles) \in Nat /\ ConnP!Cardinality(ConnP!OpenFiles) # 0
  BY <1>4, ConnP!FilesFinite, ConnAssumed
<1>6. ConnP!OpenCountCovers /\ ConnP!HwFollowsCount /\ ConnP!TypeOK
  BY SameConnInv DEF RawUartInv, ConnP!ConnInv
<1>7. open_count \in Nat
  BY <1>6, RawUartAssumption DEF ConnP!TypeOK
<1>8. open_count > 0
  BY <1>5, <1>6, <1>7 DEF ConnP!OpenCountCovers
<1> QED BY <1>2, <1>6, <1>8 DEF ConnP!HwFollowsCount

(* Every step is one of opening and closing, or leaves that alone.         *)
LEMMA ConnSteps == [Next]_vars => [Conn!Next]_life_vars
BY DEF Next, vars, Call, TxQueued, Open, Close, Other, Conn!Next

(* The calls that wait for the connection, and closing, find nobody at     *)
(* work on it.                                                             *)
LEMMA WorkersStay ==
  ASSUME RawUartInv, [Next]_vars
  PROVE  WorkersOpen'
<1>1. pc \in [Conns -> {"idle", "poll", "copied", "indexed", "acquire", "complete"}]
  BY DEF RawUartInv, Tx!TypeInv, Tx!TypeOK
<1>2. DOMAIN fstate = Conns /\ fstate = [c \in Conns |-> fstate[c]]
  BY DEF RawUartInv, Conn!ConnInv, Conn!TypeOK
<1>3. WorkersOpen
  BY DEF RawUartInv
<1>4. ASSUME NEW ready \in {0, 1}, TxQueued(ready) PROVE WorkersOpen'
  BY <1>3, <1>4 DEF TxQueued, Tx!TxQueued, life_vars, WorkersOpen
<1>5. ASSUME NEW c \in Conns, Call(c) PROVE WorkersOpen'
  <2>1. fstate[c] = "open" /\ UNCHANGED fstate
    BY <1>5 DEF Call, life_vars
  <2>2. ASSUME NEW d \in Conns, d # c PROVE pc'[d] = pc[d]
    <3>1. \A n : Tx!Write(c, n) => pc'[d] = pc[d]
      BY <1>1, <2>2 DEF Tx!Write, Tx!Return, Tx!Goto
    <3>2. WriteStep(c) => pc'[d] = pc[d]
      BY <1>1, <2>2 DEF WriteStep, Tx!ResetIndex, Tx!SetLength, Tx!AcquireSender,
         Tx!SendCompleted, Tx!Return, Tx!Goto
    <3>3. Tx!Interrupt(c) \/ (\E p \in Priorities : Tx!SetPriority(c, p)) \/ Tx!Poll(c) =>
            pc'[d] = pc[d]
      BY <1>1, <2>2 DEF Tx!Interrupt, Tx!SetPriority, Tx!Poll, Tx!Return, Tx!Goto
    <3> QED BY <1>5, <3>1, <3>2, <3>3 DEF Call
  <2> QED BY <1>3, <2>1, <2>2 DEF WorkersOpen
<1>6. ASSUME NEW c \in Conns, NEW t, UNCHANGED pc, Conn!Goto(c, t),
             pc[c] = "idle" \/ fstate[c] # "open"
      PROVE  WorkersOpen'
  BY <1>2, <1>3, <1>6 DEF WorkersOpen, Conn!Goto
<1>7. ASSUME NEW c \in Conns, Open(c) PROVE WorkersOpen'
  <2>1. UNCHANGED pc
    BY <1>7 DEF Open, tx_vars
  <2>2. fstate[c] # "open" /\ \E t : Conn!Goto(c, t)
    BY <1>7 DEF Open, Conn!Open, Conn!OpenChecks, Conn!OpenFails, Conn!OpenSucceeds
  <2> QED BY <1>6, <2>1, <2>2
<1>8. ASSUME NEW c \in Conns, Close(c) PROVE WorkersOpen'
  <2>1. UNCHANGED pc
    BY <1>8 DEF Close, tx_vars
  <2>2. (pc[c] = "idle" \/ fstate[c] # "open") /\ \E t : Conn!Goto(c, t)
    BY <1>8 DEF Close, Conn!Close, Conn!Closing
  <2> QED BY <1>6, <2>1, <2>2
<1>9. ASSUME NEW c \in Conns, Other(c) PROVE WorkersOpen'
  <2>1. UNCHANGED pc
    BY <1>9 DEF Other, tx_vars
  <2>2. (pc[c] = "idle" \/ fstate[c] # "open") /\ \E t : Conn!Goto(c, t)
    BY <1>9 DEF Other, Conn!ResetIoctl, Conn!ResetSysfs, Conn!ResetReturns, Conn!Down,
       Conn!Interrupt, Conn!Waiting
  <2> QED BY <1>6, <2>1, <2>2
<1>10. CASE Conn!SetConnectionState /\ UNCHANGED tx_vars
  BY <1>3, <1>10 DEF Conn!SetConnectionState, tx_vars, WorkersOpen
<1>11. CASE UNCHANGED vars
  BY <1>3, <1>11 DEF vars, tx_vars, life_vars, WorkersOpen
<1> QED BY <1>4, <1>5, <1>7, <1>8, <1>9, <1>10, <1>11 DEF Next

(* RawUartInv is inductive as long as no signal ends the wait for          *)
(* completion.                                                             *)
LEMMA RawUartInvStep ==
  ASSUME "complete" \notin Interruptible
  PROVE  RawUartInv /\ [Next]_vars => RawUartInv'
<1> SUFFICES ASSUME RawUartInv, [Next]_vars PROVE RawUartInv'
  OBVIOUS
<1>0. TxInv /\ Conn!ConnInv /\ WorkersOpen
  BY DEF RawUartInv, TxInv
<1>1. Conn!ConnInv' /\ WorkersOpen'
  BY <1>0, ConnSteps, ConnInvStep, WorkersStay
<1>2. CASE [Tx!Next]_tx_vars
  BY <1>0, <1>1, <1>2, TxInvStep DEF TxInv, RawUartInv
<1>3. ASSUME NEW c \in Conns, Conn!OpenSucceeds(c), Open(c), ~UNCHANGED tx_vars PROVE TxInv'
  <2>1. fstate[c] = "starting"
    BY <1>3 DEF Conn!OpenSucceeds
  <2>2. pc[c] = "idle"
    BY <1>0, <2>1 DEF WorkersOpen
  <2> QED BY <1>0, <1>3, <2>2, ClearedConnection DEF Open
<1>4. ASSUME NEW c \in Conns, Conn!Closing(c), Close(c), ~UNCHANGED tx_vars PROVE TxInv'
  <2>1. tx_irq' = (tx_irq /\ hw_running') /\
        UNCHANGED <<pc, priority, count, txbuf, tx_buf_index, tx_buf_length,
                    tx_connection, writeq, wire, ret>>
    BY <1>4 DEF Close
  <2>2. tx_irq \in BOOLEAN /\ (tx_irq <=> tx_connection # NULL)
    BY <1>0 DEF TxInv, Tx!TypeInv, Tx!TypeOK, Tx!SenderInv, Tx!SenderIsWriting
  <2>3. tx_connection # NULL => hw_running'
    <3>1. SUFFICES ASSUME tx_connection # NULL PROVE hw_running'
      OBVIOUS
    <3>2. fstate[tx_connection] = "open" /\ tx_connection \in Conns
      BY <3>1, <1>0, DriverRuns DEF TxInv, Tx!TypeInv, Tx!TypeOK
    <3>3. fstate'[tx_connection] = "open"
      BY <1>4, <3>2 DEF Conn!Closing, Conn!Goto
    <3>4. ConnP!OpenFiles' # {}
      BY <3>2, <3>3 DEF ConnP!OpenFiles, ConnP!Opened
    <3>5. ConnP!Cardinality(ConnP!OpenFiles') \in Nat /\ ConnP!Cardinality(ConnP!OpenFiles') # 0
      <4>1. ConnP!OpenFiles' \in SUBSET Conns
        BY DEF ConnP!OpenFiles
      <4> QED BY <3>4, <4>1, ConnP!CountsSomebody, ConnAssumed
    <3>6. (ConnP!OpenCountCovers /\ ConnP!HwFollowsCount /\ ConnP!TypeOK)'
      BY <1>1, SameConnInv DEF ConnP!ConnInv
    <3>7. open_count' \in Nat
      BY <3>6, RawUartAssumption DEF ConnP!TypeOK
    <3>8. open_count' > 0
      BY <3>5, <3>6, <3>7 DEF ConnP!OpenCountCovers
    <3> QED BY <3>6, <3>8 DEF ConnP!HwFollowsCount
  <2>4. tx_irq' = tx_irq
    BY <2>1, <2>2, <2>3, <1>1 DEF Conn!ConnInv, Conn!TypeOK
  <2>5. UNCHANGED tx_vars
    BY <2>1, <2>4 DEF tx_vars
  <2> QED BY <1>4, <2>5
<1>5. [Tx!Next]_tx_vars \/ TxInv'
  <2>1. ASSUME NEW ready \in {0, 1}, TxQueued(ready) PROVE [Tx!Next]_tx_vars
    BY <2>1 DEF TxQueued, Tx!Next
  <2>2. ASSUME NEW c \in Conns, Call(c) PROVE [Tx!Next]_tx_vars
    BY <2>2 DEF Call, WriteStep, Tx!Next
  <2>3. ASSUME NEW c \in Conns, Open(c) PROVE [Tx!Next]_tx_vars \/ TxInv'
    BY <2>3, <1>3 DEF Open
  <2>4. ASSUME NEW c \in Conns, Close(c) PROVE [Tx!Next]_tx_vars \/ TxInv'
    BY <2>4, <1>4 DEF Close
  <2>5. ASSUME NEW c \in Conns, Other(c) PROVE [Tx!Next]_tx_vars
    BY <2>5 DEF Other
  <2> QED BY <2>1, <2>2, <2>3, <2>4, <2>5 DEF Next, vars
<1> QED BY <1>0, <1>1, <1>2, <1>5 DEF RawUartInv, TxInv

(* The inductive invariant holds in every state.                           *)
LEMMA RawUartInvariant ==
  ASSUME "complete" \notin Interruptible
  PROVE  Spec => []RawUartInv
BY RawUartInvInit, RawUartInvStep, PTL DEF Spec

(* As long as no signal ends the wait for completion, the sender never     *)
(* works on a connection that close() has freed (generic_raw_uart_write,   *)
(* generic_raw_uart_close).                                                *)
THEOREM SenderIsOpen ==
  ASSUME "complete" \notin Interruptible
  PROVE  Spec => []NoDanglingSender
<1>1. RawUartInv => NoDanglingSender
  BY DriverRuns DEF NoDanglingSender
<1> QED BY <1>1, RawUartInvariant, PTL

(* As long as no signal ends the wait for completion, the last close()     *)
(* never stops the hardware in the middle of a frame                       *)
(* (generic_raw_uart_close, stop_connection), whichever of open(), close() *)
(* and reset a signal interrupts.                                          *)
THEOREM HwStaysForSender ==
  ASSUME "complete" \notin Interruptible
  PROVE  Spec => []HwRunsWhileSending
<1>1. RawUartInv => HwRunsWhileSending
  BY DriverRuns DEF HwRunsWhileSending, RawUartInv, Tx!SenderInv, Tx!SenderIsWriting
<1> QED BY <1>1, RawUartInvariant, PTL

(* What the transmit side promises of the wire and of the results of       *)
(* write() it also keeps while connections come and go (conn is allocated  *)
(* and cleared by open(), freed by close()).                               *)
THEOREM WireSurvivesReopening ==
  ASSUME "complete" \notin Interruptible
  PROVE  Spec => []( /\ Tx!FramesContiguous /\ Tx!NoCharTwice
                     /\ Tx!ReturnedCountIsSent )
<1>1. RawUartInv => /\ Tx!FramesContiguous /\ Tx!NoCharTwice
                    /\ Tx!ReturnedCountIsSent
  BY DEF RawUartInv, Tx!WireInv, Tx!WireMatches, Tx!FrameMatches, Tx!ReturnedCountIsSent,
     Tx!Busy
<1> QED BY <1>1, RawUartInvariant, PTL
=============================================================================
