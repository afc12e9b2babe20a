------------------------------ MODULE RawUart ------------------------------
(***************************************************************************)
(* The raw UART as a whole: the connections that RawUartConn opens and     *)
(* closes are the ones that write through RawUartTx.  A connection's       *)
(* memory is allocated by open() and freed by close(), tx_connection       *)
(* points to it, and the last close() stops the hardware whose interrupt   *)
(* sends the characters.                                                   *)
(***************************************************************************)
EXTENDS Integers, Sequences, FiniteSets

CONSTANTS Conns, NULL, Priorities, MaxLength, ChunkSize, BulkSize, MaxWrites,
          Interruptible, MAX_CONNECTIONS, Signals, MaxModuleRefs

ASSUME RawUartAssumption ==
  /\ NULL \notin Conns /\ IsFiniteSet(Conns)
  /\ Priorities \subseteq Nat /\ 0 \in Priorities
  /\ MaxLength \in Nat \ {0} /\ ChunkSize \in Nat \ {0} /\ BulkSize \in Nat \ {0}
  /\ MaxWrites \in Nat
  /\ Interruptible \subseteq {"acquire", "complete"}
  /\ MAX_CONNECTIONS \in Nat \ {0}
  /\ Signals \subseteq {"open", "close", "reset"}
  /\ MaxModuleRefs \in Nat

VARIABLES
  \* RawUartTx
  pc, priority, count, txbuf, tx_buf_index, tx_buf_length, tx_connection,
  tx_irq, writeq, wire, ret,
  \* RawUartConn
  fstate, open_count, connection_state, sem, hw_running, module_refs

Tx == INSTANCE RawUartTx
Conn == INSTANCE RawUartConn WITH Files <- Conns

tx_vars == <<pc, priority, count, txbuf, tx_buf_index, tx_buf_length,
             tx_connection, tx_irq, writeq, wire, ret>>
life_vars == <<fstate, open_count, connection_state, sem, hw_running, module_refs>>

vars == <<tx_vars, life_vars>>

Init == Tx!Init /\ Conn!Init

(* The calls on an open connection that hold its semaphore or need none.   *)
WriteStep(c) ==
  Tx!ResetIndex(c) \/ Tx!SetLength(c) \/ Tx!AcquireSender(c) \/ Tx!SendCompleted(c)

Call(c) ==
  /\ fstate[c] = "open"
  /\ \/ \E n \in 0..(MaxLength + 1) : Tx!Write(c, n)
     \/ WriteStep(c)
     \/ Tx!Interrupt(c)
     \/ \E p \in Priorities : Tx!SetPriority(c, p)
     \/ Tx!Poll(c)
  /\ UNCHANGED life_vars

(* The transmit interrupt, which a stopped driver has freed.               *)
TxQueued(ready) ==
  /\ hw_running
  /\ Tx!TxQueued(ready)
  /\ UNCHANGED life_vars

(* open() and its errors; the connection's memory is cleared.  The first   *)
(* open() initialises the wait queues, on which nobody sleeps then.        *)
Open(c) ==
  \/ /\ Conn!Open(c) \/ Conn!OpenChecks(c) \/ Conn!OpenFails(c)
     /\ UNCHANGED tx_vars
  \/ /\ Conn!OpenSucceeds(c)
     /\ priority' = [priority EXCEPT ![c] = 0]
     /\ tx_buf_index' = [tx_buf_index EXCEPT ![c] = 0]
     /\ tx_buf_length' = [tx_buf_length EXCEPT ![c] = 0]
     /\ UNCHANGED <<pc, count, txbuf, tx_connection, tx_irq, writeq, wire, ret>>

(* Mutant: close() does not wait for the connection's semaphore.           *)
CloseUnderWriter(c) ==
  \/ Conn!Close(c) /\ UNCHANGED tx_vars
  \/ /\ Conn!Closing(c)
     /\ tx_irq' = (tx_irq /\ hw_running')
     /\ UNCHANGED <<pc, priority, count, txbuf, tx_buf_index, tx_buf_length,
                    tx_connection, writeq, wire, ret>>

(* close() of a connection nobody is working on any more; the last one     *)
(* stops the driver, which disables its interrupts.                        *)
Close(c) ==
  \/ /\ pc[c] = "idle"
     /\ Conn!Close(c)
     /\ UNCHANGED tx_vars
  \/ /\ Conn!Closing(c)
     /\ tx_irq' = (tx_irq /\ hw_running')
     /\ UNCHANGED <<pc, priority, count, txbuf, tx_buf_index, tx_buf_length,
                    tx_connection, writeq, wire, ret>>

(* The reset, through the connection's ioctl (its semaphore held) or       *)
(* through sysfs; and the instance's semaphore.                            *)
Other(c) ==
  /\ \/ pc[c] = "idle" /\ Conn!ResetIoctl(c)
     \/ Conn!ResetSysfs(c)
     \/ Conn!ResetReturns(c) \/ Conn!Down(c) \/ Conn!Interrupt(c)
  /\ UNCHANGED tx_vars

Next ==
  \/ \E ready \in {0, 1} : TxQueued(ready)
  \/ \E c \in Conns : Call(c) \/ Open(c) \/ Close(c) \/ Other(c)
  \/ Conn!SetConnectionState /\ UNCHANGED tx_vars

(* A thread inside write() keeps running, and a running transmitter keeps  *)
(* asking for characters.                                                  *)
Fairness ==
  /\ WF_vars(TxQueued(1))
  /\ \A c \in Conns : WF_vars(fstate[c] = "open" /\ WriteStep(c) /\ UNCHANGED life_vars)

Spec == Init /\ [][Next]_vars
FairSpec == Spec /\ Fairness

-----------------------------------------------------------------------------
TypeOK == Tx!TypeOK /\ Conn!TypeOK

(* tx_connection, the "connection which is currently sending", is open: it *)
(* never points to a connection that close() has freed                     *)
(* (generic_raw_uart_close, generic_raw_uart_write).                       *)
NoDanglingSender == tx_connection # NULL => fstate[tx_connection] = "open"

(* The last close() never stops the hardware in the middle of a frame: as  *)
(* long as there is a sender the driver runs and its transmit interrupt is *)
(* enabled (generic_raw_uart_close, stop_connection).                      *)
HwRunsWhileSending == tx_connection # NULL => hw_running /\ tx_irq

(* A write() returns once the other connections have stopped writing, also *)
(* while connections come and go (generic_raw_uart_write).  This assumes a *)
(* driver that keeps asking for characters until the frame has ended.      *)
WriteReturns == Tx!WriteReturns

-----------------------------------------------------------------------------
(* The inductive invariant the proofs use (RawUart_proofs): only on an     *)
(* open connection somebody is inside write() or poll().                   *)
WorkersOpen == \A c \in Conns : pc[c] # "idle" => fstate[c] = "open"

RawUartInv == Tx!TypeInv /\ Tx!SenderInv /\ Tx!WireInv /\ Conn!ConnInv /\ WorkersOpen
=============================================================================
