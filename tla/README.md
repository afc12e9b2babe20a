# A TLA+ model of piVCCU

piVCCU runs the Homematic CCU3 firmware in a container. Its own core logic is a
set of Linux kernel modules that give the firmware its radio module, a tool
that finds out which radio module is attached, and host scripts around them.
This directory holds TLA+ models of that logic, the TLC configurations that
check them, and TLAPS proofs.

Paths and line numbers refer to the repository's `src/`.

## Inventory

| Part | State | Operations | What is hard |
|---|---|---|---|
| **raw UART device** `kernel/generic_raw_uart.c` | per instance: `tx_connection`, `rxbuf`, `open_count`, `connection_state`, wait queues, `lock_tx`, `sem`; per connection: `txbuf`, `tx_buf_index`, `tx_buf_length`, `priority`, `sem` | open, close, read, write, poll, ioctl, reset; called by the driver: `handle_rx_char`, `rx_completed`, `tx_queued` | several writers and the interrupt share the sender; priorities preempt in the middle of a frame; a lock-free ring; signals end any wait; freeing what others still point to |
| **UART drivers** `dw_apb_`, `pl011_`, `meson_raw_uart.c` | hardware registers, interrupt | start/stop, init/stop tx, interrupt handler | the interrupt races with everything above |
| **USB adapters** `hb_rf_usb.c`, `hb_rf_usb_2.c` | URBs, `is_in_tx`, reference count | probe, disconnect, URB callbacks | unplugging while open; failing submits |
| **network adapter** `hb_rf_eth.c` | socket, 32-entry transmit queue, two threads, sequence counters | connect, disconnect, send and receive threads | reconnect against running threads, queue overflow, lost packets |
| **character loop** `eq3_char_loop.c` | per channel: two rings, `created`, `slave_open_count`, `pending_events`, `sem`, two wait queues | create, open/close on both sides, read, write, poll, events | wake-ups across sides, either side may go first, creation races with opening |
| **simulated radio module** `fake_hmrf.c`, `hm.h` | receive ring, module parameters | read, write (parse a request, put an answer) | partial frames, full buffer |
| **radio module detection** `detect_radio_module/` | detection state, message counter, stream parser | send frame, handle frame, timeouts | late and repeated answers, escapes split over reads |
| **LEDs** `rpi_rf_mod_led.c` | three LEDs and the GPIO pins of the selected device | set pins, set brightness | change of device while LEDs are lit |
| **RTC, LED trigger, platform data** | | | copies of upstream drivers, or data |
| **connection monitor** `wait_sysfs_notify/`, host scripts, packaging | | | a missed change of `connection_state` |

How they interact: the UART, USB and network drivers register with the raw
UART device (`generic_raw_uart_probe`) and are called through `struct
raw_uart_driver` (`start_connection`, `stop_connection`, `init_tx`, `tx_chars`,
`stop_tx`, `reset_radio_module`); they call back when characters arrived or
can be sent. The firmware's multimacd opens the raw UART, creates channels of
the character loop as master and serves the programs that open the slaves. The
detection tool uses the raw UART before the firmware does. The monitor waits
on the `connection_state` attribute the network driver changes.

Properties that make each part correct:

- raw UART, transmit: frames are not mixed, only a higher priority interrupts a
  frame, `write()` reports what was sent, everybody is woken, every `write()`
  returns.
- raw UART, receive: the ring is a first-in first-out queue that only loses
  characters when it is full; interrupt and reader never touch the same slot;
  readers are woken.
- raw UART, connections: `open_count` is exact, the hardware runs while the
  device is open, a reset disturbs nobody else; together with writing:
  `tx_connection` never dangles.
- character loop: both rings deliver what was written, one slave at a time, no
  lost wake-up, the master learns the slave's state, the node lives as long as
  it is used.
- network adapter: the queue delivers in order and loses only when it is full,
  the LEDs of the board follow, no thread loses the socket it uses, a
  disconnect ends and leaves nothing of the connection behind.
- USB adapters: the port is freed when nobody uses it, `is_in_tx` tells the
  truth, the read URB is submitted exactly while the device is open, LEDs and
  reset pulse leave each other alone.
- detection and simulated radio module: what is printed about a radio module is
  true however late or incomplete its answers are, the detection ends, a frame
  survives encoding, the ring and the parser, or is recognised as damaged.

## Modules

| Module | Models | Kind |
|---|---|---|
| `RawUartTx` | `write()`, `poll()` for output, the priority ioctl, the transmit interrupt | component |
| `RawUartRx` | `handle_rx_char`, `rx_completed`, `read()`, `poll()` for input | component |
| `LossyFifo` | what the receive buffer promises | abstract specification |
| `RawUartConn` | `open()`, `close()`, resets, `connection_state` | component |
| `RawUart` | `RawUartTx` and `RawUartConn` together | composition |
| `Eq3Loop` | one channel of the character loop | component |
| `HbRfEth` | `hb_rf_eth.c`: message queue, send and receive threads, connect and disconnect | component |
| `UsbPort` | `hb_rf_usb.c` and `hb_rf_usb_2.c` under the files of `RawUartConn` | component and composition |
| `Detector` | `detect_radio_module`: main thread, reader thread, radio module (external) | component |
| `HmFrame` | the frame codecs of `hmframe.cpp` and `hm.h` | operators |
| `StreamParser` | `streamparser.cpp` | operators |
| `FakeHmrf` | `fake_hmrf.c` and the reader thread, with the two modules above | component and composition |
| `CircBuf` | macros of `linux/circ_buf.h` (external) | operators |
| `RawUartTx_proofs`, `RawUartRx_proofs`, `RawUartConn_proofs`, `RawUart_proofs`, `Eq3Loop_proofs`, `HbRfEth_proofs`, `UsbPort_proofs`, `Detector_proofs` | theorems about the module of that name | proofs |
| `MC*` | instances for TLC | model checking |

Operators introduced by a comment that begins with "Mutant" are deliberately
wrong variants of the definition that follows them; no specification uses
them. Substituting one for its original makes the named property fail, which
shows that the property depends on that part of the code.

### RawUartTx

A frame is a number, a character is `[conn, frame, pos]`; `wire` records what
went to the hardware. `lock_tx` makes `acquire_sender`, `send_completed` and
`tx_queued` atomic; the stores that prepare a frame (lines 259-267) are
separate steps because no lock covers them. `pc[c]` is the position of the
thread that holds the semaphore of connection `c` (`"idle"` and `"poll"`: it is
free). `Bursts` is the chunk loop: transfers of `BulkSize` are started until
`ChunkSize` is reached, the frame ends or the hardware is not ready. A thread
that enters `wait_event_interruptible` is on the queue before it evaluates the
condition, so evaluating a false condition and falling asleep is one step.
`Interruptible` says which of the two waits of `write()` signals may end.
A poll of a connection while another thread writes on it is left out: it
changes nothing and only sleeps.

### RawUartRx

One step per store to `head`, `tail` and the buffer, so that the reader sees
`head = CIRCBUF_SIZE` and the interrupt sees `tail = CIRCBUF_SIZE` for a
moment, as in the code. Statistics counters and the traffic dump are left out.
`LossyFifo` is the abstract queue; the refinement mapping hides the character
that is being stored (`seen`) and reads the queue out of the ring.

### RawUartConn

A process is in `open()`, `close()` or a reset, and waits for or holds
`instance->sem`. `Signals` says which calls a signal may interrupt while they
wait for the semaphore. A failing `open()` keeps its module reference, as in
the code.

### RawUart

`INSTANCE`s of both: calls need an open connection, `close()` needs that nobody
works on the connection, the transmit interrupt needs running hardware, the
last `close()` disables it and `open()` clears the connection's memory.

### Eq3Loop

Under `channel->sem` a call is two steps, taking the semaphore and doing the
work; the wait conditions and the event bits are evaluated without it. Bytes
are numbered; `Put` and `Take` copy in two pieces as the code does. `Read`,
`Write` and `Poll` each stand for the slave's and the master's function, which
differ in the ring (`Dir`) and in the test for the peer (`PeerGone`).
`device_create()` returns an error pointer, which the code compares with NULL;
so its failure goes unnoticed, and after `CreateBegin` there may be a new node or
none. A slave's `open()` and `close()` change two bits of `pending_events` one
after the other while the ioctl reads them without the semaphore; they are split
there (`OpenSlave`/`SlaveOpened`, `CloseSlave`/`SlaveClosed`, in between
`BetweenBits`). The history variable `misled` records that the last state the
master read was read at such a moment.
`Orderly` and `Faults` restrict the environment: see the runs. `close()` is not
interrupted by signals, and one thread at a time asks for events. The four
channels differ only in their number, so one is modelled, and the control
device's semaphore with it is left out.

### HbRfEth

Three threads: the administrator (a write to `connect`, the module parameter or
unloading), the receive and the send thread. `_sock` is read into a register
(`held`) before it is used, as in the code, so a thread can work with a socket
that another one releases; `live` are the sockets that exist. `QueueMsg` fills
a slot under `queue_write_lock` and `QueuePublish` stores the new `head`. A
packet is its command; a packet of wrong length or checksum is `"invalid"`. The
50 ms, 100 ms and 5 s of the code are nondeterministic: a wait may end at any
time. `SendMsg` may fail on a live socket too. `pending`, `board_gpio` (the value
last handed to the socket) and `gpio_lost` (a change of the LEDs was dropped or
could not be sent) are history variables. Assumed:
one administrator, `kthread_stop()` finds the thread it has read from
`k_recv_thread` still there, and both threads start within 5 s.

### UsbPort

`Conn == INSTANCE RawUartConn`: every file operation of the raw UART is taken
from there, and `OpenSucceeds`, `Closing` and `ResetReturns` add what the
driver's `start_connection`, `stop_connection` and `reset_radio_module` do.
URBs are `"none"` (not allocated), `"idle"` or `"active"`; a completion handler
is two steps, and `usb_kill_urb()` refuses submissions and waits for handler and
URB (external: the USB core). A submission may also fail for want of memory; the
drivers ignore that, and `failed` records it. `TxQueued` sets `is_in_tx` and
`TxSubmit` fills and submits the URB; before `init_uart()` has allocated it,
`tx_chars()` dereferences a NULL pointer there (`submitting = "oops"`, after
which nobody sends any more). `StopConnection` is the driver's part of the last
`close()`, up to the `kref_put()` that may free port and raw UART, and `Closing`
the `up()` and `module_put()` after it. `kref_put()` waits for writers of the
attributes, but neither for calls inside `open()` nor inside `close()`. `chip`
chooses the driver: the CP2102N takes a mask of pins, the FT232R sets all of
them at once, and the CP2102 has neither LEDs nor a reset pulse. One LED stands
for three, and of a frame only the number of chunks is kept. A signal may end
`write()` at any time; the rest of its frame is sent all the same.

### Detector

`pc` is the place of the main thread, `reading` the frame in the reader
thread's hands. A frame has its real destination, command, length and status,
the things `handleFrame` looks at, and a tag for its content (`Nothing` when it
has none). The state is read
(`Step`) before the request for it is sent (`Switch`), and the reader may change
it in between. `sem_timedwait()` ends when the semaphore was given or at any
time. Requests and answers may be lost at any point and arbitrarily late, but
keep their order, as on a serial line. `kind` is the radio module: what its
bootloader and application are called and what they answer (`KindsAssumption`:
the program `Co_CPU_App` is that of the HM-MOD-RPI-PCB, as `handleFrame`
concludes from its name).

### HmFrame, StreamParser and FakeHmrf

Bytes are numbers, and checksum, length and escaping are computed as in the
code. `FakeHmrf` runs a request through `Encode` (HMFrame), `DecodeFrameBuffer`
and `TryParseFrame` (driver), builds the answer with `EncodeFrame` and
`EncodeFrameBuffer`, adds it character by character to the ring and feeds what
is read to `AppendChar`. `hm.h` and `hmframe.cpp` hold the same checksum and
layout twice; one definition stands for both (`Crc`, `EncodeFrame`,
`TryParseFrame`). `encodeFrameBuffer()` escapes a start byte only if exactly one
byte follows it: `Torn` marks the answers it leaves ambiguous. One thread reads,
without sleeping, and `ReadSizes` bounds what it asks for. A buffer longer than
`BUF_SIZE` is refused. `decodeFrameBuffer()` runs past a buffer that ends in an
escape (`hm.h` 180-183: `len` passes zero); what follows is undefined, and no
request of the model ends so (`GarbageAssumption`).

## Runs

| Run | Bounds | Shows |
|---|---|---|
| `tx_safety` | 3 connections (the source's maximum), frames of 0-3 characters and one too long, transfers of 2, chunk 3, two priorities, one frame each; symmetry in the connections | `SenderIsWriting`, `NoLostWakeup`, `FramesContiguous`, `NoCharTwice`, `ReturnedCountIsSent`, `NothingBeyondFrame`, `UnfinishedOnlyForHigher` |
| `rx_ring` | 2 readers, 4 slots, 7 characters (head and tail wrap), reads of 0-3 | `IsLossyFifo`, `SlotsDisjoint`, `NoLostRxWakeup`, `ReaderGoesOn` |
| `connections` | 4 processes, 3 connections; symmetry | `OpenCountExact`, `HwRunsWhileOpen`, `ResetAlone`, `ModuleHeld` |
| `raw_uart` | 2 connections that open, write up to 2 characters and close, two priorities | `NoDanglingSender`, `HwRunsWhileSending`, `WriteReturns` under fairness |
| `raw_uart_signal` | as before, signals end both waits of `write()` | violation of `NoDanglingSender` |
| `loop_data` | 4 slots, 5 bytes from the master, transfers of 0-3, slave closes and opens, events may fail to be stored | `RingIsFifo` |
| `loop_life` | 1 master, 2 slaves, rings of one byte | `OneSlave`, `ReadersWoken`, `MasterKnowsState`, `NodeUntilLastClose`, `MasterCloseEndsRead` under fairness |
| `loop_signal` | 1 master, 1 slave, a signal always pending for the master | violation of `SignalEndsWrite` |
| `eth` | ring of 4 slots, 3 sockets, one LED and one other command, sends that fail | `QueueInOrder`, `LedsFollow`, `DisconnectLeavesNothing`, `SocketKept`, `DisconnectReturns` under fairness |
| `usb` | 2 processes, the three chips, failing submissions, writes of 1 or 2 chunks, plugged in and out once; symmetry | `FreedIsUnused`, `ListensWhileOpen`, `TxFlagExact`, `PinsFollow` |
| `detector` | nine kinds of radio module, started in either program, two retries | `ReportIsTrue`, `DetectionEnds` under fairness |
| `fake` | 2 writers, 3 answers, ring of 16, requests whose counters, destinations or checksums meet the special bytes (three that are answered; of all counters, those whose checksum has to be escaped), a frame with a wrong checksum and a buffer that is too long; symmetry | `RequestsUnderstood`, `AnswersArrive` |

Why the bounds are enough: preemption needs two connections and a third one to
wait meanwhile; a chunk of 3 in transfers of 2 has a full and a shortened last
transfer. That buffers are reused by later frames, also after a preemption, is
covered by the proofs, which do not bound the number of frames. Four slots are
the smallest ring in which the pieces before and after the end of the array
both have more than one size; seven characters make head and tail wrap while the
ring is full and while it is empty. Four processes exceed three connections by
one. The reads and writes of both directions of the loop are the same
definitions, so it is enough that one ring wraps. Three sockets are one more
than can be in use: that of the connection and one that the send thread still
holds; all commands other than the LEDs go through the queue alike, so one
stands for them. Two processes are enough for one to use the device
while the other is at any place of `open()`, `close()` or a reset, and two
chunks for a transfer that the completion handler starts. A second retry of the
detection differs from the third only in number. A ring of 16 is smaller than
two answers: it overflows, wraps inside an answer and joins answers. For all
safety properties but those of `fake` the theorems below remove the bounds.

Bounds of counters, in the guards of the actions that increase them:
`MaxWrites`, `MaxRx`, `MaxModuleRefs`, `MaxCount`, `MaxWritten`, `MaxChunks`,
`MaxAnswers`. `QUEUE_LENGTH`, `RX_BUF_SIZE`, `BUFFER_SIZE` and `Retries` are
constants of the code with smaller values. Deadlock is not checked in `eth`,
`usb` and `fake`, which end when the module is unloaded, the device is gone or
the last answer is read.

### Fairness

- A thread inside a call that is not asleep is eventually scheduled (weak
  fairness of its steps).
- Priorities let a connection that writes again and again keep the others waiting.
  `WriteReturns` therefore has a premise: from some time on no other connection
  is inside `write()`. In the run every connection writes one frame, so that the premise
  is always met; the property claims nothing about starvation.
- While the transmitter is enabled the hardware keeps interrupting and takes at
  least one character (weak fairness of `TxQueued(1)`): a UART with an empty
  FIFO raises its interrupt until it is served. `hb_rf_eth.c` is no such driver: it
  never asks for a second chunk.
- An interrupt handler runs to its end and then calls `rx_completed`.
- A kernel semaphore queues its waiters, so a thread waiting in `down` gets it
  (strong fairness of `Down` in `Eq3Loop`).
- The send, receive and administrator threads of `hb_rf_eth.c` are scheduled
  (weak fairness of each), timeouts included; who holds `queue_write_lock` goes
  on. Nothing is assumed of the board.
- The detection's two threads are scheduled, and `sem_timedwait()` returns after
  3 s. Nothing is assumed of the radio module or the line.

Nobody has to call `open()`, `read()`, `write()` or `poll()`, and no signal has
to arrive (except in `loop_signal`, which is about one that did).

### What the violations show

1. `raw_uart_signal`: `write()` returns when a signal interrupts its wait for
   completion (277-281) but the sender keeps working on the connection: the next
   `write()` changes the buffer under it, and `close()` frees the connection
   (425) that `tx_connection` still points to.
2. `loop_signal`: `write()` of the master to a full ring without slave loops in
   the kernel and no signal ends it (350-359).

### Further violations

TLC refutes these too, with the constants given; they are not kept as runs.

- `RawUartConn`, `"close" \in Signals`, `OpenCountExact`: `close()` interrupted
  while it waits for the semaphore (427-430) has freed the connection and never
  decrements `open_count`.
- `Eq3Loop`, one slave, `MaxWritten <- TwoBytes`, `WritersSleepWhenFull`: a
  master asleep in `write()` is not woken by the slave's `close()` and `open()`,
  which wake the other queue (675, 951).
- `Eq3Loop`, `MasterKnowsState` without `~misled`: an `EQ3LOOP_IOCGEVENTS` between
  the event bit and the state bit of a slave (930 and 931, 664 and 665) consumes
  the event and reports the old state, and nothing tells the master again.
- `UsbPort`, `FreedIsUnused` without its exceptions: after unplugging, the last
  `close()` frees the raw UART in `stop_connection()` and then does `up()` and
  `module_put()` on it (`generic_raw_uart.c` 439-444), and so does an `open()`
  that is waiting for the semaphore.
- `UsbPort`, reachable and without a way out: the last `close()` after unplugging holds `instance->sem`
  and waits for a writer of `reset_radio_module` that waits for the semaphore.
- `Eq3Loop`, `Orderly = FALSE`, `SemaphoreGuardsChannel`: the node of a slave is
  visible (849) before the channel's semaphore is initialised (864).

`WritersSleepWhenFull` and `SemaphoreGuardsChannel` remain in `Eq3Loop` for this
purpose.

### Exceptions that properties state

Some properties hold with an exception that the code leaves open, named in the
property: `SocketKept` (the receive thread releases a silent connection's socket
without waiting for the send thread, `hb_rf_eth.c` 394), `LedsFollow` (a change
that was dropped or could not be sent), `FreedIsUnused` (the
last `close()` after it dropped the reference, and an `open()` that has not
started the driver), `ListensWhileOpen` and `TxFlagExact` (a submission that
failed or found no URB, as for a file opened between registration and
allocation of the URBs, `hb_rf_usb_2.c` 597), `MasterKnowsState` (an ioctl between
a slave's two bits), `ReadersWoken` (a slave in the middle of `open()` or
`close()` has the wake-up of the master still before it), `DetectionEnds` (a
radio module of another type that refuses to tell its BidCoS address is asked for ever, `radiomoduledetector.cpp` 286), `ReportIsTrue`
(after a timeout what was not answered is printed as blank or zero),
`AnswersArrive` (start bytes that `hm.h` 155 leaves unescaped).

The passing runs and the theorems therefore state their assumption: signals
end the wait for the sender but not the wait for completion
(`"complete" \notin Interruptible`), do not interrupt `close()`, and a channel
of the loop device is not opened or re-created at the wrong moment (`Orderly`).
`MasterKnowsState` also assumes that the events can be stored (`~Faults`), and so
does `ReadersWoken`: events that are put back after a fault wake no other thread
of the master that polls for them (`eq3_char_loop.c` 489-493), as TLC shows with
two threads of the master and `Faults`.

## Proofs

The theorems hold for every value of the constants that the named assumption of
the module allows (`TxAssumption`, `RxAssumption`, `ConnAssumption`,
`RawUartAssumption`, `UsbAssumption`, `EthAssumption`, `LoopAssumption`,
`KindsAssumption`): any number of threads, connections, sockets, slots,
characters, calls, retries and kinds of radio module. The
bounds of counters stay in the models as constants of any value. Each
invariant is strengthened to an inductive one, a conjunction of named parts that
stands at the end of the component's module (of its proof module for `Detector`);
TLC checks it on the instances
above (not kept as runs, as the theorems state it). It is then proved action by
action, and every property follows from it in a state, or for an action property
and the refinement, in a step.

### Transmission: `RawUartTx_proofs`

- `TypeCorrect`: `TypeOK`, whatever signals do; `tx_buf_index` stays inside the
  buffer. `TypeOK` is strengthened by
  `FrameCopied` (a frame being written was copied before).
- `SenderOwned`, `WakeupsSuffice`: `SenderIsWriting` and `NoLostWakeup`, with
  `SleepersWait` as `SenderInv`.
- `FramesUnmixed`, `CharsSentOnce`, `CountReturned`, `FrameNotOverrun`:
  `FramesContiguous`, `NoCharTwice`, `ReturnedCountIsSent` and
  `NothingBeyondFrame`. The invariant `WireInv` relates `tx_buf_index` to
  what the wire holds of the frame at every place of `write()` (`Progress`,
  `FrameMatches`) and says what the last character on the wire is (`WireEnd`).
- `PreemptionIsStrict`: the action property `UnfinishedOnlyForHigher`.

All but `TypeCorrect` assume `"complete" \notin Interruptible`;
`raw_uart_signal` shows what happens without it. The lemmas `SendingTyped`,
`SendingOutcome` and `SendingWire` treat `TxQueuedUnlocked` once for the two
actions that use it.

### Connections: `RawUartConn_proofs`

`ConnInv` says who holds `instance->sem` (`SemOwned`), that the connection
`open()` has found stays free (`RoomKept`), that a process references the module
from `try_module_get()` on (`RefsHeld`) and that `open_count` is never too low
(`OpenCountCovers`), which is all that remains of its exactness when a signal
interrupts `close()`. `TypeCorrect`, `ModuleStays` and `ResetsAlone` hold
whatever signals do: a count that is too high only refuses resets.
`CountIsExact` and `HwFollowsOpen` assume `"close" \notin Signals`.

### Composition: `RawUart_proofs`

`RawUartInv` is the invariants of both parts and `WorkersOpen` (only on an open
connection somebody writes). A step of one part keeps its own invariant by the
lemmas of `RawUartTx_proofs` or `RawUartConn_proofs`; what is proved here is that
it keeps the other's, in particular that `open()` and the last `close()` may
clear what they clear. `SenderIsOpen`, `HwStaysForSender` and
`WireSurvivesReopening` assume `"complete" \notin Interruptible` and nothing of
`Signals`.

### Rings and reception: `RawUartRx_proofs`

The module begins with lemmas about the macros of `circ_buf.h` for every size, also in the
moment when `head` or `tail` equals the size: `CircCnt`, `CircSpace`,
`CircToEnd`, how an insertion, a removal and a wrap change the count
(`CircMoves`) and which slots hold the elements (`CircSlots`). `HbRfEth_proofs`
and `Eq3Loop_proofs`, whose positions are always inside the array, each state the
one fact about the macros that they need (`RingCount`, `RingMacros`).

`RxInv` says that only one reader is inside `read()`, that the indices leave the
array for a moment only (`Wrapping`), and that what one side has found stays
true until it uses it although the other side goes on: space for the
interrupt (`SpaceKept`), data for the reader (`DataKept`). From it follow
`TypeCorrect`, `NoSlotShared`, `RxWakeupsSuffice` and the refinement
`RingIsLossyFifo`: every step of the ring is a step of `LossyFifo` (arrival at
the store of `head`, delivery at the store of `tail`) or leaves the abstract
queue alone. It proves the safety part of the abstract specification, which has no
fairness.

### USB adapters: `UsbPort_proofs`

`UsbInv` is `ConnInv` of the files and, of the driver: what `kref` counts
(`KrefExact`), what exists in each phase of probing and unplugging
(`PortPhases`), that the connection is stopped by the last close only
(`StopsLast`), the state of both URBs and their handlers (`ReadUrb`, `WriteUrb`)
and of the pins (`PulseOwned`). Theorems: `PortFreedUnused`, `DriverListens`,
`FlagFollowsUrb`, `PinsAreRight`, and `RawUartKept` (`ResetAlone` and `ModuleHeld`
under these drivers); none restricts `Signals`.

### Network adapter: `HbRfEth_proofs`

`EthInv`: the slot being filled stays free and the one being sent is not given
back (`RingKept`); a value of the LEDs that was read too early is followed by
another message (`LedsKept`); which threads run at which step of connecting
(`ThreadsKnown`) and which sockets exist and who holds them (`SocketsKnown`).
Theorems: `TypeCorrect`, `QueueKeepsOrder`, `LedsReachBoard`, `NothingLeft`, and
the action property `SocketsStay`.

### Character loop: `Eq3Loop_proofs`

`TakeReads` and `PutStores` show that the two-piece copies are right for every
size and position of a ring. `LoopInv` has parts with different assumptions:

- always: who is in which call (`CallsKnown`) and what the rings hold
  (`RingsKept`), which gives `RingsAreFifo`;
- `Orderly`: the slave, the node and the semaphore (`ChannelKnown`), which gives
  `SlaveIsAlone` and the action property `NodeStays`;
- `~Faults`: `ReadersWoken` itself, which gives `ReadersAreWoken`, also when the
  channel is created again under a slave. Every step that can make the condition of
  a sleeping reader true wakes its queue (`SleepersQuiet`);
- both: what the thread that reports events has found out so far
  (`EventsKnown`), which gives `MasterIsTold`.

`Orderly` is needed: without it `create_slave_dev()` clears the count of a slave
that is connected and the semaphore under its users. `~Faults` is needed where
events may be put back.

### Detection: `Detector_proofs`

`handleFrame` tells frames apart by destination, command, length and status, and
two of them are ambiguous: the identification of `HMIP_TRX_App` has the form of
the answer with the SGTIN, and that of `Co_CPU_App` the form of a legacy serial
number. Nothing in `handleFrame` itself keeps a late identification that arrives
in `GET_SGTIN` or `LEGACY_GET_SERIAL` from being stored as an SGTIN or a serial
number. Order alone excludes it:

- `Order`: the main thread sends identify requests only while it searches and
  queries only afterwards, and both directions keep their order, so no
  identification is behind a query or its answer, in the requests, the answers
  and the reader's hands (`NotBehind`). In the states that are reached by the
  answer to a query (`Past`) no identification is under way any more.
- `Facts`: exactly which fields are known in each state of the detection, and
  with which values; in `FINISHED`, all of them (`Fully`), or, if the main thread
  gave up, each either blank or right (`Partly`).
- `Outcome`: what is reported was finished or given up.

With `Types` these are the inductive invariant `IInv` (`IInvHolds`). `TakenFrame`
says what `handleFrame` can have accepted in which state, `OrderStep` and
`FactsStep` are the two halves of the induction. `ReportTrue` follows: the
property `ReportIsTrue`, for every number of retries and every set of modules
that `KindsAssumption` allows, although frames may be lost at any point, the
reader thread may handle a late answer while the main thread clears the fields or
gives up, and may go on after the report.

### Only model-checked

- Liveness (`WriteReturns`, `ReaderGoesOn`, `MasterCloseEndsRead`,
  `DisconnectReturns`, `DetectionEnds`): outside the prover's reach.
- `RequestsUnderstood` and `AnswersArrive` of `FakeHmrf`: they rest on what the
  codec and the parser compute for every frame, an induction over its bytes.

## Not modelled

- Registration and removal of raw UART devices beyond what `UsbPort` needs (five
  slots, unwinding of failures), the emulated termios ioctls and the read-only
  attributes: no state that other operations use.
- The interrupt handlers of the UART drivers: represented by the calls they
  make into the raw UART.
- Identification of USB devices and their signature check; failing probes; calls
  between `cdev_add()` and `sema_init()` of `generic_raw_uart_probe()` (1107 to
  1162). The reset pulse of the probe is one step (`ProbeReset`).
- Two concurrent administrators of the network adapter, message counters.
  `hb_rf_eth_exit()` removes the raw UART before it stops the threads (798-808);
  what they still do to the freed raw UART is not modelled.
- Reads of one character by the reader thread of the detection tool: the
  run `fake` reads up to 16 at a time, as single characters with three answers
  are too many states (with two answers TLC finds no error).
- The wait queue of the simulated radio module: the guard of `Read` stands for
  the sleep in `read()`, and `poll()` changes nothing.
- Statistics, traffic dump, LEDs (`rpi_rf_mod_led.c`), RTC and LED trigger
  (copies of Linux drivers), platform data, authentication key, scripts and
  packaging. `PROJECT.json` lists the reasons.
- The first `open()` sets head and tail of the receive ring to 0 after the
  driver was started (394): the race with a character arriving then is listed as
  a hazard, not modelled.

## Plan

1. Done: the raw UART device (transmit, receive, connections, composition), the
   character loop, the network adapter, the USB adapters, the detection with its
   codec and parser, the simulated radio module; proofs of all safety properties
   that the runs check, but for the two of `FakeHmrf`.
2. Next proofs: lemmas about the codec that need no induction (what one escaped
   byte decodes to).
3. Further models: the UART interrupt handlers; a driver that never asks for
   more characters (`hb_rf_eth.c`) under `RawUart`; registration of devices; the
   race at the first `open()`; the connection monitor; LEDs.
