------------------------------ MODULE UsbPort ------------------------------
(***************************************************************************)
(* The USB radio adapters (kernel/hb_rf_usb_2.c for CP2102N and CP2102     *)
(* chips, kernel/hb_rf_usb.c for FT232R chips) under the raw UART of       *)
(* RawUartConn.                                                            *)
(* A port owns one URB for reading, which its completion handler submits   *)
(* again, and one for writing; is_in_tx says that the latter is on its     *)
(* way.  The port is freed, and the raw UART with it, when the interface   *)
(* is disconnected and no connection is running: kref counts the two.      *)
(*                                                                         *)
(* Characters are left out but for the number of chunks of a frame that    *)
(* the driver has not been given, and one LED stands for three.  What a    *)
(* call still inside open() does to a port that is freed under it is       *)
(* undefined: it takes no more steps.                                      *)
(***************************************************************************)
EXTENDS Integers, Sequences, FiniteSets

CONSTANTS
  Files, NULL, MAX_CONNECTIONS, Signals, MaxModuleRefs, (* of RawUartConn   *)
  MaxChunks   (* bound: chunks of TX_CHUNK_SIZE characters in a write()     *)

ASSUME UsbAssumption ==
  /\ NULL \notin Files /\ IsFiniteSet(Files)
  /\ MAX_CONNECTIONS \in Nat \ {0}
  /\ Signals \subseteq {"open", "close", "reset"}
  /\ MaxModuleRefs \in Nat
  /\ MaxChunks \in Nat

VARIABLES
  fstate, open_count, connection_state, sem, hw_running, module_refs,
  chip,       (* "CP2102N", "CP2102" or "FT232R"                            *)
  usb,        (* how far probe() or disconnect() of the interface is        *)
  plugged,    (* the device is there: URBs can be submitted                 *)
  kref,       (* port->kref                                                 *)
  freed,      (* the port and the raw UART's instance are freed             *)
  stop,       (* how far the driver's stop_connection() is                  *)
  read_urb, write_urb,   (* "none", allocated and "idle", or "active"       *)
  reading, writing,      (* their completion handlers are running           *)
  is_in_tx,   (* port->is_in_tx                                             *)
  submitting, (* who has set is_in_tx in tx_chars() and not yet submitted   *)
              (* the URB: "write", "handler" or "no"; "oops" if tx_chars()  *)
              (* has met a NULL pointer                                     *)
  writer,     (* the file that is in write()                                *)
  chunks,     (* chunks of the frame not yet given to the driver            *)
  led, reset_pin,  (* port->gpio_value: an LED; FT232R: the reset pin       *)
  pins,       (* the pins of the chip                                       *)
  pulse,      (* how many steps of the reset pulse have been made           *)
  failed      (* history: the URBs whose last submission was refused        *)

life_vars == <<fstate, open_count, connection_state, sem, hw_running, module_refs>>
port_vars == <<chip, usb, plugged, kref, freed, stop>>
read_vars == <<read_urb, reading, failed>>
write_vars == <<write_urb, writing, is_in_tx, submitting, writer, chunks>>
gpio_vars == <<led, reset_pin, pins, pulse>>
vars == <<life_vars, port_vars, read_vars, write_vars, gpio_vars>>

Conn == INSTANCE RawUartConn

(* The steps of the reset pulse: assert and release, and for the FT232R    *)
(* make the pin an input again.  The CP2102 has none (-ENOSYS).            *)
Pulse == [CP2102N |-> <<"asserted", "high">>, CP2102 |-> <<>>,
          FT232R |-> <<"asserted", "high", "input">>]

Init ==
  /\ Conn!Init /\ ~connection_state
  /\ chip \in DOMAIN Pulse
  /\ usb = "absent" /\ plugged = TRUE
  /\ kref = 0 /\ freed = FALSE /\ stop = "no"
  /\ read_urb = "none" /\ reading = FALSE /\ failed = {}
  /\ write_urb = "none" /\ writing = FALSE
  /\ is_in_tx = FALSE /\ submitting = "no"
  /\ writer = NULL /\ chunks = 0
  /\ led = FALSE /\ reset_pin = "input"
  /\ pins = [led |-> FALSE, reset |-> "input"]
  /\ pulse = 0

-----------------------------------------------------------------------------
(* usb_submit_urb() fails when the device is gone, while somebody is in    *)
(* usb_kill_urb() for this URB, and it may fail for want of memory.  The   *)
(* drivers ignore its result.                                              *)
CanSubmit(urb) == plugged /\ usb # urb /\ stop # urb

Submitted(state, urb) ==
  IF state = "idle" /\ CanSubmit(urb) THEN {"active", "idle"} ELSE {state}

Refused(urb, state) == IF state = "active" THEN failed \ {urb} ELSE failed \cup {urb}

(* process_read_urb(): the characters go to the raw UART ...               *)
ReadComplete ==
  /\ read_urb = "active" /\ ~reading
  /\ read_urb' = "idle" /\ reading' = TRUE
  /\ UNCHANGED <<life_vars, port_vars, failed, write_vars, gpio_vars>>

(* ... and the URB is submitted again.                                     *)
ReadResubmit ==
  /\ reading
  /\ reading' = FALSE
  /\ read_urb' \in Submitted(read_urb, "kill_read")
  /\ failed' = Refused("read", read_urb')
  /\ UNCHANGED <<life_vars, port_vars, write_vars, gpio_vars>>

(* generic_raw_uart_tx_queued_unlocked() with n chunks left: if the driver *)
(* is ready, tx_chars() sets is_in_tx; lock_tx is held until TxSubmit.     *)
TxQueued(n, caller) ==
  IF n > 0 /\ ~is_in_tx
    THEN chunks' = n - 1 /\ is_in_tx' = TRUE /\ submitting' = caller
    ELSE chunks' = n /\ UNCHANGED <<is_in_tx, submitting>>

(* The rest of tx_chars(): the URB is filled and submitted; it also ends   *)
(* the handler that called.  Before init_uart() there is no URB to fill:   *)
(* the caller dies there, with lock_tx.                                    *)
TxSubmit ==
  /\ submitting \in {"write", "handler"}
  /\ IF write_urb = "none"
       THEN submitting' = "oops" /\ UNCHANGED <<write_urb, writing, failed>>
       ELSE /\ submitting' = "no"
            /\ write_urb' \in Submitted(write_urb, "kill_write")
            /\ failed' = Refused("write", write_urb')
            /\ writing' = (writing /\ submitting # "handler")
  /\ UNCHANGED <<life_vars, port_vars, read_urb, reading, is_in_tx, writer, chunks, gpio_vars>>

(* process_write_urb(): first the flag ...                                 *)
WriteComplete ==
  /\ write_urb = "active" /\ ~writing
  /\ write_urb' = "idle" /\ writing' = TRUE
  /\ is_in_tx' = FALSE
  /\ UNCHANGED <<life_vars, port_vars, read_vars, submitting, writer, chunks, gpio_vars>>

(* Mutant: the flag is cleared after the raw UART was asked for more.      *)
WriteCompletedClears ==
  /\ writing /\ submitting = "no"
  /\ chunks' = IF chunks > 0 THEN chunks - 1 ELSE 0
  /\ submitting' = IF chunks > 0 THEN "handler" ELSE "no"
  /\ writing' = (chunks > 0)
  /\ is_in_tx' = FALSE
  /\ UNCHANGED <<life_vars, port_vars, read_vars, write_urb, writer, gpio_vars>>

(* ... then the raw UART may send more.                                    *)
WriteCompleted ==
  /\ writing /\ submitting = "no"
  /\ TxQueued(chunks, "handler")
  /\ writing' = (submitting' = "handler")
  /\ UNCHANGED <<life_vars, port_vars, read_vars, write_urb, writer, gpio_vars>>

(* write() of an open file; one sends at a time (RawUartTx), and it may    *)
(* take over from a frame whose write() was interrupted.                   *)
Write(f) ==
  /\ fstate[f] = "open" /\ writer = NULL /\ submitting = "no"
  /\ writer' = f
  /\ \E n \in 1..MaxChunks : TxQueued(n, "write")
  /\ UNCHANGED <<life_vars, port_vars, read_vars, write_urb, writing, gpio_vars>>

(* It returns when the driver has taken the last chunk, which it finds out *)
(* with lock_tx, or because of a signal: the rest is sent all the same.    *)
WriteReturns(f) ==
  /\ writer = f /\ submitting = "no"
  /\ writer' = NULL
  /\ UNCHANGED <<life_vars, port_vars, read_vars, write_urb, writing, is_in_tx,
                 submitting, chunks, gpio_vars>>

-----------------------------------------------------------------------------
(* LEDs and reset pin.  The CP2102N takes a mask of the pins to change ... *)
SetGpio2(pin, value) == pins' = IF plugged THEN [pins EXCEPT ![pin] = value] ELSE pins

(* ... while the FT232R sets all pins from gpio_value and gpio_direction.  *)
SetGpio == pins' = IF plugged THEN [led |-> led', reset |-> reset_pin'] ELSE pins

(* Mutant: gpio_set_multiple() overwrites the bit of the reset pin.        *)
GpioSetAll(value) ==
  /\ chip # "CP2102" /\ usb \notin {"absent", "put", "gone"}
  /\ led' = value
  /\ reset_pin' = IF reset_pin = "high" THEN "asserted" ELSE reset_pin
  /\ IF chip = "CP2102N" THEN SetGpio2("led", value) ELSE SetGpio
  /\ UNCHANGED <<life_vars, port_vars, read_vars, write_vars, pulse>>

(* gpio_set() and gpio_set_multiple(), until gpiochip_remove(); there is   *)
(* no gpiochip for the CP2102.                                             *)
GpioSet(value) ==
  /\ chip # "CP2102" /\ usb \notin {"absent", "put", "gone"}
  /\ led' = value
  /\ UNCHANGED reset_pin
  /\ IF chip = "CP2102N" THEN SetGpio2("led", value) ELSE SetGpio
  /\ UNCHANGED <<life_vars, port_vars, read_vars, write_vars, pulse>>

(* hb_rf_usb_2_reset_radio_module() and hb_rf_usb_reset_radio_module():    *)
(* one step of the pulse, 50 ms apart.                                     *)
ResetStep(f) ==
  /\ Conn!Resetting(f)
  /\ pulse < Len(Pulse[chip])
  /\ pulse' = pulse + 1
  /\ LET level == Pulse[chip][pulse + 1]
     IN IF chip = "CP2102N"
          THEN SetGpio2("reset", level) /\ UNCHANGED reset_pin
          ELSE reset_pin' = level /\ led' = led /\ SetGpio
  /\ UNCHANGED <<life_vars, port_vars, read_vars, write_vars, led>>

-----------------------------------------------------------------------------
(* The raw UART's files, from device_create() to kfree(instance).          *)
Registered == usb \notin {"absent", "probing"} /\ ~freed

(* Mutant: start_connection() takes no reference to the port.              *)
StartConnectionNoRef ==
  /\ kref' = kref
  /\ read_urb' \in Submitted(read_urb, "kill_read")
  /\ failed' = Refused("read", read_urb')

(* The driver's start_connection().                                        *)
StartConnection ==
  /\ kref' = kref + 1
  /\ read_urb' \in Submitted(read_urb, "kill_read")
  /\ failed' = Refused("read", read_urb')

OpenSucceeds(f) ==
  /\ Registered
  /\ Conn!OpenSucceeds(f)
  /\ IF open_count = 0 THEN StartConnection ELSE UNCHANGED <<kref, read_urb, failed>>
  /\ UNCHANGED <<chip, usb, plugged, freed, stop, reading, write_vars, gpio_vars>>

(* What of RawUartConn does not call the driver.                           *)
FileStep(f) ==
  /\ Registered
  /\ \/ Conn!Open(f) \/ Conn!ResetSysfs(f)
     \/ writer # f /\ (Conn!Close(f) \/ Conn!ResetIoctl(f))
     \/ Conn!Down(f) \/ Conn!Interrupt(f)
     \/ Conn!OpenChecks(f)
     \/ fstate[f] = "opening" /\ Conn!OpenFails(f)
  /\ UNCHANGED <<port_vars, read_vars, write_vars, gpio_vars>>

ResetReturns(f) ==
  /\ Registered
  /\ Conn!Resetting(f) => pulse = Len(Pulse[chip])
  /\ Conn!ResetReturns(f)
  /\ pulse' = 0
  /\ UNCHANGED <<port_vars, read_vars, write_vars, led, reset_pin, pins>>

(* kref_put(): without references the port is deleted and the raw UART     *)
(* removed, which waits for the writers of its attributes but not for the  *)
(* calls inside open() or close().                                         *)
KrefPut ==
  /\ kref' = kref - 1
  /\ freed' = (kref = 1)
  /\ freed' => \A f \in Files : fstate[f] \notin {"sysfs_down", "sysfs_reset"}

(* Mutant: only the URB for writing is killed.                             *)
StopConnectionReads(f) ==
  /\ fstate[f] = "closing" /\ open_count = 1
  /\ \/ /\ \/ stop = "no" /\ stop' = "kill_write"
           \/ stop = "kill_write" /\ write_urb # "active" /\ ~writing /\ stop' = "put"
        /\ UNCHANGED <<kref, freed>>
     \/ stop = "put" /\ stop' = "done" /\ KrefPut
  /\ UNCHANGED <<life_vars, chip, usb, plugged, read_vars, write_vars, gpio_vars>>

(* stop_connection(), called by the last close(): usb_kill_urb() waits     *)
(* until the URB is given back and its handler has returned.               *)
StopConnection(f) ==
  /\ fstate[f] = "closing" /\ open_count = 1
  /\ \/ /\ \/ stop = "no" /\ stop' = "kill_write"
           \/ stop = "kill_write" /\ write_urb # "active" /\ ~writing /\ stop' = "kill_read"
           \/ stop = "kill_read" /\ read_urb # "active" /\ ~reading /\ stop' = "put"
        /\ UNCHANGED <<kref, freed>>
     \/ stop = "put" /\ stop' = "done" /\ KrefPut
  /\ UNCHANGED <<life_vars, chip, usb, plugged, read_vars, write_vars, gpio_vars>>

(* The end of close(): up() and module_put(), for the last connection also *)
(* when stop_connection() has freed the instance they work on.             *)
Closing(f) ==
  /\ Conn!Closing(f)
  /\ IF open_count = 1 THEN stop = "done" /\ stop' = "no" ELSE Registered /\ UNCHANGED stop
  /\ UNCHANGED <<chip, usb, plugged, kref, freed, read_vars, write_vars, gpio_vars>>

-----------------------------------------------------------------------------
(* The USB core calls probe() when the device appears ...                  *)
Probe ==
  /\ usb = "absent"
  /\ usb' = "probing"
  /\ kref' = 1
  /\ IF chip = "CP2102"
       THEN UNCHANGED <<led, reset_pin, pins>>
       ELSE /\ led' = TRUE /\ reset_pin' = "asserted"
            /\ pins' = [led |-> TRUE, reset |-> "asserted"]
  /\ UNCHANGED <<life_vars, chip, plugged, freed, stop, read_vars, write_vars, pulse>>

(* ... which registers the raw UART: it can be opened, which fails, and    *)
(* its attributes written to.  What happens to calls between cdev_add()    *)
(* and sema_init() is left out ...                                         *)
ProbeRawUart ==
  /\ usb = "probing"
  /\ usb' = "visible"
  /\ UNCHANGED <<life_vars, chip, plugged, kref, freed, stop, read_vars, write_vars, gpio_vars>>

(* ... then it resets the radio module, with the semaphore, and lets       *)
(* connections in ...                                                      *)
ProbeReset ==
  /\ usb = "visible" /\ sem = NULL
  /\ usb' = "registered"
  /\ connection_state' = TRUE
  /\ reset_pin' = IF chip = "FT232R" THEN "input" ELSE reset_pin
  /\ pins' = IF chip = "CP2102" THEN pins
             ELSE [pins EXCEPT !["reset"] = Pulse[chip][Len(Pulse[chip])]]
  /\ UNCHANGED <<fstate, open_count, sem, hw_running, module_refs, chip, plugged, kref,
                 freed, stop, read_vars, write_vars, led, pulse>>

(* ... and allocates the URBs after that.                                  *)
InitUart ==
  /\ usb = "registered"
  /\ usb' = "bound"
  /\ read_urb' = "idle" /\ write_urb' = "idle"
  /\ UNCHANGED <<life_vars, chip, plugged, kref, freed, stop, reading, failed, writing,
                 is_in_tx, submitting, writer, chunks, gpio_vars>>

(* The device is unplugged, or the interface unbound ...                   *)
Unplug ==
  /\ usb = "bound" /\ plugged
  /\ plugged' = FALSE
  /\ UNCHANGED <<life_vars, chip, usb, kref, freed, stop, read_vars, write_vars, gpio_vars>>

(* ... and the USB core calls disconnect().                                *)
Disconnect ==
  /\ ~plugged
  /\ \/ usb = "bound" /\ usb' = "kill_write" /\ UNCHANGED <<connection_state, kref, freed>>
     \/ /\ usb = "kill_write" /\ write_urb # "active" /\ ~writing
        /\ usb' = "kill_read"
        /\ UNCHANGED <<connection_state, kref, freed>>
     \/ /\ usb = "kill_read" /\ read_urb # "active" /\ ~reading
        /\ usb' = "put"
        /\ connection_state' = FALSE
        /\ UNCHANGED <<kref, freed>>
     \/ usb = "put" /\ usb' = "gone" /\ KrefPut /\ UNCHANGED connection_state
  /\ UNCHANGED <<fstate, open_count, sem, hw_running, module_refs, chip, plugged, stop,
                 read_vars, write_vars, gpio_vars>>

Next ==
  \/ ReadComplete \/ ReadResubmit \/ WriteComplete \/ WriteCompleted \/ TxSubmit
  \/ \E value \in BOOLEAN : GpioSet(value)
  \/ \E f \in Files :
       \/ Write(f) \/ WriteReturns(f) \/ ResetStep(f) \/ ResetReturns(f)
       \/ FileStep(f) \/ OpenSucceeds(f) \/ StopConnection(f) \/ Closing(f)
  \/ Probe \/ ProbeRawUart \/ ProbeReset \/ InitUart \/ Unplug \/ Disconnect

Spec == Init /\ [][Next]_vars

-----------------------------------------------------------------------------
(* The port and the raw UART are freed when no connection uses them: no    *)
(* URB is on its way, no completion handler runs and no file is open, in   *)
(* whatever order the device is unplugged and the connections are closed   *)
(* (kref_get and kref_put in start_connection, stop_connection and         *)
(* disconnect).  The reference count does not cover two calls: an open()   *)
(* that has not started the driver, and the last close() after its         *)
(* stop_connection(), which goes on to up() and module_put().              *)
FreedIsUnused ==
  freed => /\ \A f \in Conn!OpenFiles : fstate[f] = "closing" /\ stop = "done"
           /\ read_urb # "active" /\ ~reading
           /\ write_urb # "active" /\ ~writing /\ submitting = "no"

(* As long as a connection is established the URB for reading is waiting   *)
(* for data or being handled, and without one it is not (start_connection, *)
(* process_read_urb, stop_connection).  Excepted is a connection for which *)
(* submitting it has failed, as it does before init_uart() has allocated   *)
(* the URB: nobody tries again.                                            *)
ListensWhileOpen ==
  /\ hw_running /\ plugged /\ "read" \notin failed /\ stop = "no" =>
       read_urb = "active" \/ reading
  /\ ~hw_running => read_urb # "active" /\ ~reading

(* is_in_tx says exactly whether the URB for writing is on its way: if it  *)
(* were clear the next chunk would be lost, and it stays set, so that      *)
(* nobody can send again, only when submitting the URB has failed or       *)
(* tx_chars() has found none (tx_chars, process_write_urb).                *)
TxFlagExact ==
  plugged => (is_in_tx <=> write_urb = "active" \/ submitting # "no" \/ "write" \in failed)

(* A change of the LEDs in the middle of a reset pulse disturbs neither:   *)
(* the pins show the LED as it was last set, and the radio module is held  *)
(* in reset exactly between the first two steps of the pulse               *)
(* (reset_radio_module, gpio_set, gpio_set_multiple).                      *)
PinsFollow ==
  plugged /\ usb \notin {"absent", "probing", "visible"} =>
    /\ pins["led"] = led
    /\ pins["reset"] = "asserted" <=> pulse = 1

-----------------------------------------------------------------------------
(* The inductive invariants the proofs use (UsbPort_proofs).               *)
PortType ==
  /\ chip \in {"CP2102N", "CP2102", "FT232R"}
  /\ usb \in {"absent", "probing", "visible", "registered", "bound", "kill_write",
             "kill_read", "put", "gone"}
  /\ plugged \in BOOLEAN
  /\ kref \in 0..2
  /\ stop \in {"no", "kill_write", "kill_read", "put", "done"}
  /\ read_urb \in {"none", "idle", "active"} /\ write_urb \in {"none", "idle", "active"}
  /\ reading \in BOOLEAN /\ writing \in BOOLEAN /\ is_in_tx \in BOOLEAN
  /\ submitting \in {"no", "write", "handler", "oops"}
  /\ writer \in Files \cup {NULL} /\ chunks \in 0..MaxChunks
  /\ pulse \in 0..3

(* kref counts the interface and the running connection.                   *)
KrefExact ==
  /\ kref = (IF usb \in {"absent", "gone"} THEN 0 ELSE 1)
            + (IF hw_running /\ stop # "done" THEN 1 ELSE 0)
  /\ freed <=> usb = "gone" /\ (~hw_running \/ stop = "done")

(* Nobody can open what probe() has not registered, nor submit what it has *)
(* not allocated, and disconnect() follows unplugging.                     *)
PortPhases ==
  /\ usb \in {"absent", "probing"} =>
       open_count = 0 /\ \A f \in Files : fstate[f] = "closed"
  /\ read_urb = "none" <=> usb \in {"absent", "probing", "visible", "registered"}
  /\ write_urb = "none" <=> usb \in {"absent", "probing", "visible", "registered"}
  /\ plugged => usb \in {"absent", "probing", "visible", "registered", "bound"}

(* The driver stops for the last connection only.                          *)
StopsLast ==
  stop # "no" => open_count = 1 /\ \E f \in Files : fstate[f] = "closing"

(* The URB for reading, its handler, and who may start it.                 *)
ReadUrb ==
  /\ ListensWhileOpen
  /\ reading => read_urb = "idle"
  /\ stop \in {"put", "done"} => read_urb # "active" /\ ~reading
  /\ hw_running /\ read_urb = "none" => "read" \in failed

(* The URB for writing, its handler and who may be submitting it; nothing  *)
(* is sent without a connection.                                           *)
WriteUrb ==
  /\ TxFlagExact
  /\ plugged /\ submitting # "no" => write_urb # "active" /\ "write" \notin failed
  /\ plugged /\ write_urb = "active" => "write" \notin failed
  /\ writer # NULL => fstate[writer] = "open"
  /\ submitting \in {"write", "oops"} => writer # NULL
  /\ submitting = "handler" => writing
  /\ writing => write_urb # "none"
  /\ ~hw_running \/ stop \in {"kill_read", "put", "done"} =>
       write_urb # "active" /\ ~writing /\ submitting = "no"

(* A reset pulse belongs to the process that holds instance->sem; the chip *)
(* that sets all pins at once finds the reset pin in gpio_value.           *)
PulseOwned ==
  /\ pulse # 0 => \E f \in Files : Conn!Resetting(f)
  /\ chip = "CP2102N" => pulse <= 2
  /\ chip = "CP2102" => pulse = 0 /\ pins["reset"] = "input"
  /\ \E r \in {"asserted", "high", "input"}, v \in BOOLEAN : pins = [led |-> v, reset |-> r]
  /\ led \in BOOLEAN
  /\ plugged => pins["led"] = led /\ (chip = "FT232R" => pins["reset"] = reset_pin)
  /\ PinsFollow

UsbInv ==
  /\ Conn!ConnInv /\ PortType /\ KrefExact /\ PortPhases /\ StopsLast
  /\ ReadUrb /\ WriteUrb /\ PulseOwned
=============================================================================
