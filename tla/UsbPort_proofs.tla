--------------------------- MODULE UsbPort_proofs --------------------------
(* Proofs about the USB radio adapters (UsbPort), for any number of        *)
(* processes, connections and chunks, whichever calls a signal interrupts. *)
EXTENDS UsbPort, TLAPS, FiniteSetTheorems

ConnP == INSTANCE RawUartConn_proofs

(* The assumptions of RawUartConn.                                         *)
LEMMA ConnAssumed ==
  /\ NULL \notin Files
  /\ ConnP!IsFiniteSet(Files)
  /\ MAX_CONNECTIONS \in Nat \ {0}
  /\ Signals \subseteq {"open", "close", "reset"}
  /\ MaxModuleRefs \in Nat
BY UsbAssumption DEF IsFiniteSet, ConnP!IsFiniteSet

(* The invariant of RawUartConn, as its proofs and as UsbPort name it.     *)
LEMMA SameConnInv ==
  (ConnP!ConnInv <=> Conn!ConnInv) /\ (ConnP!ConnInv' <=> Conn!ConnInv')
BY DEF ConnP!ConnInv, ConnP!TypeOK, ConnP!SemOwned, ConnP!RoomKept, ConnP!RefsHeld,
  ConnP!OpenCountCovers, ConnP!HwFollowsCount, ConnP!OpenFiles, ConnP!Referencing,
  ConnP!Opened, ConnP!Waiting, ConnP!Holding, ConnP!Cardinality,
  Conn!ConnInv, Conn!TypeOK, Conn!SemOwned, Conn!RoomKept, Conn!RefsHeld,
  Conn!OpenCountCovers, Conn!HwFollowsCount, Conn!OpenFiles, Conn!Referencing,
  Conn!Opened, Conn!Waiting, Conn!Holding, Conn!Cardinality

(* Its steps, under both names.                                            *)
LEMMA SameConnNext == [ConnP!Next]_ConnP!vars <=> [Conn!Next]_life_vars
BY DEF ConnP!Next, ConnP!vars, ConnP!SetConnectionState, ConnP!Open, ConnP!Close,
  ConnP!ResetIoctl, ConnP!ResetSysfs, ConnP!Down, ConnP!Interrupt, ConnP!OpenChecks,
  ConnP!OpenFails, ConnP!OpenSucceeds, ConnP!Closing, ConnP!ResetReturns, ConnP!Goto,
  ConnP!Waiting, ConnP!Inside, ConnP!Outside, ConnP!CallOf,
  Conn!Next, life_vars, Conn!SetConnectionState, Conn!Open, Conn!Close,
  Conn!ResetIoctl, Conn!ResetSysfs, Conn!Down, Conn!Interrupt, Conn!OpenChecks,
  Conn!OpenFails, Conn!OpenSucceeds, Conn!Closing, Conn!ResetReturns, Conn!Goto,
  Conn!Waiting, Conn!Inside, Conn!Outside, Conn!CallOf

(* To the raw UART every step of the driver is one of its own, or nothing. *)
LEMMA ConnSteps == Conn!ConnInv /\ [Next]_vars => [Conn!Next]_life_vars
<1> SUFFICES ASSUME Conn!ConnInv, [Next]_vars PROVE [Conn!Next]_life_vars
  OBVIOUS
<1>1. ASSUME NEW v \in BOOLEAN, connection_state' = v,
             UNCHANGED <<fstate, open_count, sem, hw_running, module_refs>>
      PROVE  [Conn!Next]_life_vars
  <2>1. connection_state \in BOOLEAN
    BY DEF Conn!ConnInv, Conn!TypeOK
  <2>2. CASE connection_state' = connection_state
    BY <1>1, <2>2 DEF life_vars
  <2>3. CASE connection_state' # connection_state
    <3>1. connection_state' = ~connection_state
      BY <1>1, <2>1, <2>3, Zenon
    <3> QED BY <1>1, <3>1 DEF Conn!Next, Conn!SetConnectionState
  <2> QED BY <2>2, <2>3
<1>2. CASE ProbeReset
  BY <1>1, <1>2 DEF ProbeReset
<1>3. CASE Disconnect
  <2>1. connection_state' = connection_state \/ connection_state' = FALSE
    BY <1>3 DEF Disconnect
  <2>2. connection_state \in BOOLEAN
    BY DEF Conn!ConnInv, Conn!TypeOK
  <2> QED BY <1>1, <1>3, <2>1, <2>2 DEF Disconnect
<1>4. ASSUME NEW f \in Files,
             FileStep(f) \/ ResetReturns(f) \/ OpenSucceeds(f) \/ Closing(f)
      PROVE  [Conn!Next]_life_vars
  BY <1>4 DEF FileStep, ResetReturns, OpenSucceeds, Closing, Conn!Next
<1>5. ASSUME UNCHANGED life_vars PROVE [Conn!Next]_life_vars
  BY <1>5
<1> QED
  BY <1>2, <1>3, <1>4, <1>5
     DEF Next, vars, ReadComplete, ReadResubmit, WriteComplete, WriteCompleted, TxSubmit,
         GpioSet, Write, WriteReturns, ResetStep, StopConnection, Probe, ProbeRawUart, InitUart,
         Unplug

(* So the raw UART's invariant holds under these drivers.                  *)
LEMMA ConnKept == Conn!ConnInv /\ [Next]_vars => Conn!ConnInv'
BY ConnSteps, ConnP!ConnInvStep, ConnAssumed, SameConnInv, SameConnNext

-----------------------------------------------------------------------------
(* What the count of connections says about the open files.                *)
LEMMA OpenFacts ==
  ASSUME Conn!ConnInv
  PROVE  /\ open_count \in Nat /\ (hw_running <=> open_count > 0)
         /\ \A f \in Files : fstate[f] \in Conn!Opened => open_count > 0
         /\ open_count = 1 =>
              \A f, g \in Files :
                fstate[f] \in Conn!Opened /\ fstate[g] \in Conn!Opened => f = g
         /\ \A f, g \in Files :
              fstate[f] \in Conn!Holding /\ fstate[g] \in Conn!Holding => f = g
<1>1. Conn!TypeOK /\ Conn!SemOwned /\ Conn!OpenCountCovers /\ Conn!HwFollowsCount
  BY DEF Conn!ConnInv
<1>2. open_count \in Nat /\ (hw_running <=> open_count > 0)
  BY <1>1, UsbAssumption DEF Conn!TypeOK, Conn!HwFollowsCount
<1>3. open_count >= Cardinality(Conn!OpenFiles)
  BY <1>1 DEF Conn!OpenCountCovers, Conn!Cardinality, Cardinality
<1>4. IsFiniteSet(Conn!OpenFiles) /\ Cardinality(Conn!OpenFiles) \in Nat
  <2>1. Conn!OpenFiles \in SUBSET Files
    BY DEF Conn!OpenFiles
  <2> QED BY <2>1, UsbAssumption, FS_Subset, FS_CardinalityType
<1>5. ASSUME NEW f \in Files, fstate[f] \in Conn!Opened PROVE open_count > 0
  <2>1. f \in Conn!OpenFiles
    BY <1>5 DEF Conn!OpenFiles
  <2>2. Cardinality(Conn!OpenFiles) # 0
    BY <1>4, <2>1, FS_EmptySet
  <2> QED BY <1>2, <1>3, <1>4, <2>2
<1>6. ASSUME NEW f \in Files, NEW g \in Files, open_count = 1,
             fstate[f] \in Conn!Opened, fstate[g] \in Conn!Opened, f # g
      PROVE  FALSE
  <2>1. f \in Conn!OpenFiles /\ g \in Conn!OpenFiles \ {f}
    BY <1>6 DEF Conn!OpenFiles
  <2>2. /\ IsFiniteSet(Conn!OpenFiles \ {f})
        /\ Cardinality(Conn!OpenFiles \ {f}) = Cardinality(Conn!OpenFiles) - 1
    BY <1>4, <2>1, FS_RemoveElement
  <2>3. Cardinality(Conn!OpenFiles \ {f}) # 0 /\ Cardinality(Conn!OpenFiles \ {f}) \in Nat
    BY <2>1, <2>2, FS_EmptySet, FS_CardinalityType
  <2> QED BY <1>3, <1>4, <1>6, <2>2, <2>3
<1>7. \A f, g \in Files : fstate[f] \in Conn!Holding /\ fstate[g] \in Conn!Holding => f = g
  BY <1>1 DEF Conn!SemOwned
<1> QED BY <1>2, <1>5, <1>6, <1>7

(* While the last connection is being closed nobody writes.                *)
LEMMA StoppingIsQuiet ==
  ASSUME UsbInv
  PROVE  /\ stop # "no" => writer = NULL
         /\ stop # "no" => \A f \in Files : fstate[f] # "open"
         /\ ~hw_running => writer = NULL /\ \A f \in Files : fstate[f] # "open"
<1>0. "open" \in Conn!Opened /\ "closing" \in Conn!Opened
  BY DEF Conn!Opened
<1>1. ASSUME stop # "no" PROVE \A f \in Files : fstate[f] # "open"
  <2>1. PICK g \in Files : open_count = 1 /\ fstate[g] = "closing"
    BY <1>1 DEF UsbInv, StopsLast
  <2> QED BY <1>0, <2>1, OpenFacts DEF UsbInv
<1>2. ASSUME ~hw_running PROVE \A f \in Files : fstate[f] # "open"
  BY <1>0, <1>2, OpenFacts DEF UsbInv
<1> QED BY <1>1, <1>2 DEF UsbInv, WriteUrb, PortType

(* A reset pulse is running while its owner holds instance->sem.           *)
LEMMA PulseHasOwner ==
  ASSUME UsbInv, pulse # 0
  PROVE  \E f \in Files : fstate[f] \in {"ioctl_reset", "sysfs_reset"} /\ Conn!Resetting(f)
BY DEF UsbInv, PulseOwned, Conn!Resetting

(* The pulses of the three chips.                                          *)
LEMMA Pulses ==
  ASSUME chip \in {"CP2102N", "CP2102", "FT232R"}
  PROVE  /\ chip = "CP2102N" => Len(Pulse[chip]) = 2
         /\ chip = "CP2102" => Len(Pulse[chip]) = 0
         /\ chip = "FT232R" => Len(Pulse[chip]) = 3
         /\ chip # "CP2102" => Pulse[chip][1] = "asserted" /\ Pulse[chip][2] = "high"
         /\ chip = "FT232R" => Pulse[chip][3] = "input"
<1>1. CASE chip = "CP2102N"
  <2>1. Pulse[chip] = <<"asserted", "high">>
    BY <1>1 DEF Pulse
  <2> QED BY <1>1, <2>1
<1>2. CASE chip = "FT232R"
  <2>1. Pulse[chip] = <<"asserted", "high", "input">>
    BY <1>2 DEF Pulse
  <2> QED BY <1>2, <2>1
<1>3. CASE chip = "CP2102"
  <2>1. Pulse[chip] = <<>>
    BY <1>3 DEF Pulse
  <2> QED BY <1>3, <2>1
<1> QED BY <1>1, <1>2, <1>3

(* The parts of the invariant that a step does not touch.                  *)
LEMMA Untouched ==
  /\ KrefExact /\ UNCHANGED <<usb, hw_running, stop, kref, freed>> => KrefExact'
  /\ PortPhases /\ UNCHANGED <<usb, open_count, fstate, read_urb, write_urb, plugged>> =>
       PortPhases'
  /\ StopsLast /\ UNCHANGED <<stop, open_count, fstate>> => StopsLast'
  /\ ReadUrb /\ UNCHANGED <<hw_running, plugged, failed, stop, read_urb, reading>> => ReadUrb'
  /\ WriteUrb /\ UNCHANGED <<plugged, is_in_tx, write_urb, submitting, writer, fstate,
                             failed, writing, hw_running, stop>> => WriteUrb'
  /\ PulseOwned /\ UNCHANGED <<pulse, fstate, open_count, chip, pins, led, plugged, usb,
                               reset_pin>> => PulseOwned'
<1>1. KrefExact /\ UNCHANGED <<usb, hw_running, stop, kref, freed>> => KrefExact'
  BY DEF KrefExact
<1>2. PortPhases /\ UNCHANGED <<usb, open_count, fstate, read_urb, write_urb, plugged>> =>
        PortPhases'
  BY DEF PortPhases
<1>3. StopsLast /\ UNCHANGED <<stop, open_count, fstate>> => StopsLast'
  BY DEF StopsLast
<1>4. ReadUrb /\ UNCHANGED <<hw_running, plugged, failed, stop, read_urb, reading>> => ReadUrb'
  BY DEF ReadUrb, ListensWhileOpen
<1>5. WriteUrb /\ UNCHANGED <<plugged, is_in_tx, write_urb, submitting, writer, fstate,
                              failed, writing, hw_running, stop>> => WriteUrb'
  BY DEF WriteUrb, TxFlagExact
<1>6. PulseOwned /\ UNCHANGED <<pulse, fstate, open_count, chip, pins, led, plugged, usb,
                                reset_pin>> => PulseOwned'
  BY DEF PulseOwned, PinsFollow, Conn!Resetting, Conn!MaxOpenCount
<1> QED BY <1>1, <1>2, <1>3, <1>4, <1>5, <1>6

(* The part without the raw UART's own invariant.                          *)
PortInv ==
  PortType /\ KrefExact /\ PortPhases /\ StopsLast /\ ReadUrb /\ WriteUrb /\ PulseOwned

-----------------------------------------------------------------------------
(* An adapter nobody has plugged in satisfies the invariant.               *)
LEMMA UsbInvInit == Init => UsbInv
<1> SUFFICES ASSUME Init PROVE UsbInv
  OBVIOUS
<1>1. Conn!ConnInv
  <2>1. ConnP!Init
    BY DEF Init, Conn!Init, ConnP!Init
  <2> QED BY <2>1, ConnP!ConnInvInit, ConnAssumed, SameConnInv
<1>2. PortType
  <2>1. chip \in {"CP2102N", "CP2102", "FT232R"}
    BY DEF Init, Pulse
  <2>2. 0 \in 0..MaxChunks /\ 0 \in 0..2 /\ 0 \in 0..3
    BY UsbAssumption
  <2> QED BY <2>1, <2>2, Zenon DEF Init, PortType
<1>3. ~hw_running /\ open_count = 0 /\ \A f \in Files : fstate[f] = "closed"
  BY DEF Init, Conn!Init
<1>4. KrefExact /\ PortPhases /\ StopsLast /\ ReadUrb /\ WriteUrb
  BY <1>3 DEF Init, KrefExact, PortPhases, StopsLast, ReadUrb, ListensWhileOpen, WriteUrb,
     TxFlagExact
<1>5. PulseOwned
  <2>1. pins = [led |-> FALSE, reset |-> "input"] /\ pulse = 0 /\ usb = "absent" /\ led = FALSE
    BY DEF Init
  <2>2. \E r \in {"asserted", "high", "input"}, v \in BOOLEAN : pins = [led |-> v, reset |-> r]
    BY <2>1, Zenon
  <2>3. led \in BOOLEAN
    BY <2>1, Zenon
  <2>4. pulse = 0 /\ pulse <= 2
    BY <2>1
  <2>5. pins["led"] = FALSE /\ pins["reset"] = "input"
    BY <2>1
  <2>6. pins["led"] = led /\ reset_pin = "input"
    BY <2>1, <2>5, Zenon DEF Init
  <2> QED BY <2>1, <2>2, <2>3, <2>4, <2>5, <2>6, Zenon DEF PulseOwned, PinsFollow
<1> QED BY <1>1, <1>2, <1>4, <1>5 DEF UsbInv

(* The two steps of the handler of the URB for reading.                    *)
LEMMA ReadSteps ==
  ASSUME UsbInv, ReadComplete \/ ReadResubmit
  PROVE  PortInv'
<1>0. PortType /\ KrefExact /\ PortPhases /\ StopsLast /\ ReadUrb /\ WriteUrb /\ PulseOwned
  BY DEF UsbInv
<1>1. /\ UNCHANGED <<life_vars, port_vars, write_vars, gpio_vars>>
      /\ "write" \in failed' <=> "write" \in failed
  BY DEF ReadComplete, ReadResubmit, Refused
<1>2. KrefExact' /\ StopsLast' /\ PulseOwned'
  BY <1>0, <1>1, Untouched DEF life_vars, port_vars, gpio_vars
<1>5. WriteUrb'
  BY <1>0, <1>1 DEF WriteUrb, TxFlagExact, life_vars, port_vars, write_vars
<1>3. CASE ReadComplete
  <2>1. read_urb = "active" /\ read_urb' = "idle" /\ reading' = TRUE /\ failed' = failed
    BY <1>3 DEF ReadComplete
  <2>2. PortType' /\ PortPhases'
    BY <1>0, <1>1, <2>1
       DEF PortType, PortPhases, life_vars, port_vars, write_vars, gpio_vars
  <2>3. ReadUrb'
    BY <1>0, <1>1, <2>1 DEF ReadUrb, ListensWhileOpen, life_vars, port_vars
  <2> QED BY <1>2, <1>5, <2>2, <2>3 DEF PortInv
<1>4. CASE ReadResubmit
  <2>1. /\ reading /\ reading' = FALSE /\ read_urb = "idle"
        /\ read_urb' \in {"active", "idle"}
        /\ read_urb' = "active" => CanSubmit("kill_read")
        /\ read_urb' # "active" => "read" \in failed'
    BY <1>0, <1>4 DEF ReadResubmit, ReadUrb, Submitted, Refused
  <2>2. PortType' /\ PortPhases'
    <3>1. PortType'
      <4>1. reading' \in BOOLEAN
        BY <2>1, Zenon
      <4>2. read_urb' \in {"none", "idle", "active"}
        BY <2>1, Zenon
      <4>3. UNCHANGED <<port_vars, write_vars, pulse>>
        BY <1>1 DEF gpio_vars
      <4> QED BY <1>0, <4>1, <4>2, <4>3 DEF PortType, port_vars, write_vars
    <3> QED BY <1>0, <1>1, <2>1, <3>1 DEF PortPhases, life_vars, port_vars, write_vars
  <2>3. hw_running /\ stop \notin {"put", "done"}
    BY <1>0, <2>1 DEF ReadUrb, ListensWhileOpen
  <2>4. ReadUrb'
    BY <1>0, <1>1, <2>1, <2>3 DEF ReadUrb, ListensWhileOpen, life_vars, port_vars
  <2> QED BY <1>2, <1>5, <2>2, <2>4 DEF PortInv
<1> QED BY <1>3, <1>4

(* The steps of write() and of the handler of the URB for writing.         *)
LEMMA WriteSteps ==
  ASSUME UsbInv,
         \/ WriteComplete \/ WriteCompleted \/ TxSubmit
         \/ \E f \in Files : Write(f) \/ WriteReturns(f)
  PROVE  PortInv'
<1>0. PortType /\ KrefExact /\ PortPhases /\ StopsLast /\ ReadUrb /\ WriteUrb /\ PulseOwned
  BY DEF UsbInv
<1>1. /\ UNCHANGED <<life_vars, port_vars, read_urb, reading, gpio_vars>>
      /\ "read" \in failed' <=> "read" \in failed
  <2>1. /\ UNCHANGED <<life_vars, port_vars, read_urb, reading, gpio_vars>>
        /\ failed' = failed \/ failed' = Refused("write", write_urb')
    BY DEF WriteComplete, WriteCompleted, TxSubmit, Write, WriteReturns, read_vars
  <2> QED BY <2>1 DEF Refused
<1>2. KrefExact' /\ StopsLast' /\ ReadUrb' /\ PulseOwned'
  <2>1. ReadUrb'
    BY <1>0, <1>1 DEF ReadUrb, ListensWhileOpen, life_vars, port_vars
  <2> QED BY <1>0, <1>1, <2>1, Untouched DEF life_vars, port_vars, gpio_vars
<1>3. ASSUME PortType', WriteUrb', write_urb' = "none" <=> write_urb = "none" PROVE PortInv'
  <2>1. PortPhases'
    BY <1>0, <1>1, <1>3 DEF PortPhases, life_vars, port_vars
  <2> QED BY <1>2, <1>3, <2>1 DEF PortInv
<1>4. chunks \in Nat /\ MaxChunks \in Nat
  BY <1>0, UsbAssumption DEF PortType
<1>5. CASE WriteComplete
  <2>1. /\ write_urb = "active" /\ write_urb' = "idle" /\ writing' = TRUE /\ is_in_tx' = FALSE
        /\ UNCHANGED <<submitting, writer, chunks, failed>>
    BY <1>5 DEF WriteComplete, read_vars
  <2>2. PortType'
    <3>1. UNCHANGED <<port_vars, read_urb, reading, pulse>>
      BY <1>1 DEF gpio_vars
    <3>2. writing' \in BOOLEAN /\ is_in_tx' \in BOOLEAN
      BY <2>1, Zenon
    <3>3. write_urb' \in {"none", "idle", "active"}
      BY <2>1, Zenon
    <3> QED BY <1>0, <2>1, <3>1, <3>2, <3>3 DEF PortType, port_vars
  <2>3. WriteUrb'
    BY <1>0, <1>1, <2>1 DEF WriteUrb, TxFlagExact, life_vars, port_vars
  <2> QED BY <1>3, <2>1, <2>2, <2>3
<1>6. CASE WriteCompleted
  <2>1. /\ writing /\ submitting = "no" /\ UNCHANGED <<write_urb, writer, failed>>
        /\ writing' = (submitting' = "handler") /\ write_urb # "none"
        /\ hw_running /\ stop \notin {"kill_read", "put", "done"}
    BY <1>0, <1>6 DEF WriteCompleted, WriteUrb, read_vars
  <2>2. CASE chunks > 0 /\ ~is_in_tx
    <3>1. chunks' = chunks - 1 /\ is_in_tx' = TRUE /\ submitting' = "handler" /\ writing' = TRUE
      BY <1>6, <2>2 DEF WriteCompleted, TxQueued
    <3>2. PortType'
      BY <1>0, <1>1, <1>4, <2>1, <2>2, <3>1 DEF PortType, life_vars, port_vars, gpio_vars
    <3>3. plugged => write_urb # "active" /\ "write" \notin failed
      BY <1>0, <2>1, <2>2 DEF WriteUrb, TxFlagExact
    <3>4. WriteUrb'
      BY <1>0, <1>1, <2>1, <3>1, <3>3 DEF WriteUrb, TxFlagExact, life_vars, port_vars
    <3> QED BY <1>3, <2>1, <3>2, <3>4
  <2>3. CASE ~(chunks > 0 /\ ~is_in_tx)
    <3>1. UNCHANGED <<chunks, is_in_tx, submitting>> /\ writing' = FALSE
      BY <1>6, <2>1, <2>3 DEF WriteCompleted, TxQueued
    <3>2. PortType'
      BY <1>0, <1>1, <2>1, <3>1 DEF PortType, life_vars, port_vars, gpio_vars
    <3>3. WriteUrb'
      BY <1>0, <1>1, <2>1, <3>1 DEF WriteUrb, TxFlagExact, life_vars, port_vars
    <3> QED BY <1>3, <2>1, <3>2, <3>3
  <2> QED BY <2>2, <2>3
<1>7. CASE TxSubmit
  <2>1. submitting \in {"write", "handler"} /\ UNCHANGED <<is_in_tx, writer, chunks>>
    BY <1>7 DEF TxSubmit
  <2>2. /\ hw_running /\ stop \notin {"kill_read", "put", "done"}
        /\ plugged => is_in_tx /\ write_urb # "active" /\ "write" \notin failed
    BY <1>0, <2>1 DEF WriteUrb, TxFlagExact
  <2>3. CASE write_urb = "none"
    <3>1. submitting' = "oops" /\ UNCHANGED <<write_urb, writing, failed>>
      BY <1>7, <2>3 DEF TxSubmit
    <3>2. submitting = "write"
      BY <1>0, <2>1, <2>3 DEF WriteUrb
    <3>3. PortType'
      BY <1>0, <1>1, <2>1, <3>1 DEF PortType, life_vars, port_vars, gpio_vars
    <3>4. WriteUrb'
      BY <1>0, <1>1, <2>1, <2>2, <3>1, <3>2 DEF WriteUrb, TxFlagExact, life_vars, port_vars
    <3> QED BY <1>3, <3>1, <3>3, <3>4
  <2>4. CASE write_urb # "none"
    <3>1. /\ submitting' = "no"
          /\ write_urb' \in Submitted(write_urb, "kill_write")
          /\ failed' = Refused("write", write_urb')
          /\ writing' = (writing /\ submitting # "handler")
      BY <1>7, <2>4 DEF TxSubmit
    <3>2. writing' \in BOOLEAN /\ (writing' => writing)
      BY <1>0, <3>1, Zenon DEF PortType
    <3>3. write_urb' \in {"idle", "active"}
      BY <1>0, <2>4, <3>1 DEF Submitted, PortType
    <3>4. "write" \in failed' <=> write_urb' # "active"
      BY <3>1 DEF Refused
    <3>5. PortType'
      BY <1>0, <1>1, <2>1, <3>1, <3>2, <3>3 DEF PortType, life_vars, port_vars, gpio_vars
    <3>6. WriteUrb'
      BY <1>0, <1>1, <2>1, <2>2, <3>1, <3>2, <3>3, <3>4
         DEF WriteUrb, TxFlagExact, life_vars, port_vars
    <3> QED BY <1>3, <2>4, <3>3, <3>5, <3>6
  <2> QED BY <2>3, <2>4
<1>8. ASSUME NEW f \in Files, Write(f) PROVE PortInv'
  <2>1. /\ fstate[f] = "open" /\ writer = NULL /\ submitting = "no"
        /\ writer' = f /\ f # NULL /\ UNCHANGED <<write_urb, writing, failed>>
    BY <1>8, UsbAssumption DEF Write, read_vars
  <2>2. PICK n \in 1..MaxChunks : TxQueued(n, "write")
    BY <1>8 DEF Write
  <2>3. hw_running /\ stop = "no"
    BY <2>1, StoppingIsQuiet
  <2>4. n - 1 \in 0..MaxChunks /\ n \in 0..MaxChunks
    BY <1>4
  <2>5. CASE is_in_tx
    <3>1. chunks' = n /\ UNCHANGED <<is_in_tx, submitting>>
      BY <2>2, <2>5 DEF TxQueued
    <3>2. PortType'
      BY <1>0, <1>1, <2>1, <2>4, <3>1 DEF PortType, life_vars, port_vars, gpio_vars
    <3>3. WriteUrb'
      BY <1>0, <1>1, <2>1, <2>3, <3>1 DEF WriteUrb, TxFlagExact, life_vars, port_vars
    <3> QED BY <1>3, <2>1, <3>2, <3>3
  <2>6. CASE ~is_in_tx
    <3>1. chunks' = n - 1 /\ is_in_tx' = TRUE /\ submitting' = "write"
      BY <2>2, <2>6 DEF TxQueued
    <3>2. PortType'
      BY <1>0, <1>1, <2>1, <2>4, <3>1 DEF PortType, life_vars, port_vars, gpio_vars
    <3>3. plugged => write_urb # "active" /\ "write" \notin failed
      BY <1>0, <2>6 DEF WriteUrb, TxFlagExact
    <3>4. WriteUrb'
      BY <1>0, <1>1, <2>1, <2>3, <3>1, <3>3 DEF WriteUrb, TxFlagExact, life_vars, port_vars
    <3> QED BY <1>3, <2>1, <3>2, <3>4
  <2> QED BY <2>5, <2>6
<1>9. ASSUME NEW f \in Files, WriteReturns(f) PROVE PortInv'
  <2>1. /\ submitting = "no" /\ writer' = NULL
        /\ UNCHANGED <<write_urb, writing, is_in_tx, submitting, chunks, failed>>
    BY <1>9 DEF WriteReturns, read_vars
  <2>2. PortType'
    BY <1>0, <1>1, <2>1 DEF PortType, life_vars, port_vars, gpio_vars
  <2>3. WriteUrb'
    BY <1>0, <1>1, <2>1 DEF WriteUrb, TxFlagExact, life_vars, port_vars
  <2> QED BY <1>3, <2>1, <2>2, <2>3
<1> QED BY <1>5, <1>6, <1>7, <1>8, <1>9

(* A step of a process that is neither stopping the driver nor resetting   *)
(* the radio module, and is not in write(): only its own state changes.    *)
LEMMA OtherFile ==
  ASSUME UsbInv, NEW f \in Files, NEW s,
         fstate' = [fstate EXCEPT ![f] = s],
         usb \notin {"absent", "probing"},
         stop # "no" => fstate[f] # "closing",
         pulse # 0 => fstate[f] \notin {"ioctl_reset", "sysfs_reset"},
         fstate[f] = "open" => writer # f,
         UNCHANGED <<open_count, hw_running, port_vars, read_vars, write_vars, gpio_vars>>
  PROVE  PortInv'
<1>0. PortType /\ KrefExact /\ PortPhases /\ StopsLast /\ ReadUrb /\ WriteUrb /\ PulseOwned
  BY DEF UsbInv
<1>1. fstate'[f] = s /\ \A g \in Files : g # f => fstate'[g] = fstate[g]
  BY DEF UsbInv, Conn!ConnInv, Conn!TypeOK
<1>2. KrefExact' /\ ReadUrb'
  BY <1>0, Untouched DEF port_vars, read_vars
<1>3. PortType'
  BY <1>0 DEF PortType, port_vars, read_vars, write_vars, gpio_vars
<1>4. PortPhases'
  BY <1>0 DEF PortPhases, port_vars, read_vars, write_vars
<1>5. StopsLast'
  BY <1>0, <1>1 DEF StopsLast, port_vars
<1>6. WriteUrb'
  <2>1. writer # NULL => fstate'[writer] = "open"
    BY <1>0, <1>1 DEF WriteUrb, PortType
  <2> QED BY <1>0, <2>1 DEF WriteUrb, TxFlagExact, port_vars, read_vars, write_vars
<1>7. PulseOwned'
  <2>1. ASSUME pulse # 0 PROVE \E g \in Files : Conn!Resetting(g)'
    <3>1. PICK g \in Files : fstate[g] \in {"ioctl_reset", "sysfs_reset"} /\ Conn!Resetting(g)
      BY <2>1, PulseHasOwner
    <3>2. fstate'[g] = fstate[g]
      BY <1>1, <2>1, <3>1
    <3> QED BY <3>1, <3>2 DEF Conn!Resetting, Conn!MaxOpenCount
  <2> QED BY <1>0, <2>1 DEF PulseOwned, PinsFollow, port_vars, gpio_vars
<1> QED BY <1>2, <1>3, <1>4, <1>5, <1>6, <1>7 DEF PortInv

(* Calls that do not reach the driver, and the end of a reset.             *)
LEMMA FileSteps ==
  ASSUME UsbInv, NEW f \in Files, FileStep(f) \/ ResetReturns(f)
  PROVE  PortInv'
<1>0. PortType /\ KrefExact /\ PortPhases /\ StopsLast /\ ReadUrb /\ WriteUrb /\ PulseOwned
  BY DEF UsbInv
<1>1. usb \notin {"absent", "probing"}
  BY DEF FileStep, ResetReturns, Registered
<1>2. CASE FileStep(f)
  <2>1. /\ UNCHANGED <<open_count, hw_running, port_vars, read_vars, write_vars, gpio_vars>>
        /\ fstate[f] \notin {"closing", "ioctl_reset", "sysfs_reset"}
        /\ fstate[f] = "open" => writer # f
    BY <1>2 DEF FileStep, Conn!Open, Conn!ResetSysfs, Conn!Close, Conn!ResetIoctl, Conn!Down,
       Conn!Interrupt, Conn!OpenChecks, Conn!OpenFails, Conn!Waiting
  <2>2. \E s : fstate' = [fstate EXCEPT ![f] = s]
    BY <1>2 DEF FileStep, Conn!Open, Conn!ResetSysfs, Conn!Close, Conn!ResetIoctl, Conn!Down,
       Conn!Interrupt, Conn!OpenChecks, Conn!OpenFails, Conn!Goto
  <2> QED BY <1>1, <2>1, <2>2, OtherFile
<1>3. CASE ResetReturns(f)
  <2>1. /\ UNCHANGED <<open_count, hw_running, port_vars, read_vars, write_vars>>
        /\ UNCHANGED <<led, reset_pin, pins>> /\ pulse' = 0
        /\ fstate[f] \in {"ioctl_reset", "sysfs_reset"}
        /\ Conn!Resetting(f) => pulse = Len(Pulse[chip])
    BY <1>3 DEF ResetReturns, Conn!ResetReturns
  <2>2. PICK s : fstate' = [fstate EXCEPT ![f] = s]
    BY <1>3 DEF ResetReturns, Conn!ResetReturns, Conn!Goto
  <2>3. fstate'[f] = s /\ \A g \in Files : g # f => fstate'[g] = fstate[g]
    BY <2>2 DEF UsbInv, Conn!ConnInv, Conn!TypeOK
  <2>4. pulse # 1
    <3>1. ASSUME pulse # 0 PROVE pulse = Len(Pulse[chip])
      <4>1. PICK g \in Files : fstate[g] \in {"ioctl_reset", "sysfs_reset"} /\ Conn!Resetting(g)
        BY <3>1, PulseHasOwner
      <4>2. f = g
        BY <2>1, <4>1, OpenFacts DEF UsbInv, Conn!Holding
      <4> QED BY <2>1, <4>1, <4>2
    <3> QED BY <1>0, <3>1, Pulses DEF PortType
  <2>5. KrefExact' /\ ReadUrb'
    BY <1>0, <2>1, Untouched DEF port_vars, read_vars
  <2>6. PortType' /\ PortPhases'
    BY <1>0, <1>1, <2>1 DEF PortType, PortPhases, port_vars, read_vars, write_vars
  <2>7. StopsLast'
    BY <1>0, <2>1, <2>3 DEF StopsLast, port_vars
  <2>8. WriteUrb'
    <3>1. writer # NULL => fstate'[writer] = "open"
      BY <1>0, <2>1, <2>3 DEF WriteUrb, PortType
    <3> QED BY <1>0, <2>1, <3>1 DEF WriteUrb, TxFlagExact, port_vars, read_vars, write_vars
  <2>9. PulseOwned'
    BY <1>0, <2>1, <2>4 DEF PulseOwned, PinsFollow, port_vars
  <2> QED BY <2>5, <2>6, <2>7, <2>8, <2>9 DEF PortInv
<1> QED BY <1>2, <1>3

(* Opening starts the driver and submits the URB for reading ...           *)
LEMMA OpenStep ==
  ASSUME UsbInv, NEW f \in Files, OpenSucceeds(f)
  PROVE  PortInv'
<1>0. PortType /\ KrefExact /\ PortPhases /\ StopsLast /\ ReadUrb /\ WriteUrb /\ PulseOwned
      /\ Conn!ConnInv
  BY DEF UsbInv
<1>1. /\ usb \notin {"absent", "probing"} /\ ~freed /\ fstate[f] = "starting"
      /\ fstate' = [fstate EXCEPT ![f] = "open"] /\ open_count' = open_count + 1
      /\ hw_running' = (IF open_count = 0 THEN TRUE ELSE hw_running)
      /\ UNCHANGED <<chip, usb, plugged, freed, stop, reading, write_vars, gpio_vars>>
  BY DEF OpenSucceeds, Conn!OpenSucceeds, Registered, Conn!Goto
<1>2. fstate'[f] = "open" /\ \A g \in Files : g # f => fstate'[g] = fstate[g]
  BY <1>0, <1>1 DEF Conn!ConnInv, Conn!TypeOK
<1>3. stop = "no" /\ pulse = 0
  <2>1. \A g \in Files : fstate[g] \notin {"closing", "ioctl_reset", "sysfs_reset"}
    BY <1>0, <1>1, OpenFacts DEF Conn!Holding
  <2> QED BY <1>0, <2>1, PulseHasOwner DEF StopsLast
<1>4. hw_running' = TRUE /\ open_count \in Nat /\ (hw_running <=> open_count # 0)
  <2>1. open_count \in Nat /\ (hw_running <=> open_count > 0)
    BY <1>0, OpenFacts
  <2>2. hw_running \in BOOLEAN
    BY <1>0 DEF Conn!ConnInv, Conn!TypeOK
  <2>3. open_count # 0 <=> open_count > 0
    BY <2>1
  <2> QED BY <1>1, <2>1, <2>2, <2>3, Zenon
<1>5. PortPhases'
  <2>1. read_urb' = "none" <=> read_urb = "none"
    BY <1>0 DEF OpenSucceeds, StartConnection, Submitted
  <2> QED BY <1>0, <1>1, <2>1 DEF PortPhases, write_vars
<1>6. StopsLast'
  BY <1>1, <1>3 DEF StopsLast
<1>7. WriteUrb'
  <2>1. writer # NULL => fstate'[writer] = "open"
    BY <1>0, <1>1, <1>2 DEF WriteUrb, PortType
  <2>2. "write" \in failed' <=> "write" \in failed
    BY DEF OpenSucceeds, StartConnection, Refused
  <2> QED BY <1>0, <1>1, <1>3, <1>4, <2>1, <2>2 DEF WriteUrb, TxFlagExact, write_vars
<1>8. PulseOwned'
  BY <1>0, <1>1, <1>3 DEF PulseOwned, PinsFollow, gpio_vars
<1>9. CASE open_count = 0
  <2>1. /\ kref' = kref + 1 /\ read_urb' \in Submitted(read_urb, "kill_read")
        /\ failed' = Refused("read", read_urb') /\ ~hw_running
    BY <1>4, <1>9 DEF OpenSucceeds, StartConnection
  <2>2. KrefExact' /\ kref' \in 0..2
    BY <1>0, <1>1, <1>3, <1>4, <2>1 DEF KrefExact
  <2>3. read_urb \in {"none", "idle"} /\ ~reading
    BY <1>0, <2>1 DEF ReadUrb, ListensWhileOpen, PortType
  <2>4. /\ read_urb' \in {"none", "idle", "active"}
        /\ read_urb' # "active" => "read" \in failed'
    BY <1>0, <2>1, <2>3 DEF Submitted, Refused
  <2>5. PortType'
    BY <1>0, <1>1, <2>2, <2>4 DEF PortType, write_vars, gpio_vars
  <2>6. ReadUrb'
    BY <1>1, <1>3, <1>4, <2>1, <2>3, <2>4 DEF ReadUrb, ListensWhileOpen
  <2> QED BY <1>5, <1>6, <1>7, <1>8, <2>2, <2>5, <2>6 DEF PortInv
<1>10. CASE open_count # 0
  <2>1. UNCHANGED <<kref, read_urb, failed>> /\ hw_running
    BY <1>4, <1>10 DEF OpenSucceeds
  <2>2. KrefExact' /\ ReadUrb'
    BY <1>0, <1>1, <1>4, <2>1 DEF KrefExact, ReadUrb, ListensWhileOpen
  <2>3. PortType'
    BY <1>0, <1>1, <2>1 DEF PortType, write_vars, gpio_vars
  <2> QED BY <1>5, <1>6, <1>7, <1>8, <2>2, <2>3 DEF PortInv
<1> QED BY <1>9, <1>10

(* ... and closing kills the URBs before it drops the reference.           *)
LEMMA CloseSteps ==
  ASSUME UsbInv, NEW f \in Files, StopConnection(f) \/ Closing(f)
  PROVE  PortInv'
<1>0. PortType /\ KrefExact /\ PortPhases /\ StopsLast /\ ReadUrb /\ WriteUrb /\ PulseOwned
      /\ Conn!ConnInv
  BY DEF UsbInv
<1>1. fstate[f] = "closing" /\ "closing" \in Conn!Opened
  BY DEF StopConnection, Closing, Conn!Closing, Conn!Opened
<1>2. open_count \in Nat \ {0} /\ hw_running
  BY <1>0, <1>1, OpenFacts
<1>3. CASE StopConnection(f)
  <2>1. /\ UNCHANGED <<life_vars, chip, usb, plugged, read_vars, write_vars, gpio_vars>>
        /\ open_count = 1 /\ stop' \in {"kill_write", "kill_read", "put", "done"}
        /\ stop # "done"
    BY <1>3 DEF StopConnection
  <2>2. PortPhases' /\ PulseOwned'
    BY <1>0, <2>1, Untouched DEF life_vars, read_vars, write_vars, gpio_vars
  <2>6. KrefExact' /\ kref' \in 0..2
    <3>1. CASE stop = "put"
      <4>1. stop' = "done" /\ kref' = kref - 1 /\ freed' = (kref = 1)
        BY <1>3, <3>1 DEF StopConnection, KrefPut
      <4>2. kref = (IF usb \in {"absent", "gone"} THEN 1 ELSE 2)
        BY <1>0, <1>2, <2>1 DEF KrefExact
      <4>3. usb # "absent"
        BY <1>0, <2>1 DEF PortPhases
      <4>4. freed' <=> usb = "gone"
        <5>1. kref = 1 <=> usb = "gone"
          BY <4>2, <4>3
        <5> QED BY <4>1, <5>1, Zenon
      <4>5. kref' = (IF usb = "gone" THEN 0 ELSE 1)
        BY <4>1, <4>2, <4>3
      <4> QED BY <2>1, <4>1, <4>3, <4>4, <4>5 DEF KrefExact, life_vars
    <3>2. CASE stop # "put"
      <4>1. stop' # "done" /\ UNCHANGED <<kref, freed>>
        BY <1>3, <3>2 DEF StopConnection
      <4> QED BY <1>0, <2>1, <4>1 DEF KrefExact, PortType, life_vars
    <3> QED BY <3>1, <3>2
  <2>3. PortType' /\ StopsLast'
    BY <1>0, <1>1, <2>1, <2>6 DEF PortType, StopsLast, life_vars, read_vars, write_vars, gpio_vars
  <2>4. ReadUrb'
    <3>1. stop' \in {"put", "done"} => read_urb # "active" /\ ~reading
      BY <1>0, <1>3 DEF StopConnection, ReadUrb
    <3> QED BY <1>0, <2>1, <3>1 DEF ReadUrb, ListensWhileOpen, life_vars, read_vars
  <2>5. WriteUrb'
    <3>1. ASSUME stop' \in {"kill_read", "put", "done"}
          PROVE  write_urb # "active" /\ ~writing /\ submitting = "no"
      <4>1. stop # "no"
        BY <1>3, <3>1 DEF StopConnection
      <4>2. writer = NULL
        BY <4>1, StoppingIsQuiet
      <4>3. write_urb # "active" /\ ~writing
        BY <1>0, <1>3, <3>1 DEF StopConnection, WriteUrb
      <4> QED BY <1>0, <4>2, <4>3 DEF WriteUrb, PortType
    <3> QED BY <1>0, <1>2, <2>1, <3>1 DEF WriteUrb, TxFlagExact, life_vars, read_vars, write_vars
  <2> QED BY <2>2, <2>3, <2>4, <2>5, <2>6 DEF PortInv
<1>4. CASE Closing(f)
  <2>1. /\ usb \notin {"absent", "probing"} /\ fstate' = [fstate EXCEPT ![f] = "closed"]
        /\ open_count' = open_count - 1
        /\ hw_running' = (IF open_count' = 0 THEN FALSE ELSE hw_running)
        /\ UNCHANGED <<chip, usb, plugged, kref, freed, read_vars, write_vars, gpio_vars>>
    BY <1>0, <1>2, <1>4 DEF Closing, Conn!Closing, PortPhases, Conn!Goto
  <2>2. fstate'[f] = "closed" /\ \A g \in Files : g # f => fstate'[g] = fstate[g]
    BY <1>0, <2>1 DEF Conn!ConnInv, Conn!TypeOK
  <2>3. pulse = 0
    <3>1. \A g \in Files : fstate[g] \notin {"ioctl_reset", "sysfs_reset"}
      BY <1>0, <1>1, OpenFacts DEF Conn!Holding
    <3> QED BY <3>1, PulseHasOwner
  <2>4. PortPhases'
    BY <1>0, <2>1 DEF PortPhases, read_vars, write_vars
  <2>5. PulseOwned'
    BY <1>0, <2>1, <2>3 DEF PulseOwned, PinsFollow, gpio_vars
  <2>6. writer # NULL => fstate'[writer] = "open"
    BY <1>0, <1>1, <2>2 DEF WriteUrb, PortType
  <2>7. CASE open_count = 1
    <3>1. stop = "done" /\ stop' = "no"
      BY <1>4, <2>7 DEF Closing
    <3>2. hw_running' = FALSE
      BY <1>2, <2>1, <2>7
    <3>3. KrefExact'
      BY <1>0, <2>1, <3>1, <3>2 DEF KrefExact
    <3>4. PortType'
      BY <1>0, <2>1, <3>1 DEF PortType, read_vars, write_vars, gpio_vars
    <3>5. StopsLast' /\ ReadUrb'
      BY <1>0, <2>1, <3>1, <3>2 DEF StopsLast, ReadUrb, ListensWhileOpen, read_vars
    <3>6. WriteUrb'
      BY <1>0, <2>1, <2>6, <3>1, <3>2 DEF WriteUrb, TxFlagExact, read_vars, write_vars
    <3> QED BY <2>4, <2>5, <3>3, <3>4, <3>5, <3>6 DEF PortInv
  <2>8. CASE open_count # 1
    <3>1. UNCHANGED stop
      BY <1>4, <2>8 DEF Closing
    <3>2. hw_running' = hw_running
      BY <1>2, <2>1, <2>8
    <3>3. stop = "no"
      BY <1>0, <2>8 DEF StopsLast
    <3>4. KrefExact' /\ ReadUrb'
      BY <1>0, <2>1, <3>1, <3>2, Untouched DEF read_vars
    <3>5. PortType' /\ StopsLast'
      BY <1>0, <2>1, <3>1, <3>3 DEF PortType, StopsLast, read_vars, write_vars, gpio_vars
    <3>6. WriteUrb'
      BY <1>0, <1>2, <2>1, <2>6, <3>1, <3>2, <3>3
         DEF WriteUrb, TxFlagExact, read_vars, write_vars
    <3> QED BY <2>4, <2>5, <3>4, <3>5, <3>6 DEF PortInv
  <2> QED BY <2>7, <2>8
<1> QED BY <1>3, <1>4

(* The LEDs and the reset pulse: a chip that sets all its pins at once     *)
(* finds the value of the others in gpio_value.                            *)
LEMMA PinSteps ==
  ASSUME UsbInv,
         \/ \E value \in BOOLEAN : GpioSet(value)
         \/ \E f \in Files : ResetStep(f)
  PROVE  PortInv'
<1>0. PortType /\ KrefExact /\ PortPhases /\ StopsLast /\ ReadUrb /\ WriteUrb /\ PulseOwned
  BY DEF UsbInv
<1>1. UNCHANGED <<life_vars, port_vars, read_vars, write_vars>>
  BY DEF GpioSet, ResetStep
<1>2. KrefExact' /\ PortPhases' /\ StopsLast' /\ ReadUrb' /\ WriteUrb'
  BY <1>0, <1>1, Untouched DEF life_vars, port_vars, read_vars, write_vars
<1>3. ASSUME pulse' \in 0..3, PulseOwned' PROVE PortInv'
  <2>1. PortType'
    BY <1>0, <1>1, <1>3 DEF PortType, life_vars, port_vars, read_vars, write_vars
  <2> QED BY <1>2, <1>3, <2>1 DEF PortInv
<1>4. PICK r \in {"asserted", "high", "input"}, v \in BOOLEAN : pins = [led |-> v, reset |-> r]
  BY <1>0 DEF PulseOwned
<1>5. ASSUME NEW value \in BOOLEAN, GpioSet(value) PROVE PortInv'
  <2>1. led' = value /\ reset_pin' = reset_pin /\ pulse' = pulse /\ usb # "absent"
        /\ chip # "CP2102"
    BY <1>5 DEF GpioSet
  <2>2. pins' = IF plugged THEN [led |-> value, reset |-> r] ELSE pins
    <3>1. CASE chip = "CP2102N"
      BY <1>4, <1>5, <3>1 DEF GpioSet, SetGpio2
    <3>2. CASE chip = "FT232R"
      <4>1. plugged => r = reset_pin
        BY <1>0, <1>4, <2>1, <3>2 DEF PulseOwned
      <4> QED BY <1>5, <2>1, <3>2, <4>1 DEF GpioSet, SetGpio
    <3> QED BY <1>0, <2>1, <3>1, <3>2 DEF PortType
  <2>3. PulseOwned'
    <3>1. pulse # 0 => \E f \in Files : Conn!Resetting(f)'
      BY <1>0, <1>1 DEF PulseOwned, Conn!Resetting, Conn!MaxOpenCount, life_vars
    <3>2. \E q \in {"asserted", "high", "input"}, w \in BOOLEAN : pins' = [led |-> w, reset |-> q]
      BY <1>4, <2>2
    <3>3. plugged => pins'["led"] = value /\ pins'["reset"] = pins["reset"]
      BY <1>4, <2>2
    <3>4. led' \in BOOLEAN
      BY <2>1
    <3> QED BY <1>0, <1>1, <2>1, <3>1, <3>2, <3>3, <3>4 DEF PulseOwned, PinsFollow, port_vars
  <2> QED BY <1>0, <1>3, <2>1, <2>3 DEF PortType
<1>6. ASSUME NEW f \in Files, ResetStep(f) PROVE PortInv'
  <2> DEFINE level == Pulse[chip][pulse + 1]
  <2>1. /\ Conn!Resetting(f) /\ pulse < Len(Pulse[chip]) /\ pulse' = pulse + 1 /\ led' = led
    BY <1>6 DEF ResetStep
  <2>2. /\ pulse' \in 1..3 /\ (chip = "CP2102N" => pulse' <= 2) /\ chip # "CP2102"
        /\ level \in {"asserted", "high", "input"}
        /\ level = "asserted" <=> pulse' = 1
    <3>1. pulse \in 0..3 /\ chip \in {"CP2102N", "CP2102", "FT232R"} /\ chip # "CP2102"
      <4>1. pulse \in 0..3 /\ chip \in {"CP2102N", "CP2102", "FT232R"}
        BY <1>0 DEF PortType
      <4>2. chip # "CP2102"
        BY <2>1, <4>1, Pulses
      <4> QED BY <4>1, <4>2
    <3>2. pulse + 1 \in 1..3 /\ (chip = "CP2102N" => pulse + 1 \in 1..2)
      <4>1. CASE chip = "CP2102N"
        <5>1. pulse < 2
          BY <2>1, <4>1, Pulses, Zenon
        <5> QED BY <3>1, <5>1
      <4>2. CASE chip = "FT232R"
        <5>1. pulse < 3
          BY <2>1, <4>2, Pulses, Zenon
        <5> QED BY <3>1, <4>2, <5>1
      <4> QED BY <3>1, <4>1, <4>2
    <3>3. /\ pulse + 1 = 1 => level = "asserted"
          /\ pulse + 1 = 2 => level = "high"
          /\ pulse + 1 = 3 => level = "input"
      BY <3>1, <3>2, Pulses
    <3> HIDE DEF level
    <3> QED BY <2>1, <3>1, <3>2, <3>3
  <2>3. usb \notin {"absent", "probing"}
    BY <1>0, <2>1 DEF PortPhases, Conn!Resetting
  <2>4. plugged => v = led
    BY <1>0, <1>4, <2>3 DEF PulseOwned
  <2>5. /\ pins' = IF plugged THEN [led |-> v, reset |-> level] ELSE pins
        /\ chip = "FT232R" => reset_pin' = level
    <3>1. CASE chip = "CP2102N"
      BY <1>4, <1>6, <3>1 DEF ResetStep, SetGpio2
    <3>2. CASE chip = "FT232R"
      BY <1>6, <2>1, <2>4, <3>2 DEF ResetStep, SetGpio
    <3> QED BY <1>0, <2>2, <3>1, <3>2 DEF PortType
  <2> HIDE DEF level
  <2>6. PulseOwned'
    <3>1. \E g \in Files : Conn!Resetting(g)'
      BY <1>1, <2>1 DEF Conn!Resetting, Conn!MaxOpenCount, life_vars
    <3>2. \E q \in {"asserted", "high", "input"}, w \in BOOLEAN : pins' = [led |-> w, reset |-> q]
      BY <1>4, <2>2, <2>5
    <3>3. plugged => pins'["led"] = led /\ pins'["reset"] = level
      BY <1>4, <2>4, <2>5
    <3> QED BY <1>0, <1>1, <2>1, <2>2, <2>5, <3>1, <3>2, <3>3 DEF PulseOwned, PinsFollow, port_vars
  <2> QED BY <1>3, <2>2, <2>6
<1> QED BY <1>5, <1>6

(* The USB core's calls.                                                   *)
LEMMA UsbSteps ==
  ASSUME UsbInv, Probe \/ ProbeRawUart \/ ProbeReset \/ InitUart \/ Unplug \/ Disconnect
  PROVE  PortInv'
<1>0. PortType /\ KrefExact /\ PortPhases /\ StopsLast /\ ReadUrb /\ WriteUrb /\ PulseOwned
      /\ Conn!ConnInv
  BY DEF UsbInv
<1>1. UNCHANGED <<fstate, open_count, hw_running, chip, stop, reading, failed, writing,
                  is_in_tx, submitting, writer, chunks, pulse>>
  BY DEF Probe, ProbeRawUart, ProbeReset, InitUart, Unplug, Disconnect, life_vars, read_vars,
     write_vars, gpio_vars
<1>2. StopsLast'
  BY <1>0, <1>1, Untouched
<1>3. usb \in {"absent", "probing"} => ~hw_running /\ pulse = 0
  <2>1. usb \in {"absent", "probing"} => open_count = 0
    BY <1>0 DEF PortPhases
  <2>2. usb \in {"absent", "probing"} => \A f \in Files : fstate[f] = "closed"
    BY <1>0 DEF PortPhases
  <2> QED BY <1>0, <2>1, <2>2, OpenFacts, PulseHasOwner
<1>4. CASE Probe
  <2>1. /\ usb = "absent" /\ usb' = "probing" /\ kref' = 1
        /\ UNCHANGED <<plugged, freed, read_urb, write_urb>>
    BY <1>4 DEF Probe, read_vars, write_vars
  <2>2. PortType' /\ KrefExact' /\ PortPhases'
    BY <1>0, <1>1, <1>3, <2>1 DEF PortType, KrefExact, PortPhases
  <2>3. ReadUrb' /\ WriteUrb'
    BY <1>0, <1>1, <2>1, Untouched
  <2>4. pulse' = 0 /\ pulse' <= 2
    BY <1>1, <1>3, <2>1
  <2>5. CASE chip = "CP2102"
    <3>1. UNCHANGED <<led, reset_pin, pins>>
      BY <1>4, <2>5 DEF Probe
    <3>2. plugged => pins["led"] = led
      BY <1>0, <2>1, <2>5 DEF PulseOwned
    <3>3. PulseOwned'
      BY <1>0, <1>1, <2>1, <2>4, <2>5, <3>1, <3>2 DEF PulseOwned, PinsFollow
    <3> QED BY <1>2, <2>2, <2>3, <3>3 DEF PortInv
  <2>6. CASE chip # "CP2102"
    <3>1. /\ led' = TRUE /\ reset_pin' = "asserted"
          /\ pins' = [led |-> TRUE, reset |-> "asserted"]
      BY <1>4, <2>6 DEF Probe
    <3>2. \E q \in {"asserted", "high", "input"}, w \in BOOLEAN : pins' = [led |-> w, reset |-> q]
      BY <3>1, Zenon
    <3>3. /\ led' \in BOOLEAN /\ pins'["led"] = led' /\ pins'["reset"] = reset_pin'
          /\ chip' # "CP2102"
      BY <1>1, <2>6, <3>1
    <3>4. PulseOwned'
      BY <2>1, <2>4, <3>2, <3>3, Zenon DEF PulseOwned, PinsFollow
    <3> QED BY <1>2, <2>2, <2>3, <3>4 DEF PortInv
  <2> QED BY <2>5, <2>6
<1>5. CASE ProbeRawUart
  <2>1. /\ usb = "probing" /\ usb' = "visible"
        /\ UNCHANGED <<plugged, freed, kref, read_urb, write_urb, led, reset_pin, pins>>
    BY <1>5 DEF ProbeRawUart, read_vars, write_vars, gpio_vars
  <2>2. PortType' /\ KrefExact' /\ PortPhases'
    BY <1>0, <1>1, <2>1 DEF PortType, KrefExact, PortPhases
  <2>3. ReadUrb' /\ WriteUrb'
    BY <1>0, <1>1, <2>1, Untouched
  <2>4. PulseOwned'
    BY <1>0, <1>1, <2>1 DEF PulseOwned, PinsFollow, Conn!Resetting, Conn!MaxOpenCount
  <2> QED BY <1>2, <2>2, <2>3, <2>4 DEF PortInv
<1>9. CASE ProbeReset
  <2> DEFINE level == Pulse[chip][Len(Pulse[chip])]
  <2>1. /\ usb = "visible" /\ sem = NULL /\ usb' = "registered" /\ led' = led
        /\ reset_pin' = (IF chip = "FT232R" THEN "input" ELSE reset_pin)
        /\ pins' = (IF chip = "CP2102" THEN pins ELSE [pins EXCEPT !["reset"] = level])
        /\ UNCHANGED <<plugged, freed, kref, read_urb, write_urb>>
    BY <1>9 DEF ProbeReset, read_vars, write_vars
  <2>2. PortType' /\ KrefExact' /\ PortPhases'
    BY <1>0, <1>1, <2>1 DEF PortType, KrefExact, PortPhases
  <2>3. ReadUrb' /\ WriteUrb'
    BY <1>0, <1>1, <2>1, Untouched
  <2>4. chip # "CP2102" =>
          level \in {"high", "input"} /\ (chip = "FT232R" => level = "input")
    BY <1>0, Pulses DEF PortType
  <2> HIDE DEF level
  <2>5. pulse = 0
    <3>1. \A f \in Files : fstate[f] \notin {"ioctl_reset", "sysfs_reset"}
      BY <1>0, <2>1, UsbAssumption DEF Conn!ConnInv, Conn!SemOwned, Conn!Holding
    <3> QED BY <3>1, PulseHasOwner
  <2>6. PICK r \in {"asserted", "high", "input"}, v \in BOOLEAN : pins = [led |-> v, reset |-> r]
    BY <1>0 DEF PulseOwned
  <2>7. pins["led"] = v /\ pins["reset"] = r /\ (plugged => v = led) /\ led \in BOOLEAN
    BY <1>0, <2>1, <2>6 DEF PulseOwned
  <2>8. pulse' = 0 /\ pulse' <= 2 /\ pulse' # 1 /\ chip' = chip
    BY <1>1, <2>5
  <2>9. CASE chip = "CP2102"
    <3>1. pins' = pins /\ reset_pin' = reset_pin /\ r = "input"
      BY <1>0, <2>1, <2>7, <2>9 DEF PulseOwned
    <3>2. PulseOwned'
      BY <1>0, <2>1, <2>6, <2>7, <2>8, <2>9, <3>1 DEF PulseOwned, PinsFollow
    <3> QED BY <1>2, <2>2, <2>3, <3>2 DEF PortInv
  <2>10. CASE chip # "CP2102"
    <3>1. pins' = [led |-> v, reset |-> level]
      BY <2>1, <2>6, <2>10
    <3>2. \E q \in {"asserted", "high", "input"}, w \in BOOLEAN : pins' = [led |-> w, reset |-> q]
      BY <2>4, <2>10, <3>1
    <3>3. /\ pins'["led"] = v /\ pins'["reset"] = level /\ level # "asserted"
          /\ chip = "FT232R" => reset_pin' = level
      BY <2>1, <2>4, <2>10, <3>1
    <3>4. PulseOwned'
      BY <2>1, <2>7, <2>8, <2>10, <3>2, <3>3, Zenon DEF PulseOwned, PinsFollow
    <3> QED BY <1>2, <2>2, <2>3, <3>4 DEF PortInv
  <2> QED BY <2>9, <2>10
<1>6. CASE InitUart
  <2>1. /\ usb = "registered" /\ usb' = "bound" /\ read_urb' = "idle" /\ write_urb' = "idle"
        /\ UNCHANGED <<plugged, freed, kref, led, reset_pin, pins>>
        /\ read_urb = "none" /\ write_urb = "none"
    BY <1>0, <1>6 DEF InitUart, PortPhases, gpio_vars
  <2>2. PortType' /\ KrefExact' /\ PortPhases'
    BY <1>0, <1>1, <2>1 DEF PortType, KrefExact, PortPhases
  <2>3. ReadUrb' /\ WriteUrb'
    BY <1>0, <1>1, <2>1 DEF ReadUrb, ListensWhileOpen, WriteUrb, TxFlagExact
  <2>4. PulseOwned'
    BY <1>0, <1>1, <2>1 DEF PulseOwned, PinsFollow, Conn!Resetting, Conn!MaxOpenCount
  <2> QED BY <1>2, <2>2, <2>3, <2>4 DEF PortInv
<1>7. CASE Unplug
  <2>1. /\ usb = "bound" /\ plugged' = FALSE
        /\ UNCHANGED <<usb, freed, kref, read_urb, write_urb, led, reset_pin, pins>>
    BY <1>7 DEF Unplug, read_vars, write_vars, gpio_vars
  <2>2. PortType' /\ KrefExact' /\ PortPhases'
    <3>1. PortType'
      <4>1. plugged' \in BOOLEAN
        BY <2>1, Zenon
      <4> QED BY <1>0, <1>1, <2>1, <4>1 DEF PortType
    <3>2. KrefExact'
      BY <1>0, <1>1, <2>1 DEF KrefExact
    <3> QED BY <1>0, <1>1, <2>1, <3>1, <3>2 DEF PortPhases
  <2>3. ReadUrb' /\ WriteUrb'
    BY <1>0, <1>1, <2>1 DEF ReadUrb, ListensWhileOpen, WriteUrb, TxFlagExact
  <2>4. PulseOwned'
    BY <1>0, <1>1, <2>1 DEF PulseOwned, PinsFollow, Conn!Resetting, Conn!MaxOpenCount
  <2> QED BY <1>2, <2>2, <2>3, <2>4 DEF PortInv
<1>8. CASE Disconnect
  <2>1. /\ ~plugged /\ UNCHANGED <<plugged, read_urb, write_urb, led, reset_pin, pins>>
        /\ usb \in {"bound", "kill_write", "kill_read", "put"}
        /\ usb' \in {"kill_write", "kill_read", "put", "gone"}
    BY <1>8 DEF Disconnect, read_vars, write_vars, gpio_vars
  <2>2. KrefExact' /\ kref' \in 0..2
    <3>1. CASE usb = "put"
      <4>1. usb' = "gone" /\ kref' = kref - 1 /\ freed' = (kref = 1)
        BY <1>8, <3>1 DEF Disconnect, KrefPut
      <4>2. kref = (IF hw_running /\ stop # "done" THEN 2 ELSE 1)
        BY <1>0, <3>1 DEF KrefExact
      <4>3. freed' <=> ~hw_running \/ stop = "done"
        <5>1. kref = 1 <=> ~hw_running \/ stop = "done"
          BY <4>2
        <5> QED BY <4>1, <5>1, Zenon
      <4>4. kref' = (IF hw_running /\ stop # "done" THEN 1 ELSE 0)
        BY <4>1, <4>2
      <4> QED BY <1>1, <4>1, <4>3, <4>4 DEF KrefExact
    <3>2. CASE usb # "put"
      <4>1. usb' # "gone" /\ UNCHANGED <<kref, freed>>
        BY <1>8, <3>2 DEF Disconnect
      <4> QED BY <1>0, <1>1, <2>1, <4>1 DEF KrefExact, PortType
    <3> QED BY <3>1, <3>2
  <2>3. PortType' /\ PortPhases'
    BY <1>0, <1>1, <2>1, <2>2 DEF PortType, PortPhases
  <2>4. ReadUrb' /\ WriteUrb'
    BY <1>0, <1>1, <2>1, Untouched
  <2>5. PulseOwned'
    BY <1>0, <1>1, <2>1 DEF PulseOwned, PinsFollow, Conn!Resetting, Conn!MaxOpenCount
  <2> QED BY <1>2, <2>2, <2>3, <2>4, <2>5 DEF PortInv
<1> QED BY <1>4, <1>5, <1>6, <1>7, <1>8, <1>9

(* UsbInv is inductive.                                                    *)
LEMMA UsbInvStep == UsbInv /\ [Next]_vars => UsbInv'
<1> SUFFICES ASSUME UsbInv, [Next]_vars PROVE UsbInv'
  OBVIOUS
<1>1. Conn!ConnInv'
  BY ConnKept DEF UsbInv
<1>2. CASE UNCHANGED vars
  <2>1. PortType'
    BY <1>2 DEF UsbInv, PortType, vars, life_vars, port_vars, read_vars, write_vars, gpio_vars
  <2>2. PortInv'
    BY <1>2, <2>1, Untouched
       DEF UsbInv, PortInv, vars, life_vars, port_vars, read_vars, write_vars, gpio_vars
  <2> QED BY <1>1, <2>2 DEF UsbInv, PortInv
<1>3. CASE Next
  <2>1. PortInv'
    BY <1>3, ReadSteps, WriteSteps, FileSteps, OpenStep, CloseSteps, PinSteps, UsbSteps DEF Next
  <2> QED BY <1>1, <2>1 DEF UsbInv, PortInv
<1> QED BY <1>2, <1>3

(* The inductive invariant holds in every state.                           *)
LEMMA UsbInvariant == Spec => []UsbInv
BY UsbInvInit, UsbInvStep, PTL DEF Spec

-----------------------------------------------------------------------------
(* Whatever the order of unplugging and closing, the port is freed when no *)
(* URB is on its way, no handler runs and no connection is established,    *)
(* but the last one, whose close() is past stop_connection() (kref in      *)
(* start_connection, stop_connection and disconnect).                      *)
THEOREM PortFreedUnused == Spec => []FreedIsUnused
<1>1. UsbInv => FreedIsUnused
  <2> SUFFICES ASSUME UsbInv, freed PROVE FreedIsUnused
    BY DEF FreedIsUnused
  <2>1. Conn!ConnInv /\ (~hw_running \/ stop = "done")
    BY DEF UsbInv, KrefExact
  <2>2. CASE ~hw_running
    <3>1. Conn!OpenFiles = {}
      BY <2>1, <2>2, OpenFacts DEF Conn!OpenFiles
    <3> QED BY <2>2, <3>1 DEF UsbInv, ReadUrb, ListensWhileOpen, WriteUrb, FreedIsUnused
  <2>3. CASE stop = "done"
    <3>1. PICK f \in Files : open_count = 1 /\ fstate[f] = "closing"
      BY <2>3 DEF UsbInv, StopsLast
    <3>2. \A g \in Conn!OpenFiles : g = f
      BY <2>1, <3>1, OpenFacts DEF Conn!OpenFiles, Conn!Opened
    <3> QED BY <2>3, <3>1, <3>2 DEF UsbInv, ReadUrb, WriteUrb, FreedIsUnused
  <2> QED BY <2>1, <2>2, <2>3
<1> QED BY <1>1, UsbInvariant, PTL

(* Unless submitting it has failed, the URB for reading waits or is        *)
(* handled while a connection is running, and without one it does not      *)
(* (start_connection, process_read_urb, stop_connection).                  *)
THEOREM DriverListens == Spec => []ListensWhileOpen
<1>1. UsbInv => ListensWhileOpen
  BY DEF UsbInv, ReadUrb
<1> QED BY <1>1, UsbInvariant, PTL

(* is_in_tx is set exactly while the URB for writing is on its way, or     *)
(* after a submission that failed (tx_chars, process_write_urb): no chunk  *)
(* is lost, and a writer is stuck only after a failure.                    *)
THEOREM FlagFollowsUrb == Spec => []TxFlagExact
<1>1. UsbInv => TxFlagExact
  BY DEF UsbInv, WriteUrb
<1> QED BY <1>1, UsbInvariant, PTL

(* LEDs and reset pulse do not disturb each other on either chip           *)
(* (reset_radio_module, gpio_set, gpio_set_multiple).                      *)
THEOREM PinsAreRight == Spec => []PinsFollow
<1>1. UsbInv => PinsFollow
  BY DEF UsbInv, PulseOwned
<1> QED BY <1>1, UsbInvariant, PTL

(* The invariants of the raw UART hold under these drivers too: a reset    *)
(* pulse disturbs no other connection and the module stays referenced.     *)
THEOREM RawUartKept == Spec => [](Conn!ResetAlone /\ Conn!ModuleHeld)
<1>1. UsbInv => Conn!ResetAlone /\ Conn!ModuleHeld
  <2>1. UsbInv => ConnP!ConnInv
    BY SameConnInv DEF UsbInv
  <2>2. UsbInv => ConnP!ResetAlone /\ ConnP!ModuleHeld
    BY <2>1, ConnP!InvImpliesAlone, ConnP!InvImpliesHeld, ConnAssumed
  <2> QED
    BY <2>2 DEF ConnP!ResetAlone, ConnP!ModuleHeld, ConnP!OpenFiles, ConnP!Opened,
       ConnP!Resetting, ConnP!MaxOpenCount, ConnP!Cardinality, Conn!ResetAlone,
       Conn!ModuleHeld, Conn!OpenFiles, Conn!Opened, Conn!Resetting, Conn!MaxOpenCount,
       Conn!Cardinality
<1> QED BY <1>1, UsbInvariant, PTL
=============================================================================
