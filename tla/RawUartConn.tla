---------------------------- MODULE RawUartConn ----------------------------
(***************************************************************************)
(* Opening, closing and resetting a raw UART (kernel/generic_raw_uart.c):  *)
(* open_count decides when the hardware driver is started and stopped, how *)
(* many connections there may be and whether the radio module may be       *)
(* reset.  instance->sem serialises all of it; it is taken with            *)
(* down_interruptible(), which fails on a signal while somebody else holds *)
(* the semaphore.                                                          *)
(***************************************************************************)
EXTENDS Integers, FiniteSets

CONSTANTS
  Files,           (* processes that open the device or write the reset     *)
                   (* attribute in sysfs, one file each                     *)
  NULL,            (* nobody holds the semaphore                            *)
  MAX_CONNECTIONS, (* 3 in the source                                       *)
  Signals,         (* the calls a signal may interrupt while they wait for  *)
                   (* the semaphore: a subset of {"open", "close", "reset"} *)
  MaxModuleRefs    (* bound: references to the driver's module              *)

ASSUME ConnAssumption ==
  /\ NULL \notin Files
  /\ IsFiniteSet(Files)
  /\ MAX_CONNECTIONS \in Nat \ {0}
  /\ Signals \subseteq {"open", "close", "reset"}
  /\ MaxModuleRefs \in Nat

VARIABLES
  fstate,           (* what each process does with its file                 *)
  open_count,       (* instance->open_count                                 *)
  connection_state, (* instance->connection_state                           *)
  sem,              (* the process that holds instance->sem                 *)
  hw_running,       (* between the driver's start_connection and            *)
                    (* stop_connection                                      *)
  module_refs       (* references to driver->owner                          *)

vars == <<fstate, open_count, connection_state, sem, hw_running, module_refs>>

(* The states of a file whose open() has succeeded and whose close() has   *)
(* not returned.                                                           *)
Opened == {"open", "ioctl_down", "ioctl_reset", "close_down", "closing"}

(* The states in which a process waits for instance->sem, and what it does *)
(* when it has it or, after a signal, does instead.                        *)
Waiting == {"open_down", "close_down", "ioctl_down", "sysfs_down"}
Inside == [open_down |-> "opening", close_down |-> "closing",
           ioctl_down |-> "ioctl_reset", sysfs_down |-> "sysfs_reset"]
Outside == [open_down |-> "closed", close_down |-> "closed",
            ioctl_down |-> "open", sysfs_down |-> "closed"]
CallOf == [open_down |-> "open", close_down |-> "close",
           ioctl_down |-> "reset", sysfs_down |-> "reset"]

Init ==
  /\ fstate = [f \in Files |-> "closed"]
  /\ open_count = 0
  /\ connection_state \in BOOLEAN
  /\ sem = NULL
  /\ hw_running = FALSE
  /\ module_refs = 0

Goto(f, s) == fstate' = [fstate EXCEPT ![f] = s]

(* Mutant: open() takes no reference to the module.                        *)
OpenNoModuleGet(f) ==
  /\ fstate[f] = "closed"
  /\ Goto(f, "open_down")
  /\ UNCHANGED <<open_count, connection_state, sem, hw_running, module_refs>>

(* generic_raw_uart_open() up to down_interruptible(): try_module_get().   *)
Open(f) ==
  /\ fstate[f] = "closed"
  /\ module_refs < MaxModuleRefs
  /\ module_refs' = module_refs + 1
  /\ Goto(f, "open_down")
  /\ UNCHANGED <<open_count, connection_state, sem, hw_running>>

(* generic_raw_uart_close() up to down_interruptible(): kfree(conn).       *)
Close(f) ==
  /\ fstate[f] = "open"
  /\ Goto(f, "close_down")
  /\ UNCHANGED <<open_count, connection_state, sem, hw_running, module_refs>>

(* IOCTL_IOCRESET_RADIO_MODULE on an open file ...                         *)
ResetIoctl(f) ==
  /\ fstate[f] = "open"
  /\ Goto(f, "ioctl_down")
  /\ UNCHANGED <<open_count, connection_state, sem, hw_running, module_refs>>

(* ... and a write to the sysfs attribute reset_radio_module.              *)
ResetSysfs(f) ==
  /\ fstate[f] = "closed"
  /\ Goto(f, "sysfs_down")
  /\ UNCHANGED <<open_count, connection_state, sem, hw_running, module_refs>>

(* down_interruptible(&instance->sem) takes a free semaphore ...           *)
Down(f) ==
  /\ fstate[f] \in Waiting
  /\ sem = NULL
  /\ sem' = f
  /\ Goto(f, Inside[fstate[f]])
  /\ UNCHANGED <<open_count, connection_state, hw_running, module_refs>>

(* ... and fails if a signal arrives while it waits for the holder: every  *)
(* caller returns -ERESTARTSYS at once.                                    *)
Interrupt(f) ==
  /\ fstate[f] \in Waiting
  /\ CallOf[fstate[f]] \in Signals
  /\ sem # NULL
  /\ Goto(f, Outside[fstate[f]])
  /\ UNCHANGED <<open_count, connection_state, sem, hw_running, module_refs>>

(* open() with the semaphore: there must be a free connection and the      *)
(* driver must be connected to its device ...                              *)
OpenChecks(f) ==
  /\ fstate[f] = "opening"
  /\ open_count < MAX_CONNECTIONS
  /\ connection_state
  /\ Goto(f, "starting")
  /\ UNCHANGED <<open_count, connection_state, sem, hw_running, module_refs>>

(* Mutant: a failing open() is counted.                                    *)
OpenFailsCounted(f) ==
  /\ \/ fstate[f] = "opening" /\ (open_count >= MAX_CONNECTIONS \/ ~connection_state)
     \/ fstate[f] = "starting" /\ open_count = 0
  /\ open_count' = open_count + 1
  /\ sem' = NULL
  /\ Goto(f, "closed")
  /\ UNCHANGED <<connection_state, hw_running, module_refs>>

(* ... else open() fails, and so it does if the driver cannot be started.  *)
OpenFails(f) ==
  /\ \/ fstate[f] = "opening" /\ (open_count >= MAX_CONNECTIONS \/ ~connection_state)
     \/ fstate[f] = "starting" /\ open_count = 0
  /\ sem' = NULL
  /\ Goto(f, "closed")
  /\ UNCHANGED <<open_count, connection_state, hw_running, module_refs>>

(* Mutant: the number of connections is not limited.                       *)
OpenUnlimited(f) ==
  /\ fstate[f] \in {"opening", "starting"}
  /\ hw_running' = TRUE
  /\ open_count' = open_count + 1
  /\ sem' = NULL
  /\ Goto(f, "open")
  /\ UNCHANGED <<connection_state, module_refs>>

(* The first connection has started the driver; open() returns.            *)
OpenSucceeds(f) ==
  /\ fstate[f] = "starting"
  /\ hw_running' = IF open_count = 0 THEN TRUE ELSE hw_running
  /\ open_count' = open_count + 1
  /\ sem' = NULL
  /\ Goto(f, "open")
  /\ UNCHANGED <<connection_state, module_refs>>

(* Mutants: every close() stops the driver, or the last but one does.      *)
ClosingStopsAlways(f) ==
  /\ fstate[f] = "closing"
  /\ open_count' = IF open_count > 0 THEN open_count - 1 ELSE open_count
  /\ hw_running' = FALSE
  /\ module_refs' = module_refs - 1
  /\ sem' = NULL
  /\ Goto(f, "closed")
  /\ UNCHANGED connection_state

ClosingStopsEarly(f) ==
  /\ fstate[f] = "closing"
  /\ open_count' = IF open_count > 0 THEN open_count - 1 ELSE open_count
  /\ hw_running' = IF open_count' <= 1 THEN FALSE ELSE hw_running
  /\ module_refs' = module_refs - 1
  /\ sem' = NULL
  /\ Goto(f, "closed")
  /\ UNCHANGED connection_state

(* The rest of close(): the last connection stops the driver.              *)
Closing(f) ==
  /\ fstate[f] = "closing"
  /\ open_count' = IF open_count > 0 THEN open_count - 1 ELSE open_count
  /\ hw_running' = IF open_count' = 0 THEN FALSE ELSE hw_running
  /\ module_refs' = module_refs - 1
  /\ sem' = NULL
  /\ Goto(f, "closed")
  /\ UNCHANGED connection_state

(* Mutant: sysfs may reset the module under one open connection.           *)
MaxOpenCountOne(f) == 1

(* The rest of generic_raw_uart_reset_radio_module(): -EBUSY if there are  *)
(* more than max_open_count connections (1 for the ioctl, 0 for sysfs),    *)
(* else the reset pulse, during which the semaphore is held.               *)
MaxOpenCount(f) == IF fstate[f] = "ioctl_reset" THEN 1 ELSE 0

Resetting(f) == fstate[f] \in {"ioctl_reset", "sysfs_reset"} /\ open_count <= MaxOpenCount(f)

ResetReturns(f) ==
  /\ fstate[f] \in {"ioctl_reset", "sysfs_reset"}
  /\ sem' = NULL
  /\ Goto(f, IF fstate[f] = "ioctl_reset" THEN "open" ELSE "closed")
  /\ UNCHANGED <<open_count, connection_state, hw_running, module_refs>>

(* generic_raw_uart_set_connection_state(), called by the driver without   *)
(* the semaphore.                                                          *)
SetConnectionState ==
  /\ connection_state' = ~connection_state
  /\ UNCHANGED <<fstate, open_count, sem, hw_running, module_refs>>

Next ==
  \/ SetConnectionState
  \/ \E f \in Files :
       \/ Open(f) \/ Close(f) \/ ResetIoctl(f) \/ ResetSysfs(f)
       \/ Down(f) \/ Interrupt(f)
       \/ OpenChecks(f) \/ OpenFails(f) \/ OpenSucceeds(f)
       \/ Closing(f) \/ ResetReturns(f)

Spec == Init /\ [][Next]_vars

-----------------------------------------------------------------------------
TypeOK ==
  /\ fstate \in [Files -> Opened \cup Waiting \cup
                   {"closed", "opening", "starting", "sysfs_reset"}]
  /\ open_count \in 0..MAX_CONNECTIONS
  /\ connection_state \in BOOLEAN
  /\ sem \in Files \cup {NULL}
  /\ hw_running \in BOOLEAN
  /\ module_refs \in 0..MaxModuleRefs

OpenFiles == {f \in Files : fstate[f] \in Opened}

(* open_count is the "number of open connections" (struct                  *)
(* generic_raw_uart_instance): every open() that succeeded and was not     *)
(* closed counts once.                                                     *)
OpenCountExact == open_count = Cardinality(OpenFiles)

(* The hardware runs exactly while somebody has the device open: the first *)
(* open() starts it, the last close() stops it, nothing in between does.   *)
HwRunsWhileOpen == hw_running <=> OpenFiles # {}

(* While the reset pulse is running nobody but the process that asked for  *)
(* it through its own connection has the device open.                      *)
ResetAlone == \A f \in Files : Resetting(f) => OpenFiles \subseteq {f}

(* The driver's module is referenced at least once for each open           *)
(* connection, so that it cannot be unloaded under one of them.            *)
ModuleHeld == module_refs >= Cardinality(OpenFiles)

-----------------------------------------------------------------------------
(* The inductive invariants the proofs use (RawUartConn_proofs).           *)

(* instance->sem is held by the process that is past down_interruptible(). *)
Holding == {"opening", "starting", "closing", "ioctl_reset", "sysfs_reset"}
SemOwned == \A f \in Files : fstate[f] \in Holding <=> sem = f

(* Nobody takes the free connection that open() has found.                 *)
RoomKept == \A f \in Files : fstate[f] = "starting" => open_count < MAX_CONNECTIONS

(* A process references the module from try_module_get() on.               *)
Referencing ==
  {f \in Files : fstate[f] \in Opened \cup {"open_down", "opening", "starting"}}
RefsHeld == module_refs >= Cardinality(Referencing)

(* A close() that a signal interrupts leaves open_count too high, never    *)
(* too low, and the driver goes by open_count.                             *)
OpenCountCovers == open_count >= Cardinality(OpenFiles)
HwFollowsCount == hw_running <=> open_count > 0

ConnInv ==
  TypeOK /\ SemOwned /\ RoomKept /\ RefsHeld /\ OpenCountCovers /\ HwFollowsCount
=============================================================================
