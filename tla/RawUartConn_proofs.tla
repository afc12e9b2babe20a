------------------------ MODULE RawUartConn_proofs -------------------------
(* Proofs about opening, closing and resetting the raw UART (RawUartConn), *)
(* for any number of processes and connections.                            *)
EXTENDS RawUartConn, TLAPS, FiniteSetTheorems

(* The sets that open_count and module_refs are compared with are finite.  *)
LEMMA FilesFinite ==
  /\ IsFiniteSet(OpenFiles) /\ Cardinality(OpenFiles) \in Nat
  /\ IsFiniteSet(Referencing) /\ Cardinality(Referencing) \in Nat
  /\ OpenFiles = {} <=> Cardinality(OpenFiles) = 0
<1>1. OpenFiles \in SUBSET Files /\ Referencing \in SUBSET Files
  BY DEF OpenFiles, Referencing
<1>2. IsFiniteSet(OpenFiles) /\ IsFiniteSet(Referencing)
  BY <1>1, ConnAssumption, FS_Subset
<1> QED BY <1>2, FS_CardinalityType, FS_EmptySet

(* A set with a process in it counts as more than none.                    *)
LEMMA CountsSomebody ==
  ASSUME NEW T \in SUBSET Files, T # {}
  PROVE  Cardinality(T) \in Nat \ {0}
<1>1. IsFiniteSet(T)
  BY ConnAssumption, FS_Subset
<1> QED BY <1>1, FS_CardinalityType, FS_EmptySet

(* What a step of one process does to the set of open files ...            *)
LEMMA OpenFilesMove ==
  ASSUME TypeOK, NEW f \in Files, NEW s, Goto(f, s)
  PROVE  /\ (fstate[f] \in Opened <=> s \in Opened) => OpenFiles' = OpenFiles
         /\ fstate[f] \notin Opened /\ s \in Opened =>
              Cardinality(OpenFiles') = Cardinality(OpenFiles) + 1
         /\ fstate[f] \in Opened /\ s \notin Opened =>
              Cardinality(OpenFiles') = Cardinality(OpenFiles) - 1
<1>1. fstate'[f] = s /\ \A g \in Files : g # f => fstate'[g] = fstate[g]
  BY DEF TypeOK, Goto
<1>2. OpenFiles' = IF s \in Opened THEN OpenFiles \cup {f} ELSE OpenFiles \ {f}
  BY <1>1 DEF OpenFiles
<1>3. f \in OpenFiles <=> fstate[f] \in Opened
  BY DEF OpenFiles
<1>4. CASE fstate[f] \in Opened <=> s \in Opened
  BY <1>2, <1>3, <1>4
<1>5. CASE fstate[f] \notin Opened /\ s \in Opened
  BY <1>2, <1>3, <1>5, FilesFinite, FS_AddElement
<1>6. CASE fstate[f] \in Opened /\ s \notin Opened
  BY <1>2, <1>3, <1>6, FilesFinite, FS_RemoveElement
<1> QED BY <1>4, <1>5, <1>6

Refs == Opened \cup {"open_down", "opening", "starting"}

(* ... and to the set of processes that reference the module.              *)
LEMMA ReferencingMove ==
  ASSUME TypeOK, NEW f \in Files, NEW s, Goto(f, s)
  PROVE  /\ (fstate[f] \in Refs <=> s \in Refs) => Referencing' = Referencing
         /\ fstate[f] \notin Refs /\ s \in Refs =>
              Cardinality(Referencing') = Cardinality(Referencing) + 1
         /\ fstate[f] \in Refs /\ s \notin Refs =>
              Cardinality(Referencing') = Cardinality(Referencing) - 1
<1>1. fstate'[f] = s /\ \A g \in Files : g # f => fstate'[g] = fstate[g]
  BY DEF TypeOK, Goto
<1>2. Referencing' = IF s \in Refs THEN Referencing \cup {f} ELSE Referencing \ {f}
  BY <1>1 DEF Referencing, Refs
<1>3. f \in Referencing <=> fstate[f] \in Refs
  BY DEF Referencing, Refs
<1>4. CASE fstate[f] \in Refs <=> s \in Refs
  BY <1>2, <1>3, <1>4
<1>5. CASE fstate[f] \notin Refs /\ s \in Refs
  BY <1>2, <1>3, <1>5, FilesFinite, FS_AddElement
<1>6. CASE fstate[f] \in Refs /\ s \notin Refs
  BY <1>2, <1>3, <1>6, FilesFinite, FS_RemoveElement
<1> QED BY <1>4, <1>5, <1>6

-----------------------------------------------------------------------------
(* A raw UART nobody has opened satisfies the invariant.                   *)
LEMMA ConnInvInit == Init => ConnInv
<1> SUFFICES ASSUME Init PROVE ConnInv
  OBVIOUS
<1>1. TypeOK
  <2>1. 0 \in 0..MAX_CONNECTIONS /\ 0 \in 0..MaxModuleRefs
    BY ConnAssumption
  <2> QED BY <2>1 DEF Init, TypeOK
<1>2. OpenFiles = {} /\ Referencing = {}
  BY DEF Init, OpenFiles, Referencing, Opened
<1>3. SemOwned /\ RoomKept /\ HwFollowsCount
  BY ConnAssumption DEF Init, SemOwned, RoomKept, HwFollowsCount, Holding
<1>4. RefsHeld /\ OpenCountCovers
  BY <1>2, FS_EmptySet DEF Init, RefsHeld, OpenCountCovers
<1> QED BY <1>1, <1>3, <1>4 DEF ConnInv

(* Every step but the ones that take, count or give back a connection      *)
(* leaves open_count, module_refs and the driver alone.                    *)
LEMMA QuietStep ==
  ASSUME ConnInv, NEW f \in Files, NEW s, Goto(f, s),
         s \in Opened \cup Waiting \cup {"closed", "opening", "starting", "sysfs_reset"},
         UNCHANGED <<open_count, hw_running, module_refs>>,
         fstate[f] \notin Opened => s \notin Opened,
         fstate[f] \notin Refs => s \notin Refs
  PROVE  RefsHeld' /\ OpenCountCovers' /\ HwFollowsCount'
<1>1. TypeOK /\ RefsHeld /\ OpenCountCovers /\ HwFollowsCount
  BY DEF ConnInv
<1>2. /\ Cardinality(OpenFiles') <= Cardinality(OpenFiles)
      /\ Cardinality(Referencing') <= Cardinality(Referencing)
      /\ Cardinality(OpenFiles') \in Int /\ Cardinality(Referencing') \in Int
  BY <1>1, OpenFilesMove, ReferencingMove, FilesFinite
<1>3. open_count \in Nat /\ module_refs \in Nat
  BY <1>1, ConnAssumption DEF TypeOK
<1> QED BY <1>1, <1>2, <1>3, FilesFinite DEF RefsHeld, OpenCountCovers, HwFollowsCount

(* ConnInv is inductive, whichever calls a signal may interrupt.           *)
LEMMA ConnInvStep == ConnInv /\ [Next]_vars => ConnInv'
<1> SUFFICES ASSUME ConnInv, [Next]_vars PROVE ConnInv'
  OBVIOUS
<1> USE ConnAssumption
<1>0. TypeOK /\ SemOwned /\ RoomKept /\ RefsHeld /\ OpenCountCovers /\ HwFollowsCount
  BY DEF ConnInv
<1>00. open_count \in Nat /\ module_refs \in Nat
  BY <1>0 DEF TypeOK
<1>1. CASE SetConnectionState
  BY <1>0, <1>1 DEF SetConnectionState, ConnInv, TypeOK, SemOwned, RoomKept, RefsHeld,
     OpenCountCovers, HwFollowsCount, OpenFiles, Referencing
<1>2. ASSUME NEW f \in Files, Open(f) PROVE ConnInv'
  <2>1. fstate[f] = "closed" /\ Goto(f, "open_down") /\ module_refs' = module_refs + 1
    BY <1>2 DEF Open
  <2>2. TypeOK' /\ SemOwned' /\ RoomKept'
    BY <1>0, <1>2 DEF Open, Goto, TypeOK, SemOwned, RoomKept, Holding, Opened, Waiting
  <2>3. OpenFiles' = OpenFiles
    BY <1>0, <2>1, OpenFilesMove DEF Opened
  <2>4. Cardinality(Referencing') = Cardinality(Referencing) + 1
    BY <1>0, <2>1, ReferencingMove DEF Opened, Refs
  <2>5. RefsHeld' /\ OpenCountCovers' /\ HwFollowsCount'
    BY <1>0, <1>00, <1>2, <2>1, <2>3, <2>4, FilesFinite
       DEF Open, RefsHeld, OpenCountCovers, HwFollowsCount
  <2> QED BY <2>2, <2>5 DEF ConnInv
<1>3. ASSUME NEW f \in Files, Close(f) PROVE ConnInv'
  <2>1. TypeOK' /\ SemOwned' /\ RoomKept'
    BY <1>0, <1>3 DEF Close, Goto, TypeOK, SemOwned, RoomKept, Holding, Opened, Waiting
  <2>2. RefsHeld' /\ OpenCountCovers' /\ HwFollowsCount'
    BY <1>3, QuietStep DEF Close, Refs, Opened, Waiting
  <2> QED BY <2>1, <2>2 DEF ConnInv
<1>4. ASSUME NEW f \in Files, ResetIoctl(f) PROVE ConnInv'
  <2>1. TypeOK' /\ SemOwned' /\ RoomKept'
    BY <1>0, <1>4 DEF ResetIoctl, Goto, TypeOK, SemOwned, RoomKept, Holding, Opened, Waiting
  <2>2. RefsHeld' /\ OpenCountCovers' /\ HwFollowsCount'
    BY <1>4, QuietStep DEF ResetIoctl, Refs, Opened, Waiting
  <2> QED BY <2>1, <2>2 DEF ConnInv
<1>5. ASSUME NEW f \in Files, ResetSysfs(f) PROVE ConnInv'
  <2>1. TypeOK' /\ SemOwned' /\ RoomKept'
    BY <1>0, <1>5 DEF ResetSysfs, Goto, TypeOK, SemOwned, RoomKept, Holding, Opened, Waiting
  <2>2. RefsHeld' /\ OpenCountCovers' /\ HwFollowsCount'
    BY <1>5, QuietStep DEF ResetSysfs, Refs, Opened, Waiting
  <2> QED BY <2>1, <2>2 DEF ConnInv
<1>6. ASSUME NEW f \in Files, Down(f) PROVE ConnInv'
  <2> DEFINE s == Inside[fstate[f]]
  <2>1. /\ s \in Holding
        /\ fstate[f] \notin Opened => s \notin Opened
        /\ fstate[f] \notin Refs => s \notin Refs
        /\ s # "starting"
    BY <1>6 DEF Down, Inside, Waiting, Holding, Opened, Refs
  <2>2. Goto(f, s) /\ sem = NULL /\ sem' = f
    BY <1>6 DEF Down
  <2>3. s \in Opened \cup Waiting \cup {"closed", "opening", "starting", "sysfs_reset"}
    BY <2>1 DEF Holding, Opened
  <2> HIDE DEF s
  <2>4. \A g \in Files : fstate'[g] = IF g = f THEN s ELSE fstate[g]
    BY <1>0, <2>2 DEF Goto, TypeOK
  <2>5. TypeOK'
    BY <1>0, <1>6, <2>2, <2>3 DEF Down, Goto, TypeOK
  <2>6. SemOwned'
    BY <1>0, <2>1, <2>2, <2>4 DEF SemOwned
  <2>7. RoomKept'
    BY <1>0, <1>6, <2>1, <2>4 DEF RoomKept, Down
  <2>8. RefsHeld' /\ OpenCountCovers' /\ HwFollowsCount'
    BY <1>6, <2>1, <2>2, <2>3, QuietStep DEF Down
  <2> QED BY <2>5, <2>6, <2>7, <2>8 DEF ConnInv
<1>7. ASSUME NEW f \in Files, Interrupt(f) PROVE ConnInv'
  <2> DEFINE s == Outside[fstate[f]]
  <2>1. /\ s \in {"closed", "open"}
        /\ fstate[f] \notin Opened => s \notin Opened
        /\ fstate[f] \notin Refs => s \notin Refs
        /\ fstate[f] \notin Holding
    BY <1>7 DEF Interrupt, Outside, Waiting, Holding, Opened, Refs
  <2>2. Goto(f, s) /\ UNCHANGED <<open_count, connection_state, sem, hw_running, module_refs>>
    BY <1>7 DEF Interrupt
  <2> HIDE DEF s
  <2>4. \A g \in Files : fstate'[g] = IF g = f THEN s ELSE fstate[g]
    BY <1>0, <2>2 DEF Goto, TypeOK
  <2>5. TypeOK'
    BY <1>0, <2>1, <2>2 DEF Goto, TypeOK, Opened
  <2>6. SemOwned' /\ RoomKept'
    BY <1>0, <2>1, <2>2, <2>4 DEF SemOwned, RoomKept, Holding
  <2>8. RefsHeld' /\ OpenCountCovers' /\ HwFollowsCount'
    BY <2>1, <2>2, QuietStep DEF Opened
  <2> QED BY <2>5, <2>6, <2>8 DEF ConnInv
<1>8. ASSUME NEW f \in Files, OpenChecks(f) PROVE ConnInv'
  <2>1. TypeOK' /\ SemOwned' /\ RoomKept'
    BY <1>0, <1>8 DEF OpenChecks, Goto, TypeOK, SemOwned, RoomKept, Holding, Opened, Waiting
  <2>2. RefsHeld' /\ OpenCountCovers' /\ HwFollowsCount'
    BY <1>8, QuietStep DEF OpenChecks, Refs, Opened, Waiting
  <2> QED BY <2>1, <2>2 DEF ConnInv
<1>9. ASSUME NEW f \in Files, OpenFails(f) PROVE ConnInv'
  <2>1. TypeOK' /\ SemOwned' /\ RoomKept'
    BY <1>0, <1>9 DEF OpenFails, Goto, TypeOK, SemOwned, RoomKept, Holding, Opened, Waiting
  <2>2. RefsHeld' /\ OpenCountCovers' /\ HwFollowsCount'
    BY <1>9, QuietStep DEF OpenFails, Refs, Opened, Waiting
  <2> QED BY <2>1, <2>2 DEF ConnInv
<1>10. ASSUME NEW f \in Files, OpenSucceeds(f) PROVE ConnInv'
  <2>1. fstate[f] = "starting" /\ Goto(f, "open") /\ open_count' = open_count + 1
    BY <1>10 DEF OpenSucceeds
  <2>5. hw_running' \in BOOLEAN
    BY <1>0, <1>10, Zenon DEF OpenSucceeds, TypeOK
  <2>6. open_count' \in 0..MAX_CONNECTIONS
    BY <1>0, <1>00, <2>1 DEF RoomKept
  <2>7. TypeOK'
    BY <1>0, <1>10, <2>1, <2>5, <2>6 DEF OpenSucceeds, Goto, TypeOK, Opened
  <2>2. SemOwned' /\ RoomKept'
    BY <1>0, <1>10 DEF OpenSucceeds, Goto, TypeOK, SemOwned, RoomKept, Holding, Opened, Waiting
  <2>3. Cardinality(OpenFiles') = Cardinality(OpenFiles) + 1 /\ Referencing' = Referencing
    BY <1>0, <2>1, OpenFilesMove, ReferencingMove DEF Opened, Refs
  <2>4. RefsHeld' /\ OpenCountCovers' /\ HwFollowsCount'
    BY <1>0, <1>00, <1>10, <2>3, FilesFinite
       DEF OpenSucceeds, RefsHeld, OpenCountCovers, HwFollowsCount
  <2> QED BY <2>2, <2>4, <2>7 DEF ConnInv
<1>11. ASSUME NEW f \in Files, Closing(f) PROVE ConnInv'
  <2>1. fstate[f] = "closing" /\ Goto(f, "closed")
    BY <1>11 DEF Closing
  <2>2. /\ Cardinality(OpenFiles') = Cardinality(OpenFiles) - 1
        /\ Cardinality(Referencing') = Cardinality(Referencing) - 1
    BY <1>0, <2>1, OpenFilesMove, ReferencingMove DEF Opened, Refs
  <2>3. f \in OpenFiles /\ f \in Referencing
    BY <2>1 DEF OpenFiles, Referencing, Opened
  <2>4. Cardinality(OpenFiles) > 0 /\ Cardinality(Referencing) > 0
    BY <2>3, FilesFinite, FS_EmptySet
  <2>5. open_count > 0 /\ module_refs > 0
    BY <1>0, <1>00, <2>4, FilesFinite DEF RefsHeld, OpenCountCovers
  <2>6. open_count' = open_count - 1 /\ module_refs' = module_refs - 1
    BY <1>11, <2>5 DEF Closing
  <2>7. TypeOK'
    <3>1. hw_running' \in BOOLEAN
      BY <1>0, <1>11, Zenon DEF Closing, TypeOK
    <3>2. open_count' \in 0..MAX_CONNECTIONS /\ module_refs' \in 0..MaxModuleRefs
      BY <1>0, <1>00, <2>5, <2>6 DEF TypeOK
    <3> QED BY <1>0, <1>11, <2>1, <3>1, <3>2 DEF Closing, Goto, TypeOK
  <2>8. SemOwned' /\ RoomKept'
    BY <1>0, <1>11, <2>6 DEF Closing, Goto, TypeOK, SemOwned, RoomKept, Holding, Opened, Waiting
  <2>9. RefsHeld' /\ OpenCountCovers' /\ HwFollowsCount'
    BY <1>0, <1>00, <1>11, <2>2, <2>5, <2>6, FilesFinite
       DEF Closing, RefsHeld, OpenCountCovers, HwFollowsCount
  <2> QED BY <2>7, <2>8, <2>9 DEF ConnInv
<1>12. ASSUME NEW f \in Files, ResetReturns(f) PROVE ConnInv'
  <2>1. TypeOK' /\ SemOwned' /\ RoomKept'
    BY <1>0, <1>12 DEF ResetReturns, Goto, TypeOK, SemOwned, RoomKept, Holding, Opened, Waiting
  <2>2. RefsHeld' /\ OpenCountCovers' /\ HwFollowsCount'
    BY <1>12, QuietStep DEF ResetReturns, Refs, Opened, Waiting
  <2> QED BY <2>1, <2>2 DEF ConnInv
<1>13. CASE UNCHANGED vars
  BY <1>0, <1>13 DEF vars, ConnInv, TypeOK, SemOwned, RoomKept, RefsHeld,
     OpenCountCovers, HwFollowsCount, OpenFiles, Referencing
<1> QED BY <1>1, <1>2, <1>3, <1>4, <1>5, <1>6, <1>7, <1>8, <1>9, <1>10, <1>11, <1>12, <1>13
        DEF Next

(* The inductive invariant holds in every state.                           *)
LEMMA ConnInvariant == Spec => []ConnInv
BY ConnInvInit, ConnInvStep, PTL DEF Spec

(* Every state is of its type: open_count stays between 0 and              *)
(* MAX_CONNECTIONS and module_refs does not fall below 0, even if close()  *)
(* is interrupted by a signal.                                             *)
THEOREM TypeCorrect == Spec => []TypeOK
<1>1. ConnInv => TypeOK
  BY DEF ConnInv
<1> QED BY <1>1, ConnInvariant, PTL

(* Every open file references the module.                                  *)
LEMMA InvImpliesHeld == ConnInv => ModuleHeld
<1>1. OpenFiles \in SUBSET Referencing
  BY DEF OpenFiles, Referencing
<1>2. Cardinality(OpenFiles) <= Cardinality(Referencing)
  BY <1>1, FilesFinite, FS_Subset
<1> QED BY <1>2, FilesFinite, ConnAssumption DEF ConnInv, RefsHeld, ModuleHeld, TypeOK

(* The module stays referenced under every open connection                 *)
(* (generic_raw_uart_open, generic_raw_uart_close), whichever calls a      *)
(* signal may interrupt.                                                   *)
THEOREM ModuleStays == Spec => []ModuleHeld
BY InvImpliesHeld, ConnInvariant, PTL

(* open_count is never too low, so that it excludes other connections.     *)
LEMMA InvImpliesAlone == ConnInv => ResetAlone
<1> SUFFICES ASSUME ConnInv, NEW f \in Files, Resetting(f) PROVE OpenFiles \subseteq {f}
  BY DEF ResetAlone
<1>1. Cardinality(OpenFiles) <= open_count /\ open_count \in Nat
  BY ConnAssumption DEF ConnInv, OpenCountCovers, TypeOK
<1>2. CASE fstate[f] = "sysfs_reset"
  <2>1. Cardinality(OpenFiles) = 0
    BY <1>1, <1>2, FilesFinite DEF Resetting, MaxOpenCount
  <2> QED BY <2>1, FilesFinite
<1>3. CASE fstate[f] = "ioctl_reset"
  <2>1. f \in OpenFiles
    BY <1>3 DEF OpenFiles, Opened
  <2>2. Cardinality(OpenFiles) <= 1
    BY <1>1, <1>3, FilesFinite DEF Resetting, MaxOpenCount
  <2>3. /\ IsFiniteSet(OpenFiles \ {f})
        /\ Cardinality(OpenFiles \ {f}) = Cardinality(OpenFiles) - 1
    BY <2>1, FilesFinite, FS_RemoveElement
  <2>4. Cardinality(OpenFiles \ {f}) = 0
    BY <2>2, <2>3, FilesFinite, FS_CardinalityType
  <2>5. OpenFiles \ {f} = {}
    BY <2>3, <2>4, FS_EmptySet
  <2> QED BY <2>5
<1> QED BY <1>2, <1>3 DEF Resetting

(* A reset pulse disturbs no connection but the one that asked for it      *)
(* (generic_raw_uart_reset_radio_module), whichever calls a signal may     *)
(* interrupt: open_count may then be too high, which only refuses resets.  *)
THEOREM ResetsAlone == Spec => []ResetAlone
BY InvImpliesAlone, ConnInvariant, PTL

-----------------------------------------------------------------------------
(* open_count is exact in every step but that of an interrupted close().   *)
LEMMA CountExactStep ==
  ASSUME "close" \notin Signals
  PROVE  ConnInv /\ OpenCountExact /\ [Next]_vars => OpenCountExact'
<1> SUFFICES ASSUME ConnInv, OpenCountExact, [Next]_vars PROVE OpenCountExact'
  OBVIOUS
<1>0. TypeOK /\ open_count \in Nat /\ open_count = Cardinality(OpenFiles)
  BY ConnAssumption DEF ConnInv, TypeOK, OpenCountExact
<1>1. ASSUME NEW f \in Files, NEW s, Goto(f, s), UNCHANGED open_count,
             fstate[f] \in Opened <=> s \in Opened
      PROVE  OpenCountExact'
  BY <1>0, <1>1, OpenFilesMove DEF OpenCountExact
<1>2. ASSUME NEW f \in Files, OpenSucceeds(f) PROVE OpenCountExact'
  <2>1. Goto(f, "open") /\ open_count' = open_count + 1 /\ fstate[f] \notin Opened
    BY <1>2 DEF OpenSucceeds, Opened
  <2> QED BY <1>0, <2>1, OpenFilesMove DEF OpenCountExact, Opened
<1>3. ASSUME NEW f \in Files, Closing(f) PROVE OpenCountExact'
  <2>1. Goto(f, "closed") /\ fstate[f] \in Opened
    BY <1>3 DEF Closing, Opened
  <2>2. f \in OpenFiles
    BY <2>1 DEF OpenFiles
  <2>3. open_count > 0
    BY <1>0, <2>2, FilesFinite
  <2>4. open_count' = open_count - 1
    BY <1>3, <2>3 DEF Closing
  <2> QED BY <1>0, <2>1, <2>4, OpenFilesMove DEF OpenCountExact, Opened
<1>4. ASSUME NEW f \in Files, Down(f) PROVE OpenCountExact'
  <2>1. Goto(f, Inside[fstate[f]]) /\ UNCHANGED open_count
    BY <1>4 DEF Down
  <2>2. fstate[f] \in Opened <=> Inside[fstate[f]] \in Opened
    BY <1>4 DEF Down, Inside, Waiting, Opened
  <2> QED BY <1>1, <2>1, <2>2
<1>5. ASSUME NEW f \in Files, Interrupt(f) PROVE OpenCountExact'
  <2>1. Goto(f, Outside[fstate[f]]) /\ UNCHANGED open_count
    BY <1>5 DEF Interrupt
  <2>2. fstate[f] # "close_down"
    BY <1>5 DEF Interrupt, CallOf
  <2>3. fstate[f] \in Opened <=> Outside[fstate[f]] \in Opened
    BY <1>5, <2>2 DEF Interrupt, Outside, Waiting, Opened
  <2> QED BY <1>1, <2>1, <2>3
<1>6. ASSUME NEW f \in Files,
             \/ Open(f) \/ Close(f) \/ ResetIoctl(f) \/ ResetSysfs(f)
             \/ OpenChecks(f) \/ OpenFails(f) \/ ResetReturns(f)
      PROVE  OpenCountExact'
  <2>1. UNCHANGED open_count
    BY <1>6 DEF Open, Close, ResetIoctl, ResetSysfs, OpenChecks, OpenFails, ResetReturns
  <2>2. \E s : Goto(f, s) /\ (fstate[f] \in Opened <=> s \in Opened)
    BY <1>6 DEF Open, Close, ResetIoctl, ResetSysfs, OpenChecks, OpenFails, ResetReturns, Opened
  <2> QED BY <1>1, <2>1, <2>2
<1>7. CASE SetConnectionState \/ UNCHANGED vars
  BY <1>0, <1>7 DEF SetConnectionState, vars, OpenCountExact, OpenFiles
<1> QED BY <1>2, <1>3, <1>4, <1>5, <1>6, <1>7 DEF Next

(* Nobody has opened the device at first.                                  *)
LEMMA CountExactInit == Init => OpenCountExact
<1>1. Init => OpenFiles = {}
  BY DEF Init, OpenFiles, Opened
<1> QED BY <1>1, FS_EmptySet DEF Init, OpenCountExact

(* open_count counts the open connections (generic_raw_uart_open,          *)
(* generic_raw_uart_close), provided that no signal interrupts close().    *)
THEOREM CountIsExact ==
  ASSUME "close" \notin Signals
  PROVE  Spec => []OpenCountExact
<1> QED BY CountExactInit, CountExactStep, ConnInvariant, PTL DEF Spec

(* The hardware runs exactly while somebody has the device open            *)
(* (start_connection in open, stop_connection in close), provided that no  *)
(* signal interrupts close().                                              *)
THEOREM HwFollowsOpen ==
  ASSUME "close" \notin Signals
  PROVE  Spec => []HwRunsWhileOpen
<1>1. ConnInv /\ OpenCountExact => HwRunsWhileOpen
  BY FilesFinite DEF ConnInv, OpenCountExact, HwFollowsCount, HwRunsWhileOpen
<1> QED BY <1>1, CountIsExact, ConnInvariant, PTL
=============================================================================
