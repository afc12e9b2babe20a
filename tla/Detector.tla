------------------------------ MODULE Detector ------------------------------
(***************************************************************************)
(* detect_radio_module: how the program finds out which radio module is    *)
(* behind a raw UART (detect_radio_module/main.cpp and                     *)
(* radiomoduledetector.cpp).  The main thread sends requests and waits up  *)
(* to 3 s for a semaphore; the detached reader thread handles the frames   *)
(* that arrive.  The two share the detector's fields without a lock.       *)
(*                                                                         *)
(* A frame is what StreamParser and HMFrame make of it (module FakeHmrf):  *)
(* its content is a tag that says what it is, its length is the real one,  *)
(* and its counter is left out because nothing reads it.  A request or an  *)
(* answer may be lost or late, and the radio module is external.           *)
(***************************************************************************)
EXTENDS Integers, Sequences

CONSTANTS
  Kinds,      (* the radio modules that may be connected                    *)
  Retries     (* how often an identification is repeated; 3 in the code     *)

ASSUME RetriesAssumption == Retries \in Nat

(* The content of a frame that has none, a field that is still blank, and  *)
(* a program that does not run.                                            *)
Nothing == "NOTHING"

(* External: which programs the radio modules have.  Co_CPU_App runs on    *)
(* the HM-MOD-RPI-PCB only, and has a BidCoS address: handleFrame() takes  *)
(* the type from the name of the program.                                  *)
ASSUME KindsAssumption ==
  \A k \in Kinds :
    /\ k.bl \in {"HMIP_TRX_Bl", "Co_CPU_BL", Nothing}
    /\ k.app \in {"HMIP_TRX_App", "DualCoPro_App", "Co_CPU_App", Nothing}
    /\ k.app = "Co_CPU_App" => k.type = "HM_MOD_RPI_PCB" /\ k.address = "ADDRESS"

VARIABLES
  pc,         (* where the main thread is                                   *)
  phase,      (* which loop it is in: "bl" or "app"                         *)
  seen,       (* the _detectState that the main thread has read             *)
  detectState, detectRetryCount, radioModuleType,
  semaphore,  (* _detectWaitFrameDataSemaphore                              *)
  data,       (* _firmwareVersion, _hmIPRadioMAC, _sgtin, _bidCosRadioMAC   *)
              (* and _serial: the content of the answer they come from      *)
  handler,    (* _frameHandler is set                                       *)
  reading,    (* the frames that the reader thread is handling: 0 or 1      *)
  requests, answers,  (* what is on its way to and from the radio module    *)
  kind, mode, (* the radio module and which of its programs is running      *)
  gaveUp      (* history: the last loop was left without an answer          *)

shared_vars == <<detectState, radioModuleType, semaphore, data>>
main_vars == <<pc, phase, seen, detectRetryCount, handler, gaveUp>>
module_vars == <<kind, mode>>
link_vars == <<requests, answers>>
vars == <<shared_vars, main_vars, reading, link_vars, module_vars>>

(* The frames that a radio module sends.                                   *)
Frame(dst, cmd, len, status, content) ==
  [dst |-> dst, cmd |-> cmd, len |-> len, status |-> status, content |-> content]

(* The names by which the programs of the radio modules identify           *)
(* themselves, with their lengths and where they come from.                *)
Names == [HMIP_TRX_Bl |-> 11, HMIP_TRX_App |-> 12, DualCoPro_App |-> 13,
          Co_CPU_BL |-> 9, Co_CPU_App |-> 10]
NameDst(name) == IF name \in {"Co_CPU_BL", "Co_CPU_App"} THEN "HMSYSTEM" ELSE "COMMON"
NameStatus(name) == IF NameDst(name) = "HMSYSTEM" THEN 2 ELSE 1

(* A program identifies itself when asked, or by itself when it starts.    *)
IdentifyAck(name) == Frame(NameDst(name), "ACK", Names[name] + 1, NameStatus(name), name)
IdentifyEvent(name) == Frame(NameDst(name), "EVENT", Names[name], NameStatus(name), name)

Blank == [version |-> Nothing, hmIP |-> Nothing, sgtin |-> Nothing, bidCos |-> Nothing,
          serial |-> Nothing]

Init ==
  /\ pc = "start" /\ phase = "bl" /\ seen = "START_BL"
  /\ detectState = "START_BL" /\ detectRetryCount = 0 /\ radioModuleType = "NONE"
  /\ semaphore = 0 /\ data = Blank
  /\ handler = FALSE /\ reading = <<>>
  /\ requests = <<>> /\ answers = <<>>
  /\ kind \in Kinds /\ mode \in {"bl", "app"}
  /\ gaveUp = FALSE

-----------------------------------------------------------------------------
(* sendFrame(): write() to the raw UART.                                   *)
SendFrame(request) == requests' = Append(requests, request) /\ UNCHANGED answers

(* main() gives up when the device cannot be opened or is in use, and goes *)
(* on whatever else the reset says; detectRadioModule() sets the handler.  *)
Start ==
  /\ pc = "start"
  /\ \/ pc' = "aborted" /\ UNCHANGED handler
     \/ pc' = "loop" /\ handler' = TRUE
  /\ UNCHANGED <<phase, seen, detectRetryCount, gaveUp, shared_vars, reading, link_vars, module_vars>>

(* The loops that look for a radio module and start its bootloader, and    *)
(* then its application.                                                   *)
Loop ==
  /\ pc = "loop"
  /\ IF /\ detectState = (IF phase = "bl" THEN "START_BL" ELSE "START_APP")
        /\ detectRetryCount < Retries
       THEN /\ pc' = IF phase = "bl" THEN "clear" ELSE "common"
            /\ UNCHANGED <<phase, detectRetryCount>>
       ELSE /\ pc' = IF phase = "bl" THEN "loop" ELSE "step"
            /\ phase' = "app" /\ detectRetryCount' = 0
  /\ UNCHANGED <<seen, handler, gaveUp, shared_vars, reading, link_vars, module_vars>>

(* _radioModuleType = RADIO_MODULE_NONE, after the loop's condition.       *)
Clear ==
  /\ pc = "clear"
  /\ pc' = "common"
  /\ radioModuleType' = "NONE"
  /\ UNCHANGED <<phase, seen, detectRetryCount, handler, gaveUp, detectState, semaphore, data,
                 reading, link_vars, module_vars>>

(* The identification of the current and of the old radio modules.         *)
Identify(from, request, to) ==
  /\ pc = from
  /\ pc' = to
  /\ SendFrame(request)
  /\ UNCHANGED <<phase, seen, detectRetryCount, handler, gaveUp, shared_vars, reading, module_vars>>

(* sem_take() succeeds ...                                                 *)
SemTake(from, to) ==
  /\ pc = from /\ semaphore > 0
  /\ pc' = to
  /\ semaphore' = semaphore - 1
  /\ UNCHANGED <<phase, seen, detectRetryCount, handler, gaveUp, detectState, radioModuleType, data,
                 reading, link_vars, module_vars>>

(* Mutant: a second timeout is not counted.                                *)
SemTimeoutUncounted(from, to, count) ==
  /\ pc = from /\ semaphore = 0
  /\ pc' = to
  /\ gaveUp' = (gaveUp \/ to = "detected")
  /\ UNCHANGED <<phase, detectRetryCount, seen, handler, shared_vars, reading, link_vars, module_vars>>

(* ... or its 3 s are over.                                                *)
SemTimeout(from, to, count) ==
  /\ pc = from /\ semaphore = 0
  /\ pc' = to
  /\ detectRetryCount' = detectRetryCount + count
  /\ gaveUp' = (gaveUp \/ to = "detected")
  /\ UNCHANGED <<phase, seen, handler, shared_vars, reading, link_vars, module_vars>>

(* The last loop asks for what the current state lacks.                    *)
Request ==
  [GET_MCU_TYPE |-> "TRX_GET_MCU_TYPE", GET_VERSION |-> "TRX_GET_VERSION",
   GET_HMIP_RF_ADDRESS |-> "HMIP_GET_DEFAULT_RF_ADDR", GET_SGTIN |-> "COMMON_GET_SGTIN",
   GET_BIDCOS_RF_ADDRESS |-> "LLMAC_GET_DEFAULT_RF_ADDR", GET_SERIAL |-> "LLMAC_GET_SERIAL",
   LEGACY_GET_VERSION |-> "HMSYSTEM_GET_VERSION",
   LEGACY_GET_BIDCOS_RF_ADDRESS |-> "TRX_GET_DEFAULT_RF_ADDR",
   LEGACY_GET_SERIAL |-> "HMSYSTEM_GET_SERIAL"]

Step ==
  /\ pc = "step"
  /\ pc' = "switch"
  /\ seen' = detectState
  /\ UNCHANGED <<phase, detectRetryCount, handler, gaveUp, shared_vars, reading, link_vars, module_vars>>

(* In the meantime the reader thread may have changed the state.           *)
Switch ==
  /\ pc = "switch"
  /\ pc' = "wait"
  /\ \/ /\ seen \in {"START_BL", "START_APP"}
        /\ detectState' = "FINISHED" /\ gaveUp' = TRUE
        /\ UNCHANGED link_vars
     \/ /\ seen \in DOMAIN Request
        /\ SendFrame(Request[seen])
        /\ UNCHANGED <<detectState, gaveUp>>
     \/ seen = "FINISHED" /\ UNCHANGED <<detectState, gaveUp, link_vars>>
  /\ UNCHANGED <<phase, seen, detectRetryCount, handler, radioModuleType, semaphore, data,
                 reading, module_vars>>

(* The end of the last loop is reached by the state or by a timeout; then  *)
(* the handler is removed, the radio module is reset and the result is     *)
(* printed.                                                                *)
Wait ==
  \/ /\ pc = "wait" /\ detectState = "FINISHED"
     /\ pc' = "detected"
     /\ UNCHANGED <<phase, seen, detectRetryCount, handler, gaveUp, shared_vars, reading, link_vars,
                    module_vars>>
  \/ detectState # "FINISHED" /\ (SemTake("wait", "step") \/ SemTimeout("wait", "detected", 0))

(* setFrameHandler(NULL, false).                                           *)
RemoveHandler ==
  /\ pc = "detected"
  /\ pc' = "report"
  /\ handler' = FALSE
  /\ UNCHANGED <<phase, seen, detectRetryCount, gaveUp, shared_vars, reading, link_vars, module_vars>>

Supported == {"HMIP_RFUSB", "HM_MOD_RPI_PCB", "RPI_RF_MOD"}

(* The result: a supported radio module is printed with what is known of   *)
(* it, anything else is an error.                                          *)
Report ==
  /\ pc = "report"
  /\ pc' = IF radioModuleType \in Supported THEN "reported" ELSE "error"
  /\ UNCHANGED <<phase, seen, detectRetryCount, handler, gaveUp, shared_vars, reading, link_vars,
                 module_vars>>

Main ==
  \/ Start \/ Loop \/ Clear
  \/ Identify("common", "COMMON_IDENTIFY", "wait1")
  \/ SemTake("wait1", "loop") \/ SemTimeout("wait1", "system", 0)
  \/ Identify("system", "HMSYSTEM_IDENTIFY", "wait2")
  \/ SemTake("wait2", "loop") \/ SemTimeout("wait2", "loop", 1)
  \/ Step \/ Switch \/ Wait \/ RemoveHandler \/ Report

-----------------------------------------------------------------------------
(* The reader thread takes a frame and reads _frameHandler ...             *)
ReadFrame ==
  /\ reading = <<>> /\ answers # <<>>
  /\ answers' = Tail(answers)
  /\ reading' = IF handler THEN <<Head(answers)>> ELSE <<>>
  /\ UNCHANGED <<shared_vars, main_vars, requests, module_vars>>

(* ... and then calls handleFrame().  Which frames it takes is decided by  *)
(* the state: programs that identify themselves, or an answer from a       *)
(* destination, with a length and a status.                                *)
Identifies(frame, name) == frame \in {IdentifyAck(name), IdentifyEvent(name)}

Awaited ==
  [GET_MCU_TYPE |-> {<<"TRX", 2, 1>>}, GET_VERSION |-> {<<"TRX", 10, 1>>},
   GET_HMIP_RF_ADDRESS |-> {<<"HMIP", 4, 1>>}, GET_SGTIN |-> {<<"COMMON", 13, 1>>},
   GET_BIDCOS_RF_ADDRESS |-> {<<"LLMAC", 4, 1>>, <<"LLMAC", 1, 0>>},
   GET_SERIAL |-> {<<"LLMAC", 11, 1>>},
   LEGACY_GET_VERSION |-> {<<"HMSYSTEM", 7, 2>>},
   LEGACY_GET_BIDCOS_RF_ADDRESS |-> {<<"TRX", 6, 1>>, <<"TRX", 6, 2>>},
   LEGACY_GET_SERIAL |-> {<<"HMSYSTEM", 11, 2>>}]

Takes(frame) ==
  \/ /\ detectState \in {"START_BL", "START_APP"}
     /\ \E name \in DOMAIN Names : Identifies(frame, name)
  \/ /\ detectState \in DOMAIN Awaited
     /\ frame.cmd = "ACK" /\ <<frame.dst, frame.len, frame.status>> \in Awaited[detectState]

(* The state moves on and the main thread is woken.                        *)
Advance(state) == detectState' = state /\ semaphore' = semaphore + 1

(* A radio module in its application is sent back to its bootloader.       *)
HandleStartBl(frame) ==
  /\ detectState = "START_BL"
  /\ radioModuleType' = "UNKNOWN"
  /\ \/ /\ frame.content \in {"HMIP_TRX_Bl", "Co_CPU_BL"}
        /\ Advance("START_APP")
        /\ UNCHANGED requests
     \/ /\ frame.content \in {"DualCoPro_App", "HMIP_TRX_App"}
        /\ requests' = Append(requests, "COMMON_START_BL")
        /\ UNCHANGED <<detectState, semaphore>>
     \/ /\ frame.content = "Co_CPU_App"
        /\ requests' = Append(requests, "HMSYSTEM_CHANGE_APP")
        /\ UNCHANGED <<detectState, semaphore>>
  /\ UNCHANGED data

(* A radio module in its bootloader is told to start its application.      *)
HandleStartApp(frame) ==
  /\ detectState = "START_APP"
  /\ \/ /\ frame.content = "HMIP_TRX_Bl"
        /\ requests' = Append(requests, "COMMON_START_APP")
        /\ UNCHANGED <<detectState, semaphore, radioModuleType, data>>
     \/ /\ frame.content = "Co_CPU_BL"
        /\ requests' = Append(requests, "HMSYSTEM_CHANGE_APP")
        /\ UNCHANGED <<detectState, semaphore, radioModuleType, data>>
     \/ /\ frame.content \in {"DualCoPro_App", "HMIP_TRX_App"}
        /\ Advance("GET_MCU_TYPE")
        /\ UNCHANGED <<requests, radioModuleType, data>>
     \/ /\ frame.content = "Co_CPU_App"
        /\ Advance("LEGACY_GET_VERSION")
        /\ data' = [data EXCEPT !.sgtin = "n/a", !.hmIP = "0"]
        /\ radioModuleType' = "HM_MOD_RPI_PCB"
        /\ UNCHANGED requests

HandleGetMcuType(frame) ==
  /\ detectState = "GET_MCU_TYPE"
  /\ radioModuleType' = frame.content
  /\ Advance("GET_VERSION")
  /\ UNCHANGED <<data, requests>>

(* Mutant: with the SGTIN everything is known.                             *)
HandleGetSgtinOnly(frame) ==
  /\ detectState = "GET_SGTIN"
  /\ data' = [data EXCEPT !.sgtin = frame.content, !.serial = frame.content]
  /\ Advance("FINISHED")
  /\ UNCHANGED <<radioModuleType, requests>>

(* The current radio modules have no serial number and no default address  *)
(* of their own: both come from the SGTIN.                                 *)
HandleGetSgtin(frame) ==
  LET own == radioModuleType \in {"RPI_RF_MOD", "HMIP_RFUSB"}
      old == radioModuleType = "HMIP_RFUSB" /\ data.version # "VERSION_4"
  IN /\ detectState = "GET_SGTIN"
     /\ data' = [data EXCEPT !.sgtin = frame.content,
                             !.serial = IF own THEN frame.content ELSE @,
                             !.bidCos = IF ~own THEN @
                                        ELSE IF old THEN "0" ELSE frame.content]
     /\ Advance(IF old THEN "FINISHED" ELSE "GET_BIDCOS_RF_ADDRESS")
     /\ UNCHANGED <<radioModuleType, requests>>

(* An address that is not set and a refusal leave the default.             *)
HandleGetBidCosRfAddress(frame) ==
  /\ detectState = "GET_BIDCOS_RF_ADDRESS"
  /\ data' = [data EXCEPT !.bidCos = IF frame.content = "ADDRESS" THEN "ADDRESS" ELSE @]
  /\ \/ /\ frame.len = 4
        /\ Advance(IF radioModuleType = "HM_MOD_RPI_PCB" THEN "GET_SERIAL" ELSE "FINISHED")
     \/ /\ frame.len = 1
        /\ Advance(IF radioModuleType \in {"RPI_RF_MOD", "HMIP_RFUSB"}
                     THEN "FINISHED" ELSE detectState)
  /\ UNCHANGED <<radioModuleType, requests>>

(* The answers that are only stored.                                       *)
Store(frame, state, field, next) ==
  /\ detectState = state
  /\ data' = [data EXCEPT ![field] = frame.content]
  /\ Advance(next)
  /\ UNCHANGED <<radioModuleType, requests>>

HandleGetVersion(frame) == Store(frame, "GET_VERSION", "version", "GET_HMIP_RF_ADDRESS")
HandleGetHmIPRfAddress(frame) == Store(frame, "GET_HMIP_RF_ADDRESS", "hmIP", "GET_SGTIN")
HandleGetSerial(frame) == Store(frame, "GET_SERIAL", "serial", "FINISHED")
HandleLegacy(frame) ==
  \/ Store(frame, "LEGACY_GET_VERSION", "version", "LEGACY_GET_BIDCOS_RF_ADDRESS")
  \/ Store(frame, "LEGACY_GET_BIDCOS_RF_ADDRESS", "bidCos", "LEGACY_GET_SERIAL")
  \/ Store(frame, "LEGACY_GET_SERIAL", "serial", "FINISHED")

(* handleFrame(), which the main thread sees as one step: what it does     *)
(* before sem_give() makes no difference to it.                            *)
HandleFrame ==
  /\ reading # <<>>
  /\ reading' = <<>>
  /\ LET frame == Head(reading)
     IN \/ /\ Takes(frame)
           /\ \/ HandleStartBl(frame) \/ HandleStartApp(frame) \/ HandleGetMcuType(frame)
              \/ HandleGetVersion(frame) \/ HandleGetHmIPRfAddress(frame)
              \/ HandleGetSgtin(frame) \/ HandleGetBidCosRfAddress(frame)
              \/ HandleGetSerial(frame) \/ HandleLegacy(frame)
        \/ ~Takes(frame) /\ UNCHANGED <<shared_vars, requests>>
  /\ UNCHANGED <<main_vars, answers, module_vars>>

-----------------------------------------------------------------------------
(* External: the radio module.  kind.bl and kind.app are the names of its  *)
(* programs, Nothing if the program does not run.                          *)
Program(m) == IF m = "bl" THEN kind.bl ELSE kind.app

(* The program that a request starts, and the answers of the application.  *)
Starts(request) ==
  CASE request = "COMMON_START_BL" -> "bl"
    [] request = "COMMON_START_APP" -> "app"
    [] request = "HMSYSTEM_CHANGE_APP" -> IF mode = "bl" THEN "app" ELSE "bl"
    [] OTHER -> mode

Reply(request) ==
  CASE request \in {"COMMON_IDENTIFY", "HMSYSTEM_IDENTIFY"} ->
         IF request = (IF NameDst(Program(mode)) = "COMMON" THEN "COMMON_IDENTIFY"
                                                            ELSE "HMSYSTEM_IDENTIFY")
           THEN <<IdentifyAck(Program(mode))>> ELSE <<>>
    [] request \in {"COMMON_START_BL", "COMMON_START_APP"} ->
         <<Frame("COMMON", "ACK", 1, 1, Nothing)>>
    [] request = "HMSYSTEM_CHANGE_APP" -> <<Frame("HMSYSTEM", "ACK", 1, 1, Nothing)>>
    [] request = "TRX_GET_MCU_TYPE" -> <<Frame("TRX", "ACK", 2, 1, kind.type)>>
    [] request = "TRX_GET_VERSION" -> <<Frame("TRX", "ACK", 10, 1, kind.version)>>
    [] request = "HMIP_GET_DEFAULT_RF_ADDR" -> <<Frame("HMIP", "ACK", 4, 1, "HMIP_ADDRESS")>>
    [] request = "COMMON_GET_SGTIN" -> <<Frame("COMMON", "ACK", 13, 1, "SGTIN")>>
    [] request = "LLMAC_GET_DEFAULT_RF_ADDR" ->
         IF kind.address = "REFUSED" THEN <<Frame("LLMAC", "ACK", 1, 0, Nothing)>>
                                     ELSE <<Frame("LLMAC", "ACK", 4, 1, kind.address)>>
    [] request = "LLMAC_GET_SERIAL" -> <<Frame("LLMAC", "ACK", 11, 1, "SERIAL")>>
    [] request = "HMSYSTEM_GET_VERSION" -> <<Frame("HMSYSTEM", "ACK", 7, 2, kind.version)>>
    [] request = "TRX_GET_DEFAULT_RF_ADDR" -> <<Frame("TRX", "ACK", 6, 2, "ADDRESS")>>
    [] request = "HMSYSTEM_GET_SERIAL" -> <<Frame("HMSYSTEM", "ACK", 11, 2, "SERIAL")>>

(* It answers a request, if it has a program running, and a program that   *)
(* is started may say so.                                                  *)
ModuleAnswers ==
  /\ requests # <<>>
  /\ requests' = Tail(requests)
  /\ LET request == Head(requests)
     IN IF Program(mode) = Nothing THEN UNCHANGED <<answers, mode>>
        ELSE /\ mode' = Starts(request)
             /\ \/ answers' = answers \o Reply(request)
                \/ /\ mode' # mode /\ Program(mode') # Nothing
                   /\ answers' = answers \o Reply(request) \o <<IdentifyEvent(Program(mode'))>>
  /\ UNCHANGED <<shared_vars, main_vars, reading, kind>>

(* External: a frame is lost on its way.                                   *)
LoseFrame ==
  /\ \/ requests # <<>> /\ requests' = Tail(requests) /\ UNCHANGED answers
     \/ answers # <<>> /\ answers' = Tail(answers) /\ UNCHANGED requests
  /\ UNCHANGED <<shared_vars, main_vars, reading, module_vars>>

Done == pc \in {"aborted", "reported", "error"} /\ UNCHANGED vars

Next == Main \/ ReadFrame \/ HandleFrame \/ ModuleAnswers \/ LoseFrame \/ Done

(* The main thread is scheduled, and sem_timedwait() returns when its time *)
(* is over; so is the reader thread.                                       *)
Spec == Init /\ [][Next]_vars /\ WF_vars(Main) /\ WF_vars(ReadFrame) /\ WF_vars(HandleFrame)

-----------------------------------------------------------------------------
(* What the program prints about a radio module is true, however late or   *)
(* incomplete its answers were: the type is the module's, and every field  *)
(* is the module's value for it or still blank.  No field is blank unless  *)
(* the main thread gave up waiting (detectRadioModule, handleFrame, main). *)
ReportIsTrue ==
  pc = "reported" =>
    LET legacy == kind.app = "Co_CPU_App"
        own == kind.type \in {"RPI_RF_MOD", "HMIP_RFUSB"}
        truth == [version |-> kind.version,
                  hmIP |-> IF legacy THEN "0" ELSE "HMIP_ADDRESS",
                  sgtin |-> IF legacy THEN "n/a" ELSE "SGTIN",
                  bidCos |-> IF kind.type = "HMIP_RFUSB" /\ kind.version # "VERSION_4" THEN "0"
                             ELSE IF kind.address = "ADDRESS" THEN "ADDRESS"
                             ELSE IF own THEN "SGTIN" ELSE Nothing,
                  serial |-> IF own THEN "SGTIN" ELSE "SERIAL"]
    IN /\ radioModuleType = kind.type
       /\ \A field \in DOMAIN Blank :
            \/ data[field] = truth[field]
            \/ gaveUp /\ data[field] = Nothing
            \/ gaveUp /\ field = "bidCos" /\ own /\ data[field] = "SGTIN"

(* The program comes to an end, whatever the radio module answers and      *)
(* whatever is lost, if the radio module does not refuse to tell its       *)
(* BidCoS address: only some types may do that (detectRadioModule).        *)
DetectionEnds ==
  (kind.address = "REFUSED" => kind.type \in {"RPI_RF_MOD", "HMIP_RFUSB"})
    ~> pc \in {"aborted", "reported", "error"}
=============================================================================
