--------------------------- MODULE Detector_proofs --------------------------
(* What detect_radio_module prints is true, proved for every set of radio  *)
(* modules and every number of retries.                                    *)
EXTENDS Detector, TLAPS, SequenceTheorems

(* What the main thread sends to identify a program, to learn something    *)
(* from it, and what the reader thread sends to start one.                 *)
Asks == {"COMMON_IDENTIFY", "HMSYSTEM_IDENTIFY"}
Queries ==
  {"TRX_GET_MCU_TYPE", "TRX_GET_VERSION", "HMIP_GET_DEFAULT_RF_ADDR", "COMMON_GET_SGTIN",
   "LLMAC_GET_DEFAULT_RF_ADDR", "LLMAC_GET_SERIAL", "HMSYSTEM_GET_VERSION",
   "TRX_GET_DEFAULT_RF_ADDR", "HMSYSTEM_GET_SERIAL"}
StartRequests == {"COMMON_START_BL", "COMMON_START_APP", "HMSYSTEM_CHANGE_APP"}
Requests == Asks \cup Queries \cup StartRequests

(* What the radio module sends: the answers to those requests, and what a  *)
(* program says when it starts.                                            *)
Acks == {IdentifyAck(name) : name \in {kind.bl, kind.app} \ {Nothing}}
Events == {IdentifyEvent(name) : name \in {kind.bl, kind.app} \ {Nothing}}
Results ==
  {Frame("TRX", "ACK", 2, 1, kind.type), Frame("TRX", "ACK", 10, 1, kind.version),
   Frame("HMIP", "ACK", 4, 1, "HMIP_ADDRESS"), Frame("COMMON", "ACK", 13, 1, "SGTIN"),
   Frame("LLMAC", "ACK", 11, 1, "SERIAL"), Frame("HMSYSTEM", "ACK", 7, 2, kind.version),
   Frame("TRX", "ACK", 6, 2, "ADDRESS"), Frame("HMSYSTEM", "ACK", 11, 2, "SERIAL")}
  \cup (IF kind.address = "REFUSED" THEN {Frame("LLMAC", "ACK", 1, 0, Nothing)}
                                     ELSE {Frame("LLMAC", "ACK", 4, 1, kind.address)})
Starteds == {Frame("COMMON", "ACK", 1, 1, Nothing), Frame("HMSYSTEM", "ACK", 1, 1, Nothing)}
Sent == Acks \cup Events \cup Results \cup Starteds

-----------------------------------------------------------------------------
Starting == {"START_BL", "START_APP"}
Legacy == {"LEGACY_GET_VERSION", "LEGACY_GET_BIDCOS_RF_ADDRESS", "LEGACY_GET_SERIAL"}

(* The states in which an answer other than an identification was handled. *)
Past == {"GET_VERSION", "GET_HMIP_RF_ADDRESS", "GET_SGTIN", "GET_BIDCOS_RF_ADDRESS",
         "GET_SERIAL", "LEGACY_GET_BIDCOS_RF_ADDRESS", "LEGACY_GET_SERIAL"}
States == Starting \cup Legacy \cup Past \cup {"GET_MCU_TYPE", "FINISHED"}

(* The main thread looks for a radio module, asks it, and is done.         *)
Searching == {"start", "aborted", "loop", "clear", "common", "wait1", "system", "wait2"}
Asking == {"step", "switch", "wait"}
Ending == {"detected", "report", "reported", "error"}

Types ==
  /\ pc \in Searching \cup Asking \cup Ending
  /\ phase \in {"bl", "app"}
  /\ seen \in States /\ detectState \in States
  /\ detectRetryCount \in Nat /\ semaphore \in Nat
  /\ handler \in BOOLEAN /\ gaveUp \in BOOLEAN
  /\ kind \in Kinds /\ mode \in {"bl", "app"}
  /\ requests \in Seq(Requests)
  /\ answers \in Seq(Sent)
  /\ reading \in Seq(Sent) /\ Len(reading) <= 1

(* seq has no element of S, and no element of S behind one of R.           *)
Without(seq, S) == \A i \in 1..Len(seq) : seq[i] \notin S
NotBehind(seq, R, S) ==
  \A i, j \in 1..Len(seq) : i < j /\ seq[i] \in R => seq[j] \notin S

(* Requests and answers stay in order: an identification is never behind   *)
(* an answer that the main thread asked for later.                         *)
Order ==
  /\ NotBehind(requests, Queries, Asks)
  /\ NotBehind(answers, Results, Acks)
  /\ ~Without(requests, Asks) => Without(answers, Results) /\ Without(reading, Results)
  /\ ~Without(reading, Results) => Without(answers, Acks)
  /\ pc \in Searching =>
       /\ Without(requests, Queries) /\ Without(answers, Results) /\ Without(reading, Results)
       /\ detectState \notin Past
  /\ detectState \in Past =>
       Without(requests, Asks) /\ Without(answers, Acks) /\ Without(reading, Acks)

(* What is known in each state.                                            *)
Own == kind.type \in {"RPI_RF_MOD", "HMIP_RFUSB"}
Old == kind.type = "HMIP_RFUSB" /\ kind.version # "VERSION_4"
Known(version, hmIP, sgtin, bidCos, serial) ==
  data = [version |-> version, hmIP |-> hmIP, sgtin |-> sgtin, bidCos |-> bidCos, serial |-> serial]
Address ==
  IF Old THEN "0" ELSE IF kind.address = "ADDRESS" THEN "ADDRESS" ELSE IF Own THEN "SGTIN" ELSE Nothing
Partly ==
  LET legacy == kind.app = "Co_CPU_App"
  IN \E version \in {Nothing, kind.version}, hmIP \in {Nothing, IF legacy THEN "0" ELSE "HMIP_ADDRESS"},
        sgtin \in {Nothing, IF legacy THEN "n/a" ELSE "SGTIN"},
        bidCos \in {Nothing, Address} \cup (IF Own THEN {"SGTIN"} ELSE {}),
        serial \in {Nothing, IF Own THEN "SGTIN" ELSE "SERIAL"} :
       Known(version, hmIP, sgtin, bidCos, serial)
Fully ==
  IF kind.app = "Co_CPU_App" THEN Known(kind.version, "0", "n/a", "ADDRESS", "SERIAL")
  ELSE Known(kind.version, "HMIP_ADDRESS", "SGTIN", Address, IF Own THEN "SGTIN" ELSE "SERIAL")

Facts ==
  /\ detectState \in Starting \cup {"GET_MCU_TYPE"} =>
       radioModuleType \in {"NONE", "UNKNOWN"} /\ Known(Nothing, Nothing, Nothing, Nothing, Nothing)
  /\ detectState \in {"GET_MCU_TYPE"} \cup (Past \ Legacy) =>
       kind.app \in {"DualCoPro_App", "HMIP_TRX_App"}
  /\ detectState \in Past \ Legacy => radioModuleType = kind.type
  /\ detectState \in Legacy =>
       kind.app = "Co_CPU_App" /\ radioModuleType \in {"NONE", "HM_MOD_RPI_PCB"}
  /\ detectState = "GET_VERSION" => Known(Nothing, Nothing, Nothing, Nothing, Nothing)
  /\ detectState = "GET_HMIP_RF_ADDRESS" => Known(kind.version, Nothing, Nothing, Nothing, Nothing)
  /\ detectState = "GET_SGTIN" => Known(kind.version, "HMIP_ADDRESS", Nothing, Nothing, Nothing)
  /\ detectState = "GET_BIDCOS_RF_ADDRESS" =>
       /\ ~Old
       /\ Known(kind.version, "HMIP_ADDRESS", "SGTIN", IF Own THEN "SGTIN" ELSE Nothing,
                IF Own THEN "SGTIN" ELSE Nothing)
  /\ detectState = "GET_SERIAL" =>
       /\ kind.type = "HM_MOD_RPI_PCB"
       /\ Known(kind.version, "HMIP_ADDRESS", "SGTIN", Address, Nothing)
  /\ detectState = "LEGACY_GET_VERSION" => Known(Nothing, "0", "n/a", Nothing, Nothing)
  /\ detectState = "LEGACY_GET_BIDCOS_RF_ADDRESS" => Known(kind.version, "0", "n/a", Nothing, Nothing)
  /\ detectState = "LEGACY_GET_SERIAL" => Known(kind.version, "0", "n/a", "ADDRESS", Nothing)
  /\ detectState = "FINISHED" /\ radioModuleType \in Supported =>
       radioModuleType = kind.type /\ IF gaveUp THEN Partly ELSE Fully

(* The main thread reports what was finished, or has given up.             *)
Outcome ==
  /\ pc \in Ending => gaveUp \/ detectState = "FINISHED"
  /\ pc = "reported" => radioModuleType \in Supported

IInv == Types /\ Order /\ Facts /\ Outcome

-----------------------------------------------------------------------------
(* What is without S, or in order, stays so when its first element leaves  *)
(* and when one is appended.                                               *)
LEMMA TailKeeps ==
  ASSUME NEW E, NEW seq \in Seq(E), seq # <<>>, NEW R, NEW S
  PROVE  /\ Tail(seq) \in Seq(E) /\ Head(seq) \in E
         /\ Without(seq, S) => Without(Tail(seq), S) /\ Head(seq) \notin S
         /\ Without(Tail(seq), S) /\ Head(seq) \notin S => Without(seq, S)
         /\ NotBehind(seq, R, S) => NotBehind(Tail(seq), R, S)
         /\ NotBehind(seq, R, S) /\ Head(seq) \in R => Without(Tail(seq), S)
<1>1. /\ Head(seq) \in E /\ Tail(seq) \in Seq(E)
      /\ Len(seq) \in Nat \ {0} /\ Len(Tail(seq)) = Len(seq) - 1
      /\ Head(seq) = seq[1]
      /\ \A i \in 1..Len(Tail(seq)) : Tail(seq)[i] = seq[i + 1] /\ i + 1 \in 1..Len(seq)
      /\ \A i \in 1..Len(seq) : i # 1 => i - 1 \in 1..Len(Tail(seq)) /\ Tail(seq)[i - 1] = seq[i]
  BY HeadTailProperties, EmptySeq
<1>2. Without(seq, S) => Without(Tail(seq), S) /\ Head(seq) \notin S
  BY <1>1 DEF Without
<1>3. Without(Tail(seq), S) /\ Head(seq) \notin S => Without(seq, S)
  BY <1>1 DEF Without
<1>4. NotBehind(seq, R, S) => NotBehind(Tail(seq), R, S)
  BY <1>1 DEF NotBehind
<1>5. NotBehind(seq, R, S) /\ Head(seq) \in R => Without(Tail(seq), S)
  BY <1>1 DEF NotBehind, Without
<1> QED BY <1>1, <1>2, <1>3, <1>4, <1>5

(* See TailKeeps.                                                          *)
LEMMA AppendKeeps ==
  ASSUME NEW E, NEW seq \in Seq(E), NEW e \in E, NEW R, NEW S
  PROVE  /\ Append(seq, e) \in Seq(E)
         /\ Without(seq, S) /\ e \notin S => Without(Append(seq, e), S)
         /\ Without(Append(seq, e), S) => Without(seq, S) /\ e \notin S
         /\ NotBehind(seq, R, S) /\ e \notin S => NotBehind(Append(seq, e), R, S)
         /\ NotBehind(seq, R, S) /\ Without(seq, R) => NotBehind(Append(seq, e), R, S)
<1>1. /\ Append(seq, e) \in Seq(E)
      /\ Len(seq) \in Nat /\ Len(Append(seq, e)) = Len(seq) + 1
      /\ \A i \in 1..Len(seq) : Append(seq, e)[i] = seq[i]
      /\ Append(seq, e)[Len(seq) + 1] = e
  BY AppendProperties, LenProperties
<1>2. Without(seq, S) /\ e \notin S => Without(Append(seq, e), S)
  BY <1>1 DEF Without
<1>3. Without(Append(seq, e), S) => Without(seq, S) /\ e \notin S
  BY <1>1 DEF Without
<1>4. NotBehind(seq, R, S) /\ e \notin S => NotBehind(Append(seq, e), R, S)
  BY <1>1 DEF NotBehind
<1>5. NotBehind(seq, R, S) /\ Without(seq, R) => NotBehind(Append(seq, e), R, S)
  BY <1>1 DEF NotBehind, Without
<1> QED BY <1>1, <1>2, <1>3, <1>4, <1>5

(* The reader thread handles one frame at a time.                          *)
LEMMA ReadingIsOne ==
  ASSUME NEW E, NEW seq \in Seq(E), Len(seq) <= 1, NEW S
  PROVE  /\ seq # <<>> => Head(seq) \in E /\ (Without(seq, S) <=> Head(seq) \notin S)
         /\ Without(<<>>, S) /\ <<>> \in Seq(E) /\ Len(<<>>) = 0
<1>1. ASSUME seq # <<>> PROVE Head(seq) \in E /\ Len(seq) = 1 /\ Head(seq) = seq[1]
  <2>1. Len(seq) \in Nat \ {0}
    BY <1>1, EmptySeq
  <2>2. Len(seq) = 1
    BY <2>1
  <2>3. Head(seq) \in E
    BY <1>1, HeadTailProperties
  <2> QED BY <2>2, <2>3
<1>2. seq # <<>> => (Without(seq, S) <=> Head(seq) \notin S)
  BY <1>1 DEF Without
<1>3. Without(<<>>, S) /\ <<>> \in Seq(E) /\ Len(<<>>) = 0
  BY EmptySeq DEF Without
<1> QED BY <1>1, <1>2, <1>3

(* The radio module is always the same one.                                *)
LEMMA KindStays ==
  ASSUME [Next]_vars
  PROVE  /\ kind' = kind
         /\ Acks' = Acks /\ Events' = Events /\ Results' = Results /\ Sent' = Sent
         /\ Own' = Own /\ Old' = Old /\ Address' = Address
<1>1. kind' = kind
  BY DEF Next, vars, module_vars, Main, Start, Loop, Clear, Identify, SemTake, SemTimeout, Step,
         Switch, Wait, RemoveHandler, Report, ReadFrame, HandleFrame, ModuleAnswers, LoseFrame, Done
<1>2. Acks' = Acks /\ Events' = Events /\ Results' = Results
  BY <1>1 DEF Acks, Events, Results
<1>3. Sent' = Sent
  BY <1>2 DEF Sent, Starteds
<1>4. Own' = Own /\ Old' = Old
  BY <1>1 DEF Own, Old
<1>5. Address' = Address
  BY <1>1, <1>4 DEF Address
<1> QED BY <1>1, <1>2, <1>3, <1>4, <1>5

-----------------------------------------------------------------------------
(* The fields of a frame, and the tables of the program.                   *)
LEMMA FrameFields ==
  \A dst, cmd, len, status, content :
    LET frame == Frame(dst, cmd, len, status, content)
    IN /\ frame.dst = dst /\ frame.cmd = cmd /\ frame.len = len
       /\ frame.status = status /\ frame.content = content
BY DEF Frame

(* See FrameFields.                                                        *)
LEMMA NamesTable ==
  /\ DOMAIN Names = {"HMIP_TRX_Bl", "HMIP_TRX_App", "DualCoPro_App", "Co_CPU_BL", "Co_CPU_App"}
  /\ Names["HMIP_TRX_Bl"] = 11 /\ Names["HMIP_TRX_App"] = 12 /\ Names["DualCoPro_App"] = 13
  /\ Names["Co_CPU_BL"] = 9 /\ Names["Co_CPU_App"] = 10
BY DEF Names

(* See FrameFields.                                                        *)
LEMMA RequestTable ==
  /\ DOMAIN Request = States \ (Starting \cup {"FINISHED"})
  /\ \A state \in DOMAIN Request : Request[state] \in Queries
<1>1. DOMAIN Request = States \ (Starting \cup {"FINISHED"})
  BY DEF Request, States, Starting, Legacy, Past
<1>2. \A state \in States \ (Starting \cup {"FINISHED"}) : Request[state] \in Queries
  BY DEF Request, Queries, States, Starting, Legacy, Past
<1> QED BY <1>1, <1>2

(* See FrameFields.                                                        *)
LEMMA AwaitedTable ==
  /\ DOMAIN Awaited = DOMAIN Request
  /\ Awaited["GET_MCU_TYPE"] = {<<"TRX", 2, 1>>} /\ Awaited["GET_VERSION"] = {<<"TRX", 10, 1>>}
  /\ Awaited["GET_HMIP_RF_ADDRESS"] = {<<"HMIP", 4, 1>>}
  /\ Awaited["GET_SGTIN"] = {<<"COMMON", 13, 1>>}
  /\ Awaited["GET_BIDCOS_RF_ADDRESS"] = {<<"LLMAC", 4, 1>>, <<"LLMAC", 1, 0>>}
  /\ Awaited["GET_SERIAL"] = {<<"LLMAC", 11, 1>>}
  /\ Awaited["LEGACY_GET_VERSION"] = {<<"HMSYSTEM", 7, 2>>}
  /\ Awaited["LEGACY_GET_BIDCOS_RF_ADDRESS"] = {<<"TRX", 6, 1>>, <<"TRX", 6, 2>>}
  /\ Awaited["LEGACY_GET_SERIAL"] = {<<"HMSYSTEM", 11, 2>>}
BY DEF Awaited, Request

(* What an identification looks like.                                      *)
LEMMA IdentifyFields ==
  ASSUME NEW name \in DOMAIN Names
  PROVE  /\ IdentifyAck(name).cmd = "ACK" /\ IdentifyEvent(name).cmd = "EVENT"
         /\ IdentifyAck(name).content = name /\ IdentifyEvent(name).content = name
         /\ IdentifyAck(name).dst \in {"COMMON", "HMSYSTEM"}
         /\ IdentifyEvent(name).dst \in {"COMMON", "HMSYSTEM"}
         /\ IdentifyAck(name).len \in 10..14
         /\ IdentifyAck(name).dst = "HMSYSTEM" => IdentifyAck(name).len \in {10, 11}
<1>1. /\ IdentifyAck(name).cmd = "ACK" /\ IdentifyEvent(name).cmd = "EVENT"
      /\ IdentifyAck(name).content = name /\ IdentifyEvent(name).content = name
      /\ IdentifyAck(name).dst = NameDst(name) /\ IdentifyEvent(name).dst = NameDst(name)
      /\ IdentifyAck(name).len = Names[name] + 1
  BY FrameFields DEF IdentifyAck, IdentifyEvent
<1>2. NameDst(name) \in {"COMMON", "HMSYSTEM"}
  BY DEF NameDst
<1>3. /\ Names[name] + 1 \in 10..14
      /\ NameDst(name) = "HMSYSTEM" => Names[name] + 1 \in {10, 11}
  BY NamesTable DEF NameDst
<1> QED BY <1>1, <1>2, <1>3

(* The programs of a radio module.                                         *)
LEMMA Programs ==
  ASSUME kind \in Kinds
  PROVE  /\ {kind.bl, kind.app} \ {Nothing} \subseteq DOMAIN Names
         /\ kind.bl \in {"HMIP_TRX_Bl", "Co_CPU_BL", Nothing}
         /\ kind.app \in {"HMIP_TRX_App", "DualCoPro_App", "Co_CPU_App", Nothing}
BY KindsAssumption, NamesTable DEF Nothing

(* What the other frames look like.                                        *)
LEMMA ResultFields ==
  /\ \A frame \in Results :
       /\ frame.cmd = "ACK"
       /\ frame.dst = "COMMON" => frame.content = "SGTIN"
       /\ frame.dst = "HMSYSTEM" => frame.content = "SERIAL" \/ frame.len = 7
  /\ \A frame \in Starteds : frame.len = 1 /\ frame.cmd = "ACK"
<1>1. \A frame \in Results :
        /\ frame.cmd = "ACK"
        /\ frame.dst = "COMMON" => frame.content = "SGTIN"
        /\ frame.dst = "HMSYSTEM" => frame.content = "SERIAL" \/ frame.len = 7
  BY FrameFields DEF Results
<1>2. \A frame \in Starteds : frame.len = 1 /\ frame.cmd = "ACK"
  BY FrameFields DEF Starteds
<1> QED BY <1>1, <1>2

(* No answer is both an identification and something else.                 *)
LEMMA AcksAreNoResults ==
  ASSUME kind \in Kinds
  PROVE  /\ \A frame \in Acks : frame \notin Results
         /\ \A frame \in Events : frame \notin Results /\ frame \notin Acks
         /\ \A frame \in Results : frame \notin Acks
         /\ \A frame \in Starteds : frame \notin Acks /\ frame \notin Results
<1>1. \A frame \in Acks :
        /\ frame.cmd = "ACK" /\ frame.content \in DOMAIN Names
        /\ frame.dst \in {"COMMON", "HMSYSTEM"} /\ frame.len \in 10..14
  BY Programs, IdentifyFields DEF Acks
<1>2. \A frame \in Events : frame.cmd = "EVENT"
  BY Programs, IdentifyFields DEF Events
<1>3. \A frame \in Acks : frame \notin Results
  BY <1>1, ResultFields, NamesTable
<1>4. \A frame \in Starteds : frame \notin Acks
  BY <1>1, ResultFields
<1>5. \A frame \in Starteds : frame \notin Results
  BY FrameFields DEF Starteds, Results
<1> QED BY <1>1, <1>2, <1>3, <1>4, <1>5, ResultFields

-----------------------------------------------------------------------------
(* How the radio module answers each sort of request.                      *)
LEMMA Replies ==
  ASSUME kind \in Kinds, mode \in {"bl", "app"}, Program(mode) # Nothing,
         NEW request \in Asks \cup Queries \cup StartRequests
  PROVE  /\ Starts(request) \in {"bl", "app"}
         /\ Starts(request) # mode => request \in StartRequests
         /\ request \in Asks =>
              Reply(request) = <<>> \/ \E frame \in Acks : Reply(request) = <<frame>>
         /\ request \in Queries => \E frame \in Results : Reply(request) = <<frame>>
         /\ request \in StartRequests => \E frame \in Starteds : Reply(request) = <<frame>>
<1>1. Starts(request) \in {"bl", "app"} /\ (Starts(request) # mode => request \in StartRequests)
  BY DEF Starts, StartRequests
<1>2. ASSUME request \in Asks
      PROVE  Reply(request) = <<>> \/ \E frame \in Acks : Reply(request) = <<frame>>
  <2>1. Reply(request) = <<>> \/ Reply(request) = <<IdentifyAck(Program(mode))>>
    BY <1>2 DEF Reply, Asks
  <2>2. IdentifyAck(Program(mode)) \in Acks
    BY DEF Program, Acks
  <2> QED BY <2>1, <2>2
<1>3. ASSUME request \in Queries PROVE \E frame \in Results : Reply(request) = <<frame>>
  BY <1>3 DEF Reply, Queries, Results
<1>4. ASSUME request \in StartRequests PROVE \E frame \in Starteds : Reply(request) = <<frame>>
  BY <1>4 DEF Reply, StartRequests, Starteds
<1> QED BY <1>1, <1>2, <1>3, <1>4

(* What an answer of the radio module adds to those on their way.          *)
LEMMA AnswersStep ==
  ASSUME Types, ModuleAnswers
  PROVE  /\ requests # <<>> /\ requests' = Tail(requests) /\ mode' \in {"bl", "app"}
         /\ \/ answers' = answers
            \/ /\ Head(requests) \in Asks
               /\ \E frame \in Acks : answers' = Append(answers, frame)
            \/ /\ Head(requests) \in Queries
               /\ \E frame \in Results : answers' = Append(answers, frame)
            \/ /\ Head(requests) \in StartRequests
               /\ \E frame \in Starteds :
                    \/ answers' = Append(answers, frame)
                    \/ \E event \in Events : answers' = Append(Append(answers, frame), event)
<1> DEFINE request == Head(requests)
<1>1. requests # <<>> /\ requests' = Tail(requests) /\ kind' = kind
  BY DEF ModuleAnswers
<1>2. /\ request \in Asks \cup Queries \cup StartRequests /\ answers \in Seq(Sent)
      /\ kind \in Kinds /\ mode \in {"bl", "app"}
  BY <1>1, HeadTailProperties DEF Types, Requests
<1>3. CASE Program(mode) = Nothing
  BY <1>1, <1>2, <1>3 DEF ModuleAnswers
<1>4. CASE Program(mode) # Nothing
  <2>1. /\ mode' = Starts(request)
        /\ \/ answers' = answers \o Reply(request)
           \/ /\ mode' # mode /\ Program(mode') # Nothing
              /\ answers' = answers \o Reply(request) \o <<IdentifyEvent(Program(mode'))>>
    BY <1>4 DEF ModuleAnswers
  <2>2. /\ Starts(request) \in {"bl", "app"}
        /\ Starts(request) # mode => request \in StartRequests
        /\ request \in Asks =>
             Reply(request) = <<>> \/ \E frame \in Acks : Reply(request) = <<frame>>
        /\ request \in Queries => \E frame \in Results : Reply(request) = <<frame>>
        /\ request \in StartRequests => \E frame \in Starteds : Reply(request) = <<frame>>
    BY <1>2, <1>4, Replies
  <2>3. \A frame \in Sent : answers \o <<frame>> = Append(answers, frame)
    BY <1>2, AppendIsConcat
  <2>4. /\ answers \o <<>> = answers
        /\ Acks \subseteq Sent /\ Results \subseteq Sent /\ Starteds \subseteq Sent
        /\ Events \subseteq Sent
    BY <1>2, ConcatEmptySeq DEF Sent
  <2>5. CASE answers' = answers \o Reply(request)
    BY <1>1, <1>2, <2>1, <2>2, <2>3, <2>4, <2>5
  <2>6. CASE /\ mode' # mode /\ Program(mode') # Nothing
             /\ answers' = answers \o Reply(request) \o <<IdentifyEvent(Program(mode'))>>
    <3>1. request \in StartRequests
      BY <2>1, <2>2, <2>6
    <3>2. PICK frame \in Starteds : Reply(request) = <<frame>>
      BY <2>2, <3>1
    <3>3. IdentifyEvent(Program(mode')) \in Events
      BY <2>6 DEF Program, Events
    <3>4. answers \o Reply(request) = Append(answers, frame) /\ frame \in Sent
      BY <2>3, <2>4, <3>2
    <3>5. Append(answers, frame) \in Seq(Sent)
      BY <1>2, <3>4, AppendProperties
    <3>6. answers' = Append(Append(answers, frame), IdentifyEvent(Program(mode')))
      BY <2>4, <2>6, <3>3, <3>4, <3>5, AppendIsConcat
    <3> QED BY <1>1, <2>1, <2>2, <3>1, <3>3, <3>6
  <2> QED BY <2>1, <2>5, <2>6
<1> QED BY <1>3, <1>4

(* What the reader thread may send.                                        *)
LEMMA HandleFrameSends ==
  ASSUME Types, HandleFrame
  PROVE  requests' = requests \/ \E request \in StartRequests : requests' = Append(requests, request)
BY DEF HandleFrame, HandleStartBl, HandleStartApp, HandleGetMcuType, HandleGetVersion,
       HandleGetHmIPRfAddress, HandleGetSgtin, HandleGetBidCosRfAddress, HandleGetSerial,
       HandleLegacy, Store, StartRequests

(* What the main thread may send: a question when it asks, identification  *)
(* requests while it searches.                                             *)
LEMMA MainSends ==
  ASSUME Types, Main
  PROVE  /\ answers' = answers /\ reading' = reading /\ mode' = mode
         /\ \/ requests' = requests
            \/ /\ pc \in Searching
               /\ \E request \in Asks : requests' = Append(requests, request)
            \/ /\ pc = "switch" /\ pc' = "wait"
               /\ \E request \in Queries : requests' = Append(requests, request)
<1>1. CASE Switch
  BY <1>1, RequestTable DEF Switch, SendFrame, link_vars, module_vars
<1>2. CASE Identify("common", "COMMON_IDENTIFY", "wait1") \/ Identify("system", "HMSYSTEM_IDENTIFY", "wait2")
  BY <1>2 DEF Identify, SendFrame, Asks, Searching, module_vars
<1>3. CASE \/ Start \/ Loop \/ Clear \/ Step \/ Wait \/ RemoveHandler \/ Report
           \/ SemTake("wait1", "loop") \/ SemTimeout("wait1", "system", 0)
           \/ SemTake("wait2", "loop") \/ SemTimeout("wait2", "loop", 1)
  BY <1>3 DEF Start, Loop, Clear, Step, Wait, RemoveHandler, Report, SemTake, SemTimeout,
              link_vars, module_vars
<1> QED BY <1>1, <1>2, <1>3 DEF Main

-----------------------------------------------------------------------------
(* The step of the main thread in its three parts.                         *)
LEMMA MainMoves ==
  ASSUME Types, Main
  PROVE  /\ pc' \in Searching \cup Asking \cup Ending
         /\ pc \in Ending => pc' \in Ending
         /\ pc \in Asking => pc' \in Asking \cup Ending
         /\ pc' \in Ending => pc \in Ending \/ (pc = "wait" /\ (gaveUp' \/ detectState = "FINISHED"))
         /\ phase' \in {"bl", "app"} /\ seen' \in States /\ handler' \in BOOLEAN
         /\ gaveUp' \in BOOLEAN /\ (gaveUp => gaveUp')
         /\ detectRetryCount' \in Nat /\ semaphore' \in Nat
<1> USE DEF Types, Searching, Asking, Ending
<1>1. CASE Start
  BY <1>1 DEF Start, shared_vars
<1>2. CASE Loop
  BY <1>2 DEF Loop, shared_vars
<1>3. CASE Clear
  BY <1>3 DEF Clear
<1>4. CASE \/ Identify("common", "COMMON_IDENTIFY", "wait1")
           \/ Identify("system", "HMSYSTEM_IDENTIFY", "wait2")
  BY <1>4 DEF Identify, shared_vars
<1>5. CASE SemTake("wait1", "loop") \/ SemTake("wait2", "loop")
  BY <1>5 DEF SemTake
<1>6. CASE SemTimeout("wait1", "system", 0) \/ SemTimeout("wait2", "loop", 1)
  <2>1. gaveUp' \in BOOLEAN /\ (gaveUp => gaveUp')
    BY <1>6, Zenon DEF SemTimeout
  <2> QED BY <1>6, <2>1 DEF SemTimeout, shared_vars
<1>7. CASE Step
  BY <1>7 DEF Step, shared_vars
<1>8. CASE Switch
  BY <1>8 DEF Switch
<1>9. CASE Wait
  <2>1. CASE SemTimeout("wait", "detected", 0)
    <3>1. gaveUp' \in BOOLEAN /\ gaveUp'
      BY <2>1, Zenon DEF SemTimeout
    <3> QED BY <2>1, <3>1 DEF SemTimeout, shared_vars
  <2> QED BY <1>9, <2>1 DEF Wait, SemTake, shared_vars
<1>10. CASE RemoveHandler
  BY <1>10 DEF RemoveHandler, shared_vars
<1>11. CASE Report
  BY <1>11 DEF Report, shared_vars
<1> QED BY <1>1, <1>2, <1>3, <1>4, <1>5, <1>6, <1>7, <1>8, <1>9, <1>10, <1>11 DEF Main

(* What the main thread does to the fields it shares with the reader.      *)
LEMMA MainShares ==
  ASSUME Types, Main
  PROVE  /\ data' = data
         /\ \/ detectState' = detectState /\ radioModuleType' = radioModuleType
            \/ detectState' = detectState /\ radioModuleType' = "NONE" /\ pc = "clear" /\ pc' = "common"
            \/ /\ detectState' = "FINISHED" /\ radioModuleType' = radioModuleType
               /\ gaveUp' /\ pc = "switch" /\ pc' = "wait"
         /\ gaveUp' = gaveUp \/ pc \in {"switch", "wait"}
         /\ pc' = "reported" => radioModuleType \in Supported
<1>1. CASE Switch
  BY <1>1 DEF Switch
<1>2. CASE Clear
  BY <1>2 DEF Clear
<1>3. CASE Report
  BY <1>3 DEF Report, shared_vars
<1>4. CASE Wait
  BY <1>4 DEF Wait, SemTake, SemTimeout, shared_vars
<1>5. CASE \/ Start \/ Loop \/ Step \/ RemoveHandler
           \/ Identify("common", "COMMON_IDENTIFY", "wait1")
           \/ Identify("system", "HMSYSTEM_IDENTIFY", "wait2")
           \/ SemTake("wait1", "loop") \/ SemTimeout("wait1", "system", 0)
           \/ SemTake("wait2", "loop") \/ SemTimeout("wait2", "loop", 1)
  BY <1>5 DEF Start, Loop, Step, RemoveHandler, Identify, SemTake, SemTimeout, shared_vars, Types
<1> QED BY <1>1, <1>2, <1>3, <1>4, <1>5 DEF Main

(* Where handleFrame() goes from each state.                               *)
LEMMA HandleFrameMoves ==
  ASSUME Types, HandleFrame
  PROVE  /\ detectState' \in States /\ semaphore' \in Nat
         /\ detectState = "FINISHED" => UNCHANGED shared_vars
         /\ detectState \in Past => detectState' \in Past \cup {"FINISHED"}
         /\ detectState' \in Past => detectState \in Past \cup {"GET_MCU_TYPE", "LEGACY_GET_VERSION"}
<1> DEFINE frame == Head(reading)
<1> USE DEF Types, States, Starting, Legacy, Past, Advance
<1>0. UNCHANGED shared_vars => detectState' = detectState /\ semaphore' = semaphore
  BY DEF shared_vars
<1>1. CASE HandleStartBl(frame)
  BY <1>1 DEF HandleStartBl
<1>2. CASE HandleStartApp(frame)
  BY <1>2 DEF HandleStartApp
<1>3. CASE HandleGetMcuType(frame)
  BY <1>3 DEF HandleGetMcuType
<1>4. CASE HandleGetVersion(frame) \/ HandleGetHmIPRfAddress(frame) \/ HandleGetSerial(frame)
  BY <1>4 DEF HandleGetVersion, HandleGetHmIPRfAddress, HandleGetSerial, Store
<1>5. CASE HandleGetSgtin(frame)
  BY <1>5 DEF HandleGetSgtin
<1>6. CASE HandleGetBidCosRfAddress(frame)
  BY <1>6 DEF HandleGetBidCosRfAddress
<1>7. CASE HandleLegacy(frame)
  BY <1>7 DEF HandleLegacy, Store
<1> QED BY <1>0, <1>1, <1>2, <1>3, <1>4, <1>5, <1>6, <1>7 DEF HandleFrame

(* A sequence of one frame.                                                *)
LEMMA OneFrame ==
  ASSUME NEW E, NEW e \in E, NEW S
  PROVE  <<e>> \in Seq(E) /\ Len(<<e>>) = 1 /\ (Without(<<e>>, S) <=> e \notin S)
<1>1. <<e>> \in Seq(E) /\ Len(<<e>>) = 1 /\ <<e>>[1] = e
  OBVIOUS
<1> QED BY <1>1 DEF Without

(* Types is inductive.                                                     *)
LEMMA TypesStep ==
  ASSUME Types, [Next]_vars
  PROVE  Types'
<1>0. kind' = kind /\ Sent' = Sent
  BY KindStays
<1>1. CASE Main
  <2>1. requests' \in Seq(Requests)
    <3>1. requests' = requests \/ \E request \in Asks \cup Queries : requests' = Append(requests, request)
      BY <1>1, MainSends
    <3>2. Asks \cup Queries \subseteq Requests
      BY DEF Requests
    <3> QED BY <3>1, <3>2, AppendProperties DEF Types
  <2>2. detectState' \in States
    BY <1>1, MainShares DEF Types, States
  <2> QED BY <1>0, <1>1, <2>1, <2>2, MainMoves, MainSends DEF Types
<1>2. CASE ReadFrame
  <2>1. answers # <<>> /\ answers \in Seq(Sent)
    BY <1>2 DEF ReadFrame, Types
  <2>2. answers' \in Seq(Sent) /\ Head(answers) \in Sent
    BY <1>2, <2>1, HeadTailProperties DEF ReadFrame
  <2>3. reading' \in Seq(Sent) /\ Len(reading') <= 1
    <3>1. CASE handler
      BY <1>2, <2>2, <3>1, OneFrame DEF ReadFrame
    <3>2. CASE ~handler
      BY <1>2, <3>2, EmptySeq DEF ReadFrame
    <3> QED BY <3>1, <3>2
  <2> QED BY <1>0, <1>2, <2>2, <2>3 DEF ReadFrame, Types, shared_vars, main_vars, module_vars
<1>3. CASE HandleFrame
  <2>1. requests' \in Seq(Requests)
    <3>1. StartRequests \subseteq Requests
      BY DEF Requests
    <3> QED BY <1>3, <3>1, HandleFrameSends, AppendProperties DEF Types
  <2>2. reading' = <<>> /\ reading' \in Seq(Sent) /\ Len(reading') <= 1
    BY <1>3, EmptySeq DEF HandleFrame
  <2> QED BY <1>0, <1>3, <2>1, <2>2, HandleFrameMoves DEF HandleFrame, Types, main_vars, module_vars
<1>4. CASE ModuleAnswers
  <2>1. requests' \in Seq(Requests)
    BY <1>4, AnswersStep, HeadTailProperties DEF Types
  <2>2. answers' \in Seq(Sent)
    <3>1. /\ Acks \subseteq Sent /\ Results \subseteq Sent /\ Starteds \subseteq Sent
          /\ Events \subseteq Sent /\ answers \in Seq(Sent)
      BY DEF Sent, Types
    <3>2. \A frame \in Sent, seq \in Seq(Sent) : Append(seq, frame) \in Seq(Sent)
      BY AppendProperties
    <3> QED BY <1>4, <3>1, <3>2, AnswersStep
  <2>3. mode' \in {"bl", "app"}
    BY <1>4, AnswersStep
  <2> QED BY <1>0, <1>4, <2>1, <2>2, <2>3 DEF ModuleAnswers, Types, shared_vars, main_vars
<1>5. CASE LoseFrame
  <2>1. requests' \in Seq(Requests) /\ answers' \in Seq(Sent)
    BY <1>5, HeadTailProperties DEF LoseFrame, Types
  <2> QED BY <1>0, <1>5, <2>1 DEF LoseFrame, Types, shared_vars, main_vars, module_vars
<1>6. CASE UNCHANGED vars
  BY <1>0, <1>6 DEF vars, Types, shared_vars, main_vars, module_vars, link_vars
<1> QED BY <1>1, <1>2, <1>3, <1>4, <1>5, <1>6 DEF Next, Done

-----------------------------------------------------------------------------
(* The frame that handleFrame() takes is what the state waits for: the     *)
(* name of a program that the radio module has, or the answer itself.  An  *)
(* identification that looks like the answer to GET_SGTIN or to            *)
(* LEGACY_GET_SERIAL, by its length and status, cannot be there any more.  *)
LEMMA TakenFrame ==
  ASSUME Types, Order, reading # <<>>, Takes(Head(reading))
  PROVE  LET frame == Head(reading)
         IN /\ detectState \in Starting => frame.content \in {kind.bl, kind.app} \ {Nothing}
            /\ detectState \notin Starting =>
                 /\ frame \in Results /\ detectState \in DOMAIN Awaited
                 /\ <<frame.dst, frame.len, frame.status>> \in Awaited[detectState]
<1> DEFINE frame == Head(reading)
<1>1. /\ frame \in Sent /\ (Without(reading, Acks) <=> frame \notin Acks)
      /\ kind \in Kinds
  BY ReadingIsOne DEF Types
<1>2. {kind.bl, kind.app} \ {Nothing} \subseteq DOMAIN Names
  BY <1>1, Programs
<1>3. CASE detectState \in Starting
  <2>1. PICK name \in DOMAIN Names : Identifies(frame, name)
    BY <1>3, RequestTable, AwaitedTable DEF Takes, Starting
  <2>2. /\ frame.content = name /\ frame.dst \in {"COMMON", "HMSYSTEM"}
        /\ frame.cmd = "ACK" => frame.len \in 10..14
        /\ name \in {"HMIP_TRX_Bl", "HMIP_TRX_App", "DualCoPro_App", "Co_CPU_BL", "Co_CPU_App"}
        /\ frame.cmd \in {"ACK", "EVENT"}
    <3>1. \/ frame = IdentifyAck(name) \/ frame = IdentifyEvent(name)
      BY <2>1 DEF Identifies
    <3>2. IdentifyEvent(name).cmd = "EVENT" /\ IdentifyAck(name).cmd = "ACK"
      BY IdentifyFields
    <3> QED BY <3>1, <3>2, IdentifyFields, NamesTable
  <2>3. frame \notin Results /\ frame \notin Starteds
    BY <2>2, ResultFields
  <2>4. frame \in Acks \cup Events
    BY <1>1, <2>3 DEF Sent
  <2>5. PICK other \in {kind.bl, kind.app} \ {Nothing} :
          frame = IdentifyAck(other) \/ frame = IdentifyEvent(other)
    BY <2>4 DEF Acks, Events
  <2>6. frame.content = other
    BY <1>2, <2>5, IdentifyFields
  <2> QED BY <1>3, <2>5, <2>6
<1>4. CASE detectState \notin Starting
  <2>1. /\ detectState \in DOMAIN Awaited /\ frame.cmd = "ACK"
        /\ <<frame.dst, frame.len, frame.status>> \in Awaited[detectState]
    BY <1>4 DEF Takes, Starting
  <2>2. \/ frame.dst \notin {"COMMON", "HMSYSTEM"}
        \/ detectState = "GET_SGTIN" /\ frame.len = 13
        \/ detectState = "LEGACY_GET_VERSION" /\ frame.len = 7
        \/ detectState = "LEGACY_GET_SERIAL" /\ frame.len = 11
    <3>1. detectState \in States \ (Starting \cup {"FINISHED"})
      BY <2>1, RequestTable, AwaitedTable
    <3> QED BY <2>1, <3>1, AwaitedTable DEF States, Starting, Legacy, Past
  <2>3. \A ack \in Acks : ack.dst \in {"COMMON", "HMSYSTEM"} /\ ack.len \in 10..14
    BY <1>2, IdentifyFields DEF Acks
  <2>4. detectState \in {"GET_SGTIN", "LEGACY_GET_SERIAL"} => frame \notin Acks
    BY <1>1 DEF Order, Past
  <2>5. frame \notin Acks
    BY <2>2, <2>3, <2>4
  <2>6. frame \notin Events
    BY <1>2, <2>1, IdentifyFields DEF Events
  <2>7. \A started \in Starteds : started.dst \in {"COMMON", "HMSYSTEM"} /\ started.len = 1
    BY FrameFields DEF Starteds
  <2>8. frame \notin Starteds
    BY <2>2, <2>7
  <2> QED BY <1>1, <1>4, <2>1, <2>5, <2>6, <2>8 DEF Sent
<1> QED BY <1>3, <1>4

(* What the answers say.                                                   *)
LEMMA ResultContents ==
  ASSUME NEW frame \in Results, NEW state \in DOMAIN Awaited,
         <<frame.dst, frame.len, frame.status>> \in Awaited[state]
  PROVE  /\ state = "GET_MCU_TYPE" => frame.content = kind.type
         /\ state \in {"GET_VERSION", "LEGACY_GET_VERSION"} => frame.content = kind.version
         /\ state = "GET_HMIP_RF_ADDRESS" => frame.content = "HMIP_ADDRESS"
         /\ state = "GET_SGTIN" => frame.content = "SGTIN"
         /\ state = "GET_BIDCOS_RF_ADDRESS" =>
              (frame.content = "ADDRESS" <=> kind.address = "ADDRESS")
         /\ state \in {"GET_SERIAL", "LEGACY_GET_SERIAL"} => frame.content = "SERIAL"
         /\ state = "LEGACY_GET_BIDCOS_RF_ADDRESS" => frame.content = "ADDRESS"
<1>1. \/ /\ frame.dst = "TRX" /\ frame.len = 2 /\ frame.content = kind.type
      \/ /\ frame.dst = "TRX" /\ frame.len = 10 /\ frame.content = kind.version
      \/ /\ frame.dst = "HMIP" /\ frame.content = "HMIP_ADDRESS"
      \/ /\ frame.dst = "COMMON" /\ frame.content = "SGTIN"
      \/ /\ frame.dst = "LLMAC" /\ frame.len = 11 /\ frame.content = "SERIAL"
      \/ /\ frame.dst = "HMSYSTEM" /\ frame.len = 7 /\ frame.content = kind.version
      \/ /\ frame.dst = "TRX" /\ frame.len = 6 /\ frame.content = "ADDRESS"
      \/ /\ frame.dst = "HMSYSTEM" /\ frame.len = 11 /\ frame.content = "SERIAL"
      \/ /\ frame.dst = "LLMAC" /\ frame.len = 1 /\ frame.content = Nothing
         /\ kind.address = "REFUSED"
      \/ /\ frame.dst = "LLMAC" /\ frame.len = 4 /\ frame.content = kind.address
  BY FrameFields DEF Results
<1>2. /\ state = "GET_MCU_TYPE" => frame.dst = "TRX" /\ frame.len = 2
      /\ state = "GET_VERSION" => frame.dst = "TRX" /\ frame.len = 10
      /\ state = "GET_HMIP_RF_ADDRESS" => frame.dst = "HMIP"
      /\ state = "GET_SGTIN" => frame.dst = "COMMON"
      /\ state = "GET_BIDCOS_RF_ADDRESS" => frame.dst = "LLMAC" /\ frame.len \in {4, 1}
      /\ state = "GET_SERIAL" => frame.dst = "LLMAC" /\ frame.len = 11
      /\ state = "LEGACY_GET_VERSION" => frame.dst = "HMSYSTEM" /\ frame.len = 7
      /\ state = "LEGACY_GET_BIDCOS_RF_ADDRESS" => frame.dst = "TRX" /\ frame.len = 6
      /\ state = "LEGACY_GET_SERIAL" => frame.dst = "HMSYSTEM" /\ frame.len = 11
  BY AwaitedTable
<1> QED BY <1>1, <1>2 DEF Nothing

-----------------------------------------------------------------------------
(* Order is inductive: the main thread stops asking who is there before it *)
(* asks for anything else, and neither direction of the link reorders.     *)
LEMMA OrderStep ==
  ASSUME Types, Order, [Next]_vars
  PROVE  Order'
<1>0. /\ kind \in Kinds /\ Acks' = Acks /\ Results' = Results
      /\ requests \in Seq(Requests) /\ answers \in Seq(Sent)
      /\ reading \in Seq(Sent) /\ Len(reading) <= 1
      /\ Acks \subseteq Sent /\ Results \subseteq Sent /\ Starteds \subseteq Sent /\ Events \subseteq Sent
  BY KindStays DEF Types, Sent
<1>a. /\ \A request \in Asks : request \notin Queries
      /\ \A request \in Queries : request \notin Asks
      /\ \A request \in StartRequests : request \notin Queries /\ request \notin Asks
  BY DEF Asks, Queries, StartRequests
<1>c. /\ NotBehind(requests, Queries, Asks) /\ NotBehind(answers, Results, Acks)
      /\ Asks \subseteq Requests /\ Queries \subseteq Requests /\ StartRequests \subseteq Requests
  BY DEF Order, Requests
<1>b. \A pcs \in Asking \cup Ending : pcs \notin Searching
  BY DEF Asking, Ending, Searching
<1>1. CASE Main
  <2>1. answers' = answers /\ reading' = reading
    BY <1>1, MainSends
  <2>2. /\ detectState' \in Past => detectState \in Past
        /\ pc' \in Searching => pc \in Searching
    <3>1. "FINISHED" \notin Past /\ "switch" \notin Searching
      BY DEF Past, Searching
    <3>2. pc \in Asking \/ pc \in Ending => pc' \in Asking \cup Ending
      BY <1>1, MainMoves
    <3>3. pc \in Searching \cup Asking \cup Ending
      BY DEF Types
    <3> QED BY <1>1, <1>b, <3>1, <3>2, <3>3, MainShares
  <2>3. CASE requests' = requests
    BY <1>0, <2>1, <2>2, <2>3 DEF Order
  <2>4. CASE pc \in Searching /\ \E request \in Asks : requests' = Append(requests, request)
    <3>1. PICK request \in Asks : requests' = Append(requests, request)
      BY <2>4
    <3>2. Without(requests, Queries) /\ Without(answers, Results) /\ Without(reading, Results) /\ detectState \notin Past
      BY <2>4 DEF Order
    <3>3. Without(requests', Queries) /\ NotBehind(requests', Queries, Asks)
      BY <1>0, <1>a, <1>c, <3>1, <3>2, AppendKeeps
    <3> QED BY <1>0, <2>1, <2>2, <3>2, <3>3 DEF Order
  <2>5. CASE /\ pc = "switch" /\ pc' = "wait"
             /\ \E request \in Queries : requests' = Append(requests, request)
    <3>1. PICK request \in Queries : requests' = Append(requests, request)
      BY <2>5
    <3>2. pc' \notin Searching
      BY <2>5 DEF Searching
    <3>3. NotBehind(requests', Queries, Asks) /\ (Without(requests, Asks) => Without(requests', Asks))
      BY <1>0, <1>a, <1>c, <3>1, AppendKeeps
    <3> QED BY <1>0, <2>1, <2>2, <3>2, <3>3 DEF Order
  <2> QED BY <1>1, <2>3, <2>4, <2>5, MainSends
<1>2. CASE ReadFrame
  <2>1. /\ pc' = pc /\ detectState' = detectState /\ requests' = requests
        /\ reading = <<>> /\ answers # <<>> /\ answers' = Tail(answers)
        /\ reading' = <<Head(answers)>> \/ reading' = <<>>
    BY <1>2 DEF ReadFrame, shared_vars, main_vars
  <2>2. /\ \A S : Without(answers, S) => Without(answers', S) /\ Head(answers) \notin S
        /\ NotBehind(answers', Results, Acks)
        /\ Head(answers) \in Results => Without(answers', Acks)
        /\ Head(answers) \in Sent
    BY <1>0, <2>1, TailKeeps DEF Order
  <2>3. /\ \A S : Without(answers, S) => Without(reading', S)
        /\ ~Without(reading', Results) => Head(answers) \in Results
    <3>1. CASE reading' = <<Head(answers)>>
      <4>1. \A S : Without(reading', S) <=> Head(answers) \notin S
        BY <2>2, <3>1, OneFrame
      <4> QED BY <2>2, <4>1
    <3>2. CASE reading' = <<>>
      <4>1. \A S : Without(reading', S)
        BY <3>2 DEF Without
      <4> QED BY <4>1
    <3> QED BY <2>1, <3>1, <3>2
  <2> QED BY <1>0, <2>1, <2>2, <2>3 DEF Order
<1>3. CASE HandleFrame
  <2>1. pc' = pc /\ answers' = answers /\ reading # <<>> /\ reading' = <<>>
    BY <1>3 DEF HandleFrame, main_vars
  <2>2. \A S : Without(reading', S)
    BY <1>0, <2>1, ReadingIsOne
  <2>3. /\ NotBehind(requests', Queries, Asks)
        /\ Without(requests, Asks) => Without(requests', Asks)
        /\ Without(requests, Queries) => Without(requests', Queries)
    <3>1. CASE requests' = requests
      BY <3>1 DEF Order
    <3>2. CASE \E request \in StartRequests : requests' = Append(requests, request)
      BY <1>0, <1>a, <1>c, <3>2, AppendKeeps
    <3> QED BY <1>3, <3>1, <3>2, HandleFrameSends
  <2>4. detectState' \in Past =>
          /\ Without(requests, Asks) /\ Without(answers, Acks)
          /\ pc \notin Searching
    <3>1. CASE detectState \in Past
      BY <3>1 DEF Order
    <3>2. CASE detectState \notin Past /\ detectState' \in Past
      <4>1. detectState \in {"GET_MCU_TYPE", "LEGACY_GET_VERSION"}
        BY <1>3, <3>2, HandleFrameMoves
      <4>2. Takes(Head(reading))
        BY <1>3, <3>2 DEF HandleFrame, shared_vars
      <4>3. Head(reading) \in Results
        BY <2>1, <4>1, <4>2, TakenFrame DEF Starting
      <4>4. ~Without(reading, Results)
        BY <1>0, <2>1, <4>3, ReadingIsOne
      <4> QED BY <4>4 DEF Order
    <3> QED BY <3>1, <3>2
  <2> QED BY <1>0, <2>1, <2>2, <2>3, <2>4 DEF Order
<1>4. CASE ModuleAnswers
  <2>1. pc' = pc /\ detectState' = detectState /\ reading' = reading
    BY <1>4 DEF ModuleAnswers, shared_vars, main_vars
  <2>2. /\ requests # <<>> /\ requests' = Tail(requests)
        /\ NotBehind(requests', Queries, Asks)
        /\ \A S : Without(requests, S) => Without(requests', S) /\ Head(requests) \notin S
        /\ Head(requests) \in Queries => Without(requests', Asks)
    <3>1. requests # <<>> /\ requests' = Tail(requests)
      BY <1>4, AnswersStep
    <3>2. NotBehind(requests', Queries, Asks) /\ (Head(requests) \in Queries => Without(requests', Asks))
      BY <1>0, <1>c, <3>1, TailKeeps
    <3>3. \A S : Without(requests, S) => Without(requests', S) /\ Head(requests) \notin S
      BY <1>0, <3>1, TailKeeps
    <3> QED BY <3>1, <3>2, <3>3
  <2>3. CASE answers' = answers
    BY <1>0, <2>1, <2>2, <2>3 DEF Order
  <2>4. CASE Head(requests) \in Asks /\ \E frame \in Acks : answers' = Append(answers, frame)
    <3>1. PICK frame \in Acks : answers' = Append(answers, frame)
      BY <2>4
    <3>2. ~Without(requests, Asks)
      BY <2>2, <2>4
    <3>3. Without(answers, Results) /\ Without(reading, Results) /\ detectState \notin Past
      BY <3>2 DEF Order
    <3>4. Without(answers', Results) /\ NotBehind(answers', Results, Acks)
      BY <1>0, <3>1, <3>3, AcksAreNoResults, AppendKeeps DEF Order
    <3> QED BY <1>0, <2>1, <2>2, <3>3, <3>4 DEF Order
  <2>5. CASE Head(requests) \in Queries /\ \E frame \in Results : answers' = Append(answers, frame)
    <3>1. PICK frame \in Results : answers' = Append(answers, frame)
      BY <2>5
    <3>2. Without(requests', Asks) /\ ~Without(requests, Queries)
      BY <2>2, <2>5
    <3>3. pc \notin Searching
      BY <3>2 DEF Order
    <3>4. NotBehind(answers', Results, Acks) /\ (Without(answers, Acks) => Without(answers', Acks))
      BY <1>0, <3>1, AcksAreNoResults, AppendKeeps DEF Order
    <3> QED BY <1>0, <2>1, <3>2, <3>3, <3>4, <2>2 DEF Order
  <2>6. CASE /\ Head(requests) \in StartRequests
             /\ \E frame \in Starteds :
                  \/ answers' = Append(answers, frame)
                  \/ \E event \in Events : answers' = Append(Append(answers, frame), event)
    <3>1. PICK frame \in Starteds :
            \/ answers' = Append(answers, frame)
            \/ \E event \in Events : answers' = Append(Append(answers, frame), event)
      BY <2>6
    <3>2. /\ Append(answers, frame) \in Seq(Sent)
          /\ NotBehind(Append(answers, frame), Results, Acks)
          /\ Without(answers, Acks) => Without(Append(answers, frame), Acks)
          /\ Without(answers, Results) => Without(Append(answers, frame), Results)
      BY <1>0, AcksAreNoResults, AppendKeeps DEF Order
    <3>3. \A event \in Events :
            /\ NotBehind(Append(Append(answers, frame), event), Results, Acks)
            /\ Without(answers, Acks) => Without(Append(Append(answers, frame), event), Acks)
            /\ Without(answers, Results) => Without(Append(Append(answers, frame), event), Results)
      BY <1>0, <3>2, AcksAreNoResults, AppendKeeps
    <3>4. /\ NotBehind(answers', Results, Acks)
          /\ Without(answers, Acks) => Without(answers', Acks)
          /\ Without(answers, Results) => Without(answers', Results)
      BY <3>1, <3>2, <3>3
    <3> QED BY <1>0, <2>1, <2>2, <3>4 DEF Order
  <2> QED BY <1>4, <2>3, <2>4, <2>5, <2>6, AnswersStep
<1>5. CASE LoseFrame
  <2>1. pc' = pc /\ detectState' = detectState /\ reading' = reading
    BY <1>5 DEF LoseFrame, shared_vars, main_vars
  <2>2. /\ NotBehind(requests', Queries, Asks) /\ NotBehind(answers', Results, Acks)
        /\ \A S : Without(requests, S) => Without(requests', S)
        /\ \A S : Without(answers, S) => Without(answers', S)
    <3>1. /\ requests' = requests \/ (requests # <<>> /\ requests' = Tail(requests))
          /\ answers' = answers \/ (answers # <<>> /\ answers' = Tail(answers))
      BY <1>5 DEF LoseFrame
    <3>2. NotBehind(requests', Queries, Asks) /\ \A S : Without(requests, S) => Without(requests', S)
      <4>1. CASE requests' = requests
        BY <1>c, <4>1
      <4>2. CASE requests # <<>> /\ requests' = Tail(requests)
        <5>1. NotBehind(requests', Queries, Asks)
          BY <1>0, <1>c, <4>2, TailKeeps
        <5>2. \A S : Without(requests, S) => Without(requests', S)
          BY <1>0, <4>2, TailKeeps
        <5> QED BY <5>1, <5>2
      <4> QED BY <3>1, <4>1, <4>2
    <3>3. NotBehind(answers', Results, Acks) /\ \A S : Without(answers, S) => Without(answers', S)
      <4>1. CASE answers' = answers
        BY <1>c, <4>1
      <4>2. CASE answers # <<>> /\ answers' = Tail(answers)
        <5>1. NotBehind(answers', Results, Acks)
          BY <1>0, <1>c, <4>2, TailKeeps
        <5>2. \A S : Without(answers, S) => Without(answers', S)
          BY <1>0, <4>2, TailKeeps
        <5> QED BY <5>1, <5>2
      <4> QED BY <3>1, <4>1, <4>2
    <3> QED BY <3>2, <3>3
  <2> QED BY <1>0, <2>1, <2>2 DEF Order
<1>6. CASE UNCHANGED vars
  BY <1>0, <1>6 DEF vars, Order, shared_vars, main_vars, link_vars
<1> QED BY <1>1, <1>2, <1>3, <1>4, <1>5, <1>6 DEF Next, Done

-----------------------------------------------------------------------------
(* Whatever is known of a supported radio module is true, in every state.  *)
LEMMA FactsPartly ==
  ASSUME Types, Facts, radioModuleType \in Supported
  PROVE  radioModuleType = kind.type /\ Partly
<1> USE DEF Types, Supported
<1>0. /\ detectState \in States
      /\ kind.app = "Co_CPU_App" => kind.type = "HM_MOD_RPI_PCB" /\ kind.address = "ADDRESS"
      /\ kind.type = "HM_MOD_RPI_PCB" => ~Own /\ ~Old
  BY KindsAssumption DEF Own, Old
<1>1. CASE detectState \in Starting \cup {"GET_MCU_TYPE"}
  BY <1>1 DEF Facts
<1>2. CASE detectState \in Past \ Legacy
  <2>1. radioModuleType = kind.type /\ kind.app # "Co_CPU_App"
    BY <1>2 DEF Facts
  <2>2. detectState \in {"GET_VERSION", "GET_HMIP_RF_ADDRESS", "GET_SGTIN",
                         "GET_BIDCOS_RF_ADDRESS", "GET_SERIAL"}
    BY <1>2 DEF Past, Legacy
  <2>3. CASE detectState = "GET_VERSION"
    BY <2>1, <2>3 DEF Facts, Partly
  <2>4. CASE detectState = "GET_HMIP_RF_ADDRESS"
    BY <2>1, <2>4 DEF Facts, Partly
  <2>5. CASE detectState = "GET_SGTIN"
    BY <2>1, <2>5 DEF Facts, Partly
  <2>6. CASE detectState = "GET_BIDCOS_RF_ADDRESS"
    <3>1. CASE Own
      <4>1. Known(kind.version, "HMIP_ADDRESS", "SGTIN", "SGTIN", "SGTIN")
        BY <2>6, <3>1 DEF Facts
      <4> QED BY <2>1, <3>1, <4>1 DEF Partly
    <3>2. CASE ~Own
      <4>1. Known(kind.version, "HMIP_ADDRESS", "SGTIN", Nothing, Nothing)
        BY <2>6, <3>2 DEF Facts
      <4> QED BY <2>1, <3>2, <4>1 DEF Partly
    <3> QED BY <3>1, <3>2
  <2>7. CASE detectState = "GET_SERIAL"
    <3>1. Known(kind.version, "HMIP_ADDRESS", "SGTIN", Address, Nothing)
      BY <2>7 DEF Facts
    <3> QED BY <2>1, <3>1 DEF Partly
  <2> QED BY <2>2, <2>3, <2>4, <2>5, <2>6, <2>7
<1>3. CASE detectState \in Legacy
  <2>1. kind.app = "Co_CPU_App" /\ radioModuleType = kind.type
    BY <1>0, <1>3 DEF Facts
  <2>2. Address = "ADDRESS"
    BY <1>0, <2>1 DEF Address
  <2>3. detectState \in {"LEGACY_GET_VERSION", "LEGACY_GET_BIDCOS_RF_ADDRESS", "LEGACY_GET_SERIAL"}
    BY <1>3 DEF Legacy
  <2>4. CASE detectState = "LEGACY_GET_VERSION"
    BY <2>1, <2>4 DEF Facts, Partly
  <2>5. CASE detectState = "LEGACY_GET_BIDCOS_RF_ADDRESS"
    BY <2>1, <2>5 DEF Facts, Partly
  <2>6. CASE detectState = "LEGACY_GET_SERIAL"
    <3>1. Known(kind.version, "0", "n/a", Address, Nothing)
      BY <2>2, <2>6 DEF Facts
    <3> QED BY <2>1, <3>1 DEF Partly
  <2> QED BY <2>3, <2>4, <2>5, <2>6
<1>4. CASE detectState = "FINISHED"
  <2>1. radioModuleType = kind.type /\ (gaveUp => Partly) /\ (~gaveUp => Fully)
    BY <1>4 DEF Facts
  <2>2. ASSUME Fully PROVE Partly
    <3>1. CASE kind.app = "Co_CPU_App"
      <4>1. Address = "ADDRESS" /\ ~Own
        BY <1>0, <3>1 DEF Address
      <4>2. Known(kind.version, "0", "n/a", Address, "SERIAL")
        BY <2>2, <3>1, <4>1 DEF Fully
      <4> QED BY <3>1, <4>1, <4>2 DEF Partly
    <3>2. CASE kind.app # "Co_CPU_App"
      <4>1. CASE Own
        <5>1. Known(kind.version, "HMIP_ADDRESS", "SGTIN", Address, "SGTIN")
          BY <2>2, <3>2, <4>1 DEF Fully
        <5> QED BY <3>2, <4>1, <5>1 DEF Partly
      <4>2. CASE ~Own
        <5>1. Known(kind.version, "HMIP_ADDRESS", "SGTIN", Address, "SERIAL")
          BY <2>2, <3>2, <4>2 DEF Fully
        <5> QED BY <3>2, <4>2, <5>1 DEF Partly
      <4> QED BY <4>1, <4>2
    <3> QED BY <3>1, <3>2
  <2> QED BY <2>1, <2>2
<1> QED BY <1>0, <1>1, <1>2, <1>3, <1>4 DEF States, Legacy, Past

(* When nobody gave up, everything is known of it at the end.              *)
LEMMA FactsReport ==
  ASSUME Types, Facts, Outcome
  PROVE  ReportIsTrue
<1>1. CASE pc = "reported"
  <2> DEFINE legacy == kind.app = "Co_CPU_App"
             truth == [version |-> kind.version,
                       hmIP |-> IF legacy THEN "0" ELSE "HMIP_ADDRESS",
                       sgtin |-> IF legacy THEN "n/a" ELSE "SGTIN",
                       bidCos |-> Address, serial |-> IF Own THEN "SGTIN" ELSE "SERIAL"]
  <2>1. radioModuleType \in Supported /\ (gaveUp \/ detectState = "FINISHED")
    BY <1>1 DEF Outcome, Ending
  <2>2. radioModuleType = kind.type /\ Partly
    BY <2>1, FactsPartly
  <2>3. \A field \in DOMAIN Blank :
          \/ data[field] = truth[field]
          \/ gaveUp /\ data[field] = Nothing
          \/ gaveUp /\ field = "bidCos" /\ Own /\ data[field] = "SGTIN"
    <3>0. DOMAIN Blank = {"version", "hmIP", "sgtin", "bidCos", "serial"}
      BY DEF Blank
    <3>1. CASE gaveUp
      <4>1. PICK version \in {Nothing, kind.version},
                 hmIP \in {Nothing, IF legacy THEN "0" ELSE "HMIP_ADDRESS"},
                 sgtin \in {Nothing, IF legacy THEN "n/a" ELSE "SGTIN"},
                 bidCos \in {Nothing, Address} \cup (IF Own THEN {"SGTIN"} ELSE {}),
                 serial \in {Nothing, IF Own THEN "SGTIN" ELSE "SERIAL"} :
              Known(version, hmIP, sgtin, bidCos, serial)
        BY <2>2 DEF Partly
      <4>2. /\ data["version"] = version /\ data["hmIP"] = hmIP /\ data["sgtin"] = sgtin
            /\ data["bidCos"] = bidCos /\ data["serial"] = serial
        BY <4>1 DEF Known
      <4>3. /\ truth["version"] = kind.version
            /\ truth["hmIP"] = IF legacy THEN "0" ELSE "HMIP_ADDRESS"
            /\ truth["sgtin"] = IF legacy THEN "n/a" ELSE "SGTIN"
            /\ truth["bidCos"] = Address /\ truth["serial"] = IF Own THEN "SGTIN" ELSE "SERIAL"
        OBVIOUS
      <4> QED BY <3>0, <3>1, <4>1, <4>2, <4>3
    <3>2. CASE ~gaveUp
      <4>1. Fully
        BY <2>1, <3>2 DEF Facts
      <4>2. legacy => ~Own /\ Address = "ADDRESS"
        BY KindsAssumption DEF Types, Own, Old, Address
      <4>3. /\ data["version"] = kind.version
            /\ data["hmIP"] = IF legacy THEN "0" ELSE "HMIP_ADDRESS"
            /\ data["sgtin"] = IF legacy THEN "n/a" ELSE "SGTIN"
            /\ data["bidCos"] = Address /\ data["serial"] = IF Own THEN "SGTIN" ELSE "SERIAL"
        BY <4>1, <4>2 DEF Fully, Known
      <4> QED BY <3>0, <4>3
    <3> QED BY <3>1, <3>2
  <2> QED BY <2>2, <2>3 DEF ReportIsTrue, Address, Own, Old
<1> QED BY <1>1 DEF ReportIsTrue

-----------------------------------------------------------------------------
(* Facts holds when the fields it speaks about stay.                       *)
LEMMA FactsStays ==
  ASSUME Types, Facts, kind' = kind, Own' = Own, Old' = Old, Address' = Address,
         detectState' = detectState, radioModuleType' = radioModuleType, data' = data, gaveUp' = gaveUp
  PROVE  Facts'
<1>1. \A v, h, s, b, n : Known(v, h, s, b, n)' <=> Known(v, h, s, b, n)
  BY DEF Known
<1>2. Partly' = Partly /\ Fully' = Fully
  BY DEF Partly, Fully, Known
<1> QED BY <1>1, <1>2 DEF Facts

(* A step of the main thread keeps Facts: Clear comes before any answer,   *)
(* and Switch ends the search in whatever state the reader thread left.    *)
LEMMA FactsMain ==
  ASSUME Types, Order, Facts, Outcome, Main, kind' = kind, Own' = Own, Old' = Old, Address' = Address
  PROVE  Facts'
<1>1. CASE detectState' = detectState /\ radioModuleType' = radioModuleType
  <2>1. data' = data
    BY MainShares
  <2>2. CASE gaveUp' = gaveUp
    BY <1>1, <2>1, <2>2, FactsStays
  <2>3. CASE gaveUp' # gaveUp
    <3>1. gaveUp' \in BOOLEAN /\ gaveUp \in BOOLEAN /\ (gaveUp => gaveUp')
      BY MainMoves DEF Types
    <3>2. gaveUp' /\ ~gaveUp
      BY <2>3, <3>1
    <3>3. \A v, h, s, b, n : Known(v, h, s, b, n)' <=> Known(v, h, s, b, n)
      BY <2>1 DEF Known
    <3>4. Partly' = Partly
      BY <2>1 DEF Partly, Known
    <3>5. radioModuleType \in Supported => radioModuleType = kind.type /\ Partly
      BY FactsPartly
    <3> QED BY <1>1, <3>2, <3>3, <3>4, <3>5 DEF Facts
  <2> QED BY <2>2, <2>3
<1>2. CASE detectState' = detectState /\ radioModuleType' = "NONE" /\ pc = "clear"
  <2>1. detectState \notin Past /\ data' = data
    BY <1>2, MainShares DEF Order, Searching
  <2>2. \A v, h, s, b, n : Known(v, h, s, b, n)' <=> Known(v, h, s, b, n)
    BY <2>1 DEF Known
  <2>3. /\ "NONE" \notin Supported
        /\ {"GET_VERSION", "GET_HMIP_RF_ADDRESS", "GET_SGTIN", "GET_BIDCOS_RF_ADDRESS", "GET_SERIAL",
            "LEGACY_GET_BIDCOS_RF_ADDRESS", "LEGACY_GET_SERIAL"} \subseteq Past
    BY DEF Supported, Past
  <2> QED BY <1>2, <2>1, <2>2, <2>3 DEF Facts
<1>3. CASE detectState' = "FINISHED" /\ radioModuleType' = radioModuleType /\ gaveUp'
  <2>1. data' = data
    BY MainShares
  <2>2. Partly' = Partly
    BY <2>1 DEF Partly, Known
  <2>3. radioModuleType \in Supported => radioModuleType = kind.type /\ Partly
    BY FactsPartly
  <2> QED BY <1>3, <2>2, <2>3 DEF Facts, Starting, Past, Legacy
<1> QED BY <1>1, <1>2, <1>3, MainShares

(* handleFrame() keeps Facts: each answer adds what it says.               *)
LEMMA FactsHandle ==
  ASSUME Types, Order, Facts, reading # <<>>, Takes(Head(reading)),
         kind' = kind, Own' = Own, Old' = Old, Address' = Address, gaveUp' = gaveUp,
         NEW frame, frame = Head(reading),
         \/ HandleStartBl(frame) \/ HandleStartApp(frame) \/ HandleGetMcuType(frame)
         \/ HandleGetVersion(frame) \/ HandleGetHmIPRfAddress(frame)
         \/ HandleGetSgtin(frame) \/ HandleGetBidCosRfAddress(frame)
         \/ HandleGetSerial(frame) \/ HandleLegacy(frame)
  PROVE  Facts'
<1>0. /\ detectState \in Starting => frame.content \in {kind.bl, kind.app} \ {Nothing}
      /\ detectState \notin Starting =>
           /\ frame \in Results /\ detectState \in DOMAIN Awaited
           /\ <<frame.dst, frame.len, frame.status>> \in Awaited[detectState]
  BY TakenFrame
<1>a. /\ kind.bl \in {"HMIP_TRX_Bl", "Co_CPU_BL", Nothing} /\ kind \in Kinds
      /\ kind.app \in {"HMIP_TRX_App", "DualCoPro_App", "Co_CPU_App", Nothing}
      /\ kind.app = "Co_CPU_App" => kind.type = "HM_MOD_RPI_PCB" /\ kind.address = "ADDRESS"
  BY Programs, KindsAssumption DEF Types
<1>1. CASE HandleStartBl(frame)
  <2>1. detectState' \in Starting /\ radioModuleType' = "UNKNOWN" /\ data' = data
    BY <1>1 DEF HandleStartBl, Starting, Advance
  <2>2. Known(Nothing, Nothing, Nothing, Nothing, Nothing)'
    BY <1>1, <2>1 DEF HandleStartBl, Facts, Starting, Known
  <2> QED BY <2>1, <2>2 DEF Facts, Starting, Past, Legacy
<1>2. CASE HandleStartApp(frame)
  <2>1. /\ detectState = "START_APP" /\ radioModuleType \in {"NONE", "UNKNOWN"}
        /\ Known(Nothing, Nothing, Nothing, Nothing, Nothing)
        /\ frame.content \in {kind.bl, kind.app} \ {Nothing}
    BY <1>0, <1>2 DEF HandleStartApp, Facts, Starting
  <2>2. CASE frame.content \in {"HMIP_TRX_Bl", "Co_CPU_BL"}
    BY <1>2, <2>1, <2>2 DEF HandleStartApp, Facts, Starting, Past, Legacy, Known
  <2>3. CASE frame.content \in {"DualCoPro_App", "HMIP_TRX_App"}
    <3>1. kind.app \in {"DualCoPro_App", "HMIP_TRX_App"}
      BY <1>a, <2>1, <2>3
    <3>2. detectState' = "GET_MCU_TYPE" /\ radioModuleType' = radioModuleType /\ data' = data
      BY <1>2, <2>3 DEF HandleStartApp, Advance
    <3> QED BY <2>1, <3>1, <3>2 DEF Facts, Starting, Past, Legacy, Known
  <2>4. CASE frame.content = "Co_CPU_App"
    <3>1. kind.app = "Co_CPU_App"
      BY <1>a, <2>1, <2>4
    <3>2. /\ detectState' = "LEGACY_GET_VERSION" /\ radioModuleType' = "HM_MOD_RPI_PCB"
          /\ data' = [data EXCEPT !.sgtin = "n/a", !.hmIP = "0"]
      BY <1>2, <2>4 DEF HandleStartApp, Advance
    <3>3. Known(Nothing, "0", "n/a", Nothing, Nothing)'
      BY <2>1, <3>2 DEF Known
    <3> QED BY <3>1, <3>2, <3>3 DEF Facts, Starting, Past, Legacy
  <2> QED BY <1>2, <2>2, <2>3, <2>4 DEF HandleStartApp
<1>b. /\ detectState \notin Starting /\ detectState = "GET_MCU_TYPE" => frame.content = kind.type
      /\ detectState \notin Starting =>
           /\ detectState \in {"GET_VERSION", "LEGACY_GET_VERSION"} => frame.content = kind.version
           /\ detectState = "GET_HMIP_RF_ADDRESS" => frame.content = "HMIP_ADDRESS"
           /\ detectState = "GET_SGTIN" => frame.content = "SGTIN"
           /\ detectState = "GET_BIDCOS_RF_ADDRESS" =>
                (frame.content = "ADDRESS" <=> kind.address = "ADDRESS")
           /\ detectState \in {"GET_SERIAL", "LEGACY_GET_SERIAL"} => frame.content = "SERIAL"
           /\ detectState = "LEGACY_GET_BIDCOS_RF_ADDRESS" => frame.content = "ADDRESS"
  BY <1>0, ResultContents
<1>3. CASE HandleGetMcuType(frame)
  <2>1. /\ detectState = "GET_MCU_TYPE" /\ detectState' = "GET_VERSION"
        /\ radioModuleType' = kind.type /\ data' = data
    BY <1>3, <1>b DEF HandleGetMcuType, Advance, Starting
  <2>2. Known(Nothing, Nothing, Nothing, Nothing, Nothing)'
    BY <2>1 DEF Facts, Known
  <2> QED BY <2>1, <2>2 DEF Facts, Starting, Past, Legacy
<1>4. CASE HandleGetVersion(frame)
  <2>1. /\ detectState = "GET_VERSION" /\ detectState' = "GET_HMIP_RF_ADDRESS"
        /\ radioModuleType' = radioModuleType /\ data' = [data EXCEPT !["version"] = kind.version]
    BY <1>4, <1>b DEF HandleGetVersion, Store, Advance, Starting
  <2>2. Known(Nothing, Nothing, Nothing, Nothing, Nothing)
    BY <2>1 DEF Facts
  <2>3. Known(kind.version, Nothing, Nothing, Nothing, Nothing)'
    BY <2>1, <2>2 DEF Known
  <2> QED BY <2>1, <2>3 DEF Facts, Starting, Past, Legacy
<1>5. CASE HandleGetHmIPRfAddress(frame)
  <2>1. /\ detectState = "GET_HMIP_RF_ADDRESS" /\ detectState' = "GET_SGTIN"
        /\ radioModuleType' = radioModuleType /\ data' = [data EXCEPT !["hmIP"] = "HMIP_ADDRESS"]
    BY <1>5, <1>b DEF HandleGetHmIPRfAddress, Store, Advance, Starting
  <2>2. Known(kind.version, Nothing, Nothing, Nothing, Nothing)
    BY <2>1 DEF Facts
  <2>3. Known(kind.version, "HMIP_ADDRESS", Nothing, Nothing, Nothing)'
    BY <2>1, <2>2 DEF Known
  <2> QED BY <2>1, <2>3 DEF Facts, Starting, Past, Legacy
<1>6. CASE HandleGetSgtin(frame)
  <2>1. /\ detectState = "GET_SGTIN" /\ radioModuleType = kind.type
        /\ Known(kind.version, "HMIP_ADDRESS", Nothing, Nothing, Nothing)
        /\ frame.content = "SGTIN" /\ kind.app # "Co_CPU_App"
        /\ kind.app \in {"DualCoPro_App", "HMIP_TRX_App"}
    BY <1>6, <1>b DEF HandleGetSgtin, Facts, Starting, Past, Legacy
  <2>2. radioModuleType' = kind.type
    BY <1>6, <2>1 DEF HandleGetSgtin
  <2>3. data.version = kind.version
    BY <2>1 DEF Known
  <2>4. CASE Old
    <3>1. Own /\ Address = "0"
      BY <2>4 DEF Old, Own, Address
    <3>2. /\ detectState' = "FINISHED"
          /\ data' = [data EXCEPT !.sgtin = "SGTIN", !.serial = "SGTIN", !.bidCos = "0"]
      BY <1>6, <2>1, <2>3, <2>4 DEF HandleGetSgtin, Advance, Old
    <3>3. Known(kind.version, "HMIP_ADDRESS", "SGTIN", "0", "SGTIN")'
      BY <2>1, <3>2 DEF Known
    <3>4. Fully'
      BY <2>1, <3>1, <3>3 DEF Fully
    <3>5. Partly'
      BY <2>1, <3>1, <3>3 DEF Partly
    <3> QED BY <2>2, <3>2, <3>4, <3>5 DEF Facts, Starting, Past, Legacy
  <2>5. CASE ~Old /\ Own
    <3>1. /\ detectState' = "GET_BIDCOS_RF_ADDRESS"
          /\ data' = [data EXCEPT !.sgtin = "SGTIN", !.serial = "SGTIN", !.bidCos = "SGTIN"]
      BY <1>6, <2>1, <2>3, <2>5 DEF HandleGetSgtin, Advance, Old, Own
    <3>2. Known(kind.version, "HMIP_ADDRESS", "SGTIN", "SGTIN", "SGTIN")'
      BY <2>1, <3>1 DEF Known
    <3> QED BY <2>1, <2>2, <2>5, <3>1, <3>2 DEF Facts, Starting, Past, Legacy
  <2>6. CASE ~Own
    <3>1. ~Old
      BY <2>6 DEF Old, Own
    <3>2. /\ detectState' = "GET_BIDCOS_RF_ADDRESS"
          /\ data' = [data EXCEPT !.sgtin = "SGTIN", !.serial = @, !.bidCos = @]
      BY <1>6, <2>1, <2>3, <2>6, <3>1 DEF HandleGetSgtin, Advance, Old, Own
    <3>3. Known(kind.version, "HMIP_ADDRESS", "SGTIN", Nothing, Nothing)'
      BY <2>1, <3>2 DEF Known
    <3> QED BY <2>1, <2>2, <2>6, <3>1, <3>2, <3>3 DEF Facts, Starting, Past, Legacy
  <2> QED BY <2>4, <2>5, <2>6
<1>7. CASE HandleGetBidCosRfAddress(frame)
  <2>1. /\ detectState = "GET_BIDCOS_RF_ADDRESS" /\ radioModuleType = kind.type /\ ~Old
        /\ Known(kind.version, "HMIP_ADDRESS", "SGTIN", IF Own THEN "SGTIN" ELSE Nothing,
                 IF Own THEN "SGTIN" ELSE Nothing)
        /\ frame.content = "ADDRESS" <=> kind.address = "ADDRESS"
        /\ kind.app # "Co_CPU_App" /\ kind.app \in {"DualCoPro_App", "HMIP_TRX_App"}
    BY <1>7, <1>b DEF HandleGetBidCosRfAddress, Facts, Starting, Past, Legacy
  <2>2. Address = IF kind.address = "ADDRESS" THEN "ADDRESS" ELSE IF Own THEN "SGTIN" ELSE Nothing
    BY <2>1 DEF Address
  <2>3. Known(kind.version, "HMIP_ADDRESS", "SGTIN", Address, IF Own THEN "SGTIN" ELSE Nothing)'
    <3>1. data' = [data EXCEPT !.bidCos = IF frame.content = "ADDRESS" THEN "ADDRESS" ELSE @]
      BY <1>7 DEF HandleGetBidCosRfAddress
    <3> QED BY <2>1, <2>2, <3>1 DEF Known
  <2>4. /\ radioModuleType' = kind.type
        /\ \/ detectState' = "GET_SERIAL" /\ kind.type = "HM_MOD_RPI_PCB"
           \/ detectState' = "FINISHED" /\ kind.type # "HM_MOD_RPI_PCB"
           \/ detectState' = "GET_BIDCOS_RF_ADDRESS" /\ frame.len = 1 /\ ~Own
    BY <1>7, <2>1 DEF HandleGetBidCosRfAddress, Advance, Own
  <2>5. CASE detectState' = "GET_SERIAL" /\ kind.type = "HM_MOD_RPI_PCB"
    <3>1. ~Own
      BY <2>5 DEF Own
    <3> QED BY <2>1, <2>3, <2>4, <2>5, <3>1 DEF Facts, Starting, Past, Legacy
  <2>6. CASE detectState' = "FINISHED" /\ kind.type # "HM_MOD_RPI_PCB"
    <3>1. radioModuleType' \in Supported => Own
      BY <2>4, <2>6 DEF Supported, Own
    <3>2. Own => Fully'
      BY <2>1, <2>3 DEF Fully
    <3>3. Own => Partly'
      BY <2>1, <2>3 DEF Partly
    <3> QED BY <2>4, <2>6, <3>1, <3>2, <3>3 DEF Facts, Starting, Past, Legacy
  <2>7. CASE detectState' = "GET_BIDCOS_RF_ADDRESS" /\ frame.len = 1 /\ ~Own
    <3>1. kind.address # "ADDRESS"
      <4>1. frame \in Results /\ frame.len = 1
        BY <1>0, <2>1, <2>7 DEF Starting
      <4> QED BY <4>1, FrameFields DEF Results
    <3>2. Address = Nothing
      BY <2>2, <2>7, <3>1
    <3> QED BY <2>1, <2>3, <2>4, <2>7, <3>2 DEF Facts, Starting, Past, Legacy
  <2> QED BY <2>4, <2>5, <2>6, <2>7
<1>8. CASE HandleGetSerial(frame)
  <2>1. /\ detectState = "GET_SERIAL" /\ detectState' = "FINISHED"
        /\ radioModuleType' = radioModuleType /\ data' = [data EXCEPT !["serial"] = "SERIAL"]
    BY <1>8, <1>b DEF HandleGetSerial, Store, Advance, Starting
  <2>2. /\ radioModuleType = kind.type /\ kind.type = "HM_MOD_RPI_PCB"
        /\ kind.app \in {"DualCoPro_App", "HMIP_TRX_App"}
        /\ Known(kind.version, "HMIP_ADDRESS", "SGTIN", Address, Nothing)
    BY <2>1 DEF Facts, Past, Legacy
  <2>3. Known(kind.version, "HMIP_ADDRESS", "SGTIN", Address, "SERIAL")'
    BY <2>1, <2>2 DEF Known
  <2>4. ~Own
    BY <2>2 DEF Own
  <2>5. Fully'
    BY <2>2, <2>3, <2>4 DEF Fully
  <2>6. Partly'
    BY <2>2, <2>3, <2>4 DEF Partly
  <2> QED BY <2>1, <2>2, <2>5, <2>6 DEF Facts, Starting, Past, Legacy
<1>9. CASE HandleLegacy(frame)
  <2>1. detectState \in Legacy
    BY <1>9 DEF HandleLegacy, Store, Legacy
  <2>2. /\ kind.app = "Co_CPU_App" /\ radioModuleType \in {"NONE", "HM_MOD_RPI_PCB"}
        /\ kind.type = "HM_MOD_RPI_PCB" /\ kind.address = "ADDRESS"
    BY <1>a, <2>1 DEF Facts
  <2>3. ~Own /\ Address = "ADDRESS"
    BY <2>2 DEF Own, Old, Address
  <2>4. CASE Store(frame, "LEGACY_GET_VERSION", "version", "LEGACY_GET_BIDCOS_RF_ADDRESS")
    <3>1. /\ detectState = "LEGACY_GET_VERSION" /\ detectState' = "LEGACY_GET_BIDCOS_RF_ADDRESS"
          /\ radioModuleType' = radioModuleType /\ data' = [data EXCEPT !["version"] = kind.version]
      BY <2>4, <1>b DEF Store, Advance, Starting
    <3>2. Known(kind.version, "0", "n/a", Nothing, Nothing)'
      <4>1. Known(Nothing, "0", "n/a", Nothing, Nothing)
        BY <3>1 DEF Facts
      <4> QED BY <3>1, <4>1 DEF Known
    <3> QED BY <2>2, <3>1, <3>2 DEF Facts, Starting, Past, Legacy
  <2>5. CASE Store(frame, "LEGACY_GET_BIDCOS_RF_ADDRESS", "bidCos", "LEGACY_GET_SERIAL")
    <3>1. /\ detectState = "LEGACY_GET_BIDCOS_RF_ADDRESS" /\ detectState' = "LEGACY_GET_SERIAL"
          /\ radioModuleType' = radioModuleType /\ data' = [data EXCEPT !["bidCos"] = "ADDRESS"]
      BY <2>5, <1>b DEF Store, Advance, Starting
    <3>2. Known(kind.version, "0", "n/a", "ADDRESS", Nothing)'
      <4>1. Known(kind.version, "0", "n/a", Nothing, Nothing)
        BY <3>1 DEF Facts
      <4> QED BY <3>1, <4>1 DEF Known
    <3> QED BY <2>2, <3>1, <3>2 DEF Facts, Starting, Past, Legacy
  <2>6. CASE Store(frame, "LEGACY_GET_SERIAL", "serial", "FINISHED")
    <3>1. /\ detectState = "LEGACY_GET_SERIAL" /\ detectState' = "FINISHED"
          /\ radioModuleType' = radioModuleType /\ data' = [data EXCEPT !["serial"] = "SERIAL"]
      BY <2>6, <1>b DEF Store, Advance, Starting
    <3>2. Known(kind.version, "0", "n/a", "ADDRESS", "SERIAL")'
      <4>1. Known(kind.version, "0", "n/a", "ADDRESS", Nothing)
        BY <3>1 DEF Facts
      <4> QED BY <3>1, <4>1 DEF Known
    <3>3. Fully'
      BY <2>2, <3>2 DEF Fully
    <3>4. Partly'
      BY <2>2, <2>3, <3>2 DEF Partly
    <3>5. radioModuleType \in Supported => radioModuleType = kind.type
      BY <2>2 DEF Supported
    <3> QED BY <3>1, <3>3, <3>4, <3>5 DEF Facts, Starting, Past, Legacy
  <2> QED BY <1>9, <2>4, <2>5, <2>6 DEF HandleLegacy
<1> QED BY <1>1, <1>2, <1>3, <1>4, <1>5, <1>6, <1>7, <1>8, <1>9

(* Facts is inductive, given Order.                                        *)
LEMMA FactsStep ==
  ASSUME Types, Order, Facts, Outcome, [Next]_vars
  PROVE  Facts'
<1>0. kind' = kind /\ Own' = Own /\ Old' = Old /\ Address' = Address
  BY KindStays
<1>1. CASE Main
  BY <1>0, <1>1, FactsMain
<1>2. CASE HandleFrame
  <2>1. gaveUp' = gaveUp /\ reading # <<>>
    BY <1>2 DEF HandleFrame, main_vars
  <2>2. CASE Takes(Head(reading))
    BY <1>0, <1>2, <2>1, <2>2, FactsHandle DEF HandleFrame
  <2>3. CASE ~Takes(Head(reading))
    BY <1>0, <1>2, <2>1, <2>3, FactsStays DEF HandleFrame, shared_vars
  <2> QED BY <2>2, <2>3
<1>3. CASE ReadFrame \/ ModuleAnswers \/ LoseFrame \/ UNCHANGED vars
  BY <1>0, <1>3, FactsStays DEF ReadFrame, ModuleAnswers, LoseFrame, vars, shared_vars, main_vars
<1> QED BY <1>1, <1>2, <1>3 DEF Next, Done

(* Outcome is inductive: the type of a supported radio module stays.       *)
LEMMA OutcomeStep ==
  ASSUME Types, Facts, Outcome, [Next]_vars
  PROVE  Outcome'
<1>1. CASE Main
  <2>1. pc' \in Ending => gaveUp' \/ detectState' = "FINISHED"
    <3>1. pc' \in Ending => pc \in Ending \/ (pc = "wait" /\ (gaveUp' \/ detectState = "FINISHED"))
      BY <1>1, MainMoves
    <3>2. /\ gaveUp => gaveUp'
          /\ detectState = "FINISHED" => detectState' = "FINISHED"
      BY <1>1, MainMoves, MainShares
    <3> QED BY <3>1, <3>2 DEF Outcome
  <2>2. pc' = "reported" => radioModuleType' \in Supported
    BY <1>1, MainShares
  <2> QED BY <2>1, <2>2 DEF Outcome
<1>2. CASE HandleFrame
  <2>1. pc' = pc /\ gaveUp' = gaveUp
    BY <1>2 DEF HandleFrame, main_vars
  <2>2. detectState = "FINISHED" => detectState' = "FINISHED"
    BY <1>2, HandleFrameMoves DEF shared_vars
  <2>3. ASSUME radioModuleType \in Supported PROVE radioModuleType' = radioModuleType
    <3>1. detectState \notin Starting \cup {"GET_MCU_TYPE"}
      BY <2>3 DEF Facts, Supported
    <3> QED BY <1>2, <3>1 DEF HandleFrame, HandleStartBl, HandleStartApp, HandleGetMcuType,
              HandleGetVersion, HandleGetHmIPRfAddress, HandleGetSgtin, HandleGetBidCosRfAddress,
              HandleGetSerial, HandleLegacy, Store, Starting, shared_vars
  <2> QED BY <2>1, <2>2, <2>3 DEF Outcome
<1>3. CASE ReadFrame \/ ModuleAnswers \/ LoseFrame \/ UNCHANGED vars
  BY <1>3 DEF ReadFrame, ModuleAnswers, LoseFrame, vars, shared_vars, main_vars, Outcome
<1> QED BY <1>1, <1>2, <1>3 DEF Next, Done

(* The invariant holds at the start.                                       *)
LEMMA IInvInit == Init => IInv
<1> SUFFICES ASSUME Init PROVE IInv
  OBVIOUS
<1>1. Types
  <2>1. requests \in Seq(Requests) /\ answers \in Seq(Sent) /\ reading \in Seq(Sent) /\ Len(reading) <= 1
    BY EmptySeq DEF Init
  <2>2. /\ pc \in Searching /\ phase \in {"bl", "app"}
        /\ seen \in States /\ detectState \in States
    BY DEF Init, Searching, States, Starting
  <2> QED BY <2>1, <2>2 DEF Init, Types
<1>2. \A S : Without(<<>>, S)
  BY EmptySeq DEF Without
<1>3. \A R, S : NotBehind(<<>>, R, S)
  BY EmptySeq DEF NotBehind
<1>4. Order
  BY <1>2, <1>3 DEF Init, Order, Past
<1>5. Facts
  BY DEF Init, Facts, Starting, Past, Legacy, Known, Blank
<1>6. Outcome
  BY DEF Init, Outcome, Ending
<1> QED BY <1>1, <1>4, <1>5, <1>6 DEF IInv

(* The types of the variables, the order of what is under way and what is  *)
(* known in each state, in every state of the program.                     *)
THEOREM IInvHolds == Spec => []IInv
<1>1. Init => IInv
  BY IInvInit
<1>2. IInv /\ [Next]_vars => IInv'
  BY TypesStep, OrderStep, FactsStep, OutcomeStep DEF IInv
<1> QED BY <1>1, <1>2, PTL DEF Spec

(* What the program prints about a radio module is true, for every set of  *)
(* radio modules and every number of retries: detectRadioModule(),         *)
(* handleFrame() and main(), whatever is late or lost.                     *)
THEOREM ReportTrue == Spec => []ReportIsTrue
<1>1. IInv => ReportIsTrue
  BY FactsReport DEF IInv
<1> QED BY <1>1, IInvHolds, PTL
=============================================================================
