------------------------------ MODULE FakeHmrf ------------------------------
(***************************************************************************)
(* The simulated radio module (kernel/fake_hmrf.c) and a program that      *)
(* talks to it as detect_radio_module does: requests are encoded by        *)
(* HMFrame, written, decoded and answered by the driver; the answer goes   *)
(* through the driver's ring of characters to a reader thread, whose       *)
(* StreamParser and HMFrame::TryParse have to find it again.               *)
(*                                                                         *)
(* Writers are concurrent, and an answer is added to the ring character by *)
(* character while the reader takes some out.  One thread reads.           *)
(***************************************************************************)
EXTENDS Integers, Sequences, CircBuf, HmFrame

CONSTANTS
  Writers, NULL,
  RX_BUF_SIZE,   (* slots of the ring: 1024, a power of two                 *)
  BUFFER_SIZE,   (* of the StreamParser: 2048                               *)
  Requests,      (* the frames that the program sends                       *)
  Garbage,       (* what else is written: buffers that are no frames        *)
  Macs, Versions, Serials,  (* what the module's parameters are set to      *)
  ReadSizes,     (* how many characters a read() asks for                   *)
  MaxAnswers     (* bound: requests that are answered                       *)

ASSUME RingAssumption == RX_BUF_SIZE \in {2^n : n \in 1..10}

(* The driver does not defend itself against a buffer that ends in an      *)
(* escape; nobody writes one.                                              *)
ASSUME GarbageAssumption == \A bytes \in Garbage : ~EndsInEscape(bytes)

BUF_SIZE == 1024   (* of the driver's copy of what is written               *)

VARIABLES
  is_in_bl,      (* the bootloader is running                               *)
  radio_mac, firmware_version, board_serial,   (* in the responses          *)
  head, tail, buf,  (* fake_hmrf_rxbuf                                      *)
  writel,        (* the writer that holds fake_hmrf_writel                  *)
  answer,        (* what a writer still has to add to the ring              *)
  parser,        (* the reader thread's StreamParser                        *)
  accepted,      (* the frames that TryParse accepted                       *)
  answered,      (* how many answers there were                             *)
  refused,       (* history: a request was not understood                   *)
  replies,       (* history: the frames that the writers' answers encode    *)
  sent           (* history: the answers in the order of the ring, and      *)
                 (* whether they can be lost                                *)

param_vars == <<radio_mac, firmware_version, board_serial>>
vars == <<is_in_bl, param_vars, head, tail, buf, writel, answer, parser, accepted, answered,
          refused, replies, sent>>

Stream == INSTANCE StreamParser

Init ==
  /\ is_in_bl = FALSE
  /\ radio_mac = <<79, 104, 241>>        (* 0x4F68F1   *)
  /\ firmware_version = <<2, 8, 6>>
  /\ board_serial = <<70, 75, 69, 49, 50, 51, 52, 53, 54, 55>>   (* FKE1234567 *)
  /\ head = 0 /\ tail = 0 /\ buf = [i \in 0..RX_BUF_SIZE - 1 |-> 0]
  /\ writel = NULL
  /\ answer = [w \in Writers |-> <<>>]
  /\ parser = Stream!NewParser(TRUE)
  /\ accepted = <<>> /\ answered = 0
  /\ refused = FALSE /\ replies = [w \in Writers |-> <<>>] /\ sent = <<>>

-----------------------------------------------------------------------------
(* The destinations and commands of hm.h that a name stands for.           *)
SYSTEM == 0
TRX == 1
HMIP == 2
LLMAC == 3
COMMON == 254

Name == <<68, 117, 97, 108, 67, 111, 80, 114, 111, 95, 65, 112, 112>>  (* DualCoPro_App *)
BootName == <<67, 111, 95, 67, 80, 85, 95, 66, 76>>                    (* Co_CPU_BL     *)

(* Which of its two programs answers an identification.                    *)
IdentifyResponse(dst, in_bl) ==
  IF dst = SYSTEM /\ in_bl THEN <<4, 2>> \o BootName
  ELSE IF dst = COMMON /\ ~in_bl THEN <<5, 1>> \o Name
  ELSE <<>>

(* The responses that carry data and those that only acknowledge.          *)
Cmd19Key ==
  <<230, 60, 213, 96, 54, 75, 171, 236, 140, 196, 225, 47, 248, 25, 129, 6, 229>>
NwKey ==
  <<194, 20, 34, 243, 202, 156, 189, 163, 95, 113, 136, 164, 115, 206, 111, 3, 167,
    165, 202, 38, 186, 232, 162, 42, 13, 61, 72, 151, 182, 186, 71, 240, 29, 202, 167,
    57, 184, 77, 179, 251, 19, 71, 2, 21, 229, 55, 82, 185, 57, 220, 186, 34, 137, 52,
    202, 102, 102, 91, 211, 111, 179, 213, 81, 182, 103, 152>>
DataResponse(dst, cmd) ==
  CASE <<dst, cmd>> = <<COMMON, 4>> ->
         <<5, 1, 48, 20, 247, 17, 160, 97, 167, 213, 105, 157, 171, 82>>
    [] <<dst, cmd>> = <<TRX, 2>> -> <<4, 1>> \o firmware_version \o <<1, 0, 3, 1, 20, 3>>
    [] <<dst, cmd>> = <<TRX, 3>> -> <<4, 1, 0>>
    [] <<dst, cmd>> = <<TRX, 9>> -> <<4, 1, 3>>
    [] <<dst, cmd>> = <<LLMAC, 2>> -> <<1, 1, 45, 234>>
    [] <<dst, cmd>> = <<LLMAC, 6>> -> <<1, 1, 18, 52>>
    [] <<dst, cmd>> = <<LLMAC, 7>> -> <<1, 1>> \o board_serial
    [] <<dst, cmd>> = <<LLMAC, 8>> -> <<1, 1>> \o radio_mac
    [] <<dst, cmd>> = <<HMIP, 1>> -> <<6, 1>> \o radio_mac
    [] <<dst, cmd>> = <<HMIP, 10>> -> <<6, 1, 12, 255, 255, 255>>
    [] <<dst, cmd>> = <<HMIP, 25>> -> <<6, 1>> \o Cmd19Key
    [] <<dst, cmd>> = <<HMIP, 19>> -> <<6, 1>> \o NwKey
    [] <<dst, cmd>> = <<TRX, 7>> -> <<4, 1>>
    [] dst = HMIP /\ cmd \in {0, 3, 4, 8, 13, 18, 20} -> <<6, 1>>
    [] OTHER -> <<>>

(* fake_hmrf_write()'s switch: the command and its effect on is_in_bl.     *)
StartsBl(dst, cmd) == dst = COMMON /\ cmd = 2
StartsApp(dst, cmd) == dst = SYSTEM /\ cmd = 3
Response(dst, cmd) ==
  IF <<dst, cmd>> \in {<<SYSTEM, 0>>, <<COMMON, 1>>} THEN IdentifyResponse(dst, is_in_bl)
  ELSE IF StartsBl(dst, cmd) THEN <<5, 1>>
  ELSE IF StartsApp(dst, cmd) THEN <<4, 1>>
  ELSE DataResponse(dst, cmd)

(* What is written: requests as HMFrame encodes them, and other buffers.   *)
Written == Garbage \cup {Encode(frame) : frame \in Requests}

(* Those that fit into the driver's buffer and that decodeFrameBuffer()    *)
(* and tryParseFrame() make a frame of.                                    *)
Valid == {bytes \in Written :
            Len(bytes) <= BUF_SIZE /\ TryParseFrame(DecodeFrameBuffer(bytes))}

(* write(): the buffer is decoded, parsed and answered.  The counter and   *)
(* the destination of the answer are those of the request.  If the buffer  *)
(* cannot be copied write() returns and nothing has changed.               *)
Write(w, bytes) ==
  /\ answered < MaxAnswers /\ answer[w] = <<>> /\ writel # w
  /\ \/ /\ bytes \in Valid
        /\ LET request == Parsed(DecodeFrameBuffer(bytes))
               cmd == request.cmd[1]
               response == Response(request.dst, cmd)
               reply == [request EXCEPT !.cmd = response]
           IN /\ is_in_bl' = IF StartsBl(request.dst, cmd) THEN TRUE
                             ELSE IF StartsApp(request.dst, cmd) THEN FALSE ELSE is_in_bl
              /\ IF response = <<>> THEN UNCHANGED <<answer, replies, answered>>
                 ELSE /\ answer' = [answer EXCEPT ![w] = EncodeFrameBuffer(EncodeFrame(reply))]
                      /\ replies' = [replies EXCEPT ![w] = reply]
                      /\ answered' = answered + 1
        /\ UNCHANGED refused
     \/ /\ bytes \notin Valid
        /\ refused' = (refused \/ bytes \notin Garbage)
        /\ UNCHANGED <<is_in_bl, answer, replies, answered>>
  /\ UNCHANGED <<param_vars, head, tail, buf, writel, parser, accepted, sent>>

(* History: an answer that leaves a start character unescaped is torn by   *)
(* the parser.                                                             *)
Torn(bytes) == \E i \in 2..Len(bytes) : bytes[i] = START

(* add_to_buffer() takes the spin lock ...                                 *)
LockBuffer(w) ==
  /\ answer[w] # <<>> /\ writel = NULL
  /\ writel' = w
  /\ sent' = Append(sent, [frame |-> replies[w], lossy |-> Torn(answer[w])])
  /\ UNCHANGED <<is_in_bl, param_vars, head, tail, buf, answer, parser, accepted, answered, refused,
                 replies>>

(* ... and adds the characters that the ring has room for.                 *)
AddToBuffer(w) ==
  /\ writel = w
  /\ answer' = [answer EXCEPT ![w] = Tail(@)]
  /\ writel' = IF Len(answer[w]) = 1 THEN NULL ELSE w
  /\ \/ /\ CIRC_SPACE(head, tail, RX_BUF_SIZE) > 0
        /\ buf' = [buf EXCEPT ![head] = Head(answer[w])]
        /\ head' = IF head + 1 >= RX_BUF_SIZE THEN 0 ELSE head + 1
        /\ UNCHANGED sent
     \/ /\ CIRC_SPACE(head, tail, RX_BUF_SIZE) = 0
        /\ sent' = [sent EXCEPT ![Len(sent)].lossy = TRUE]
        /\ UNCHANGED <<buf, head>>
  /\ UNCHANGED <<is_in_bl, param_vars, tail, parser, accepted, answered, refused,
                 replies>>

(* read() of up to count characters, and what the reader thread does with  *)
(* them: TryParse in the frame handler decides about a completed frame.    *)
Feed(state, char) ==
  LET p == Stream!AppendChar(state.parser, char)
  IN [parser |-> [p EXCEPT !.completed = <<>>],
      accepted |-> IF p.completed # <<>> /\ TryParseFrame(p.completed)
                     THEN Append(state.accepted, Parsed(p.completed)) ELSE state.accepted]

Read(count) ==
  LET available == CIRC_CNT_TO_END(head, tail, RX_BUF_SIZE)
      n == IF count < available THEN count ELSE available
      after[i \in 0..n] ==
        IF i = 0 THEN [parser |-> parser, accepted |-> accepted]
                 ELSE Feed(after[i - 1], buf[tail + i - 1])
  IN /\ CIRC_CNT(head, tail, RX_BUF_SIZE) > 0
     /\ parser' = after[n].parser /\ accepted' = after[n].accepted
     /\ tail' = IF tail + n >= RX_BUF_SIZE THEN tail + n - RX_BUF_SIZE ELSE tail + n
     /\ UNCHANGED <<is_in_bl, param_vars, head, buf, writel, answer, answered, refused,
                    replies, sent>>

-----------------------------------------------------------------------------
(* The module's parameters.  A radio address is a text of 0x and six hex   *)
(* digits, given by its character codes ...                                *)
ParseHexChar(c) ==
  CASE c \in 48..57 -> c - 48
    [] c \in 65..70 -> c - 65 + 10
    [] c \in 97..102 -> c - 97 + 10
    [] OTHER -> -1

SetRadioMac(val) ==
  LET digits == [i \in 3..8 |-> ParseHexChar(val[i])]
  IN /\ Len(val) = 8 /\ val[1] = 48 /\ val[2] = 120
     /\ \A i \in 3..8 : digits[i] # -1
     /\ radio_mac' = [i \in 1..3 |-> 16 * digits[2 * i + 1] + digits[2 * i + 2]]
     /\ UNCHANGED <<firmware_version, board_serial>>

(* ... a version is three numbers with dots between them, given by the     *)
(* numbers, and a serial number is ten characters.                         *)
SetFirmwareVersion(val) ==
  /\ Len(val) = 3 /\ \A i \in 1..3 : val[i] \in 0..255
  /\ firmware_version' = val
  /\ UNCHANGED <<radio_mac, board_serial>>

SetSerial(val) ==
  /\ Len(val) = 10
  /\ board_serial' = val
  /\ UNCHANGED <<radio_mac, firmware_version>>

(* Writing another value returns -EINVAL.                                  *)
SetParameter ==
  /\ \/ \E val \in Macs : SetRadioMac(val)
     \/ \E val \in Versions : SetFirmwareVersion(val)
     \/ \E val \in Serials : SetSerial(val)
  /\ UNCHANGED <<is_in_bl, head, tail, buf, writel, answer, parser, accepted, answered, refused,
                 replies, sent>>

Next ==
  \/ \E w \in Writers :
       \/ \E bytes \in Written : Write(w, bytes)
       \/ LockBuffer(w) \/ AddToBuffer(w)
  \/ \E count \in ReadSizes : Read(count)
  \/ SetParameter

Spec == Init /\ [][Next]_vars

-----------------------------------------------------------------------------
(* Every request among Requests, wherever its counter, its destination or  *)
(* its checksum has to be escaped, is understood by the driver as          *)
(* HMFrame::encode writes it (decodeFrameBuffer, tryParseFrame).           *)
RequestsUnderstood == ~refused

(* When the ring has been read the program has got the answers, each with  *)
(* its counter and in order, except those that the full ring mutilated and *)
(* those that encodeFrameBuffer() tore; what is left of these costs no     *)
(* other answer and passes for no frame that was not sent                  *)
(* (fake_hmrf_write, add_to_buffer, StreamParser::append, TryParse).       *)
AnswersArrive ==
  head = tail /\ (\A w \in Writers : answer[w] = <<>>) =>
    \E arrived \in SUBSET DOMAIN sent :
      LET order == SelectSeq([i \in DOMAIN sent |-> i], LAMBDA i : i \in arrived)
      IN /\ \A i \in DOMAIN sent : ~sent[i].lossy => i \in arrived
         /\ accepted = [i \in DOMAIN order |-> sent[order[i]].frame]
=============================================================================
