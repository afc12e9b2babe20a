---------------------------- MODULE StreamParser ----------------------------
(***************************************************************************)
(* The parser that cuts a stream of characters into frames                 *)
(* (detect_radio_module/streamparser.cpp).  A parser is a record; Append   *)
(* is the parser after one more character, with the frame that this        *)
(* character completed, if it did, in completed.                           *)
(***************************************************************************)
LOCAL INSTANCE Integers
LOCAL INSTANCE Sequences
LOCAL INSTANCE HmFrame

CONSTANT BUFFER_SIZE   (* sizeof(_buffer): 2048                             *)

(* _bufferPos is the length of buffer.                                     *)
NewParser(decodeEscaped) ==
  [buffer |-> <<>>, framePos |-> 0, frameLength |-> 0, state |-> "NO_DATA",
   isEscaped |-> FALSE, decodeEscaped |-> decodeEscaped, completed |-> <<>>]

(* The end of append(): a full buffer completes a frame too.               *)
Store(p, char) ==
  LET buffer == Append(p.buffer, char)
  IN IF p.state = "FRAME_COMPLETE" \/ Len(buffer) = BUFFER_SIZE
       THEN [p EXCEPT !.buffer = buffer, !.state = "NO_DATA", !.completed = buffer]
       ELSE [p EXCEPT !.buffer = buffer]

(* Any character but the two special ones, by the state.                   *)
Plain(p, chr) ==
  LET char == IF p.isEscaped /\ p.decodeEscaped THEN SetBit7(chr) ELSE chr
      byte == IF p.isEscaped THEN SetBit7(char) ELSE char
      q == [p EXCEPT !.isEscaped = FALSE]
  IN CASE p.state = "NO_DATA" -> p
       [] p.state = "LENGTH_HIGH" ->
            Store([q EXCEPT !.frameLength = 256 * byte, !.state = "LENGTH_LOW"], char)
       [] p.state = "LENGTH_LOW" ->
            Store([q EXCEPT !.frameLength = (@ + byte + 2) % 2^16, !.framePos = 0,
                            !.state = "DATA"], char)
       [] p.state = "DATA" ->
            Store([q EXCEPT !.framePos = (@ + 1) % 2^16,
                            !.state = IF (p.framePos + 1) % 2^16 = p.frameLength
                                        THEN "FRAME_COMPLETE" ELSE "DATA"], char)

AppendChar(parser, chr) ==
  LET p == [parser EXCEPT !.completed = <<>>]
  IN CASE chr = START ->
            Store([p EXCEPT !.buffer = <<>>, !.isEscaped = FALSE, !.state = "LENGTH_HIGH"], chr)
       [] chr = ESCAPE ->
            IF p.decodeEscaped THEN [p EXCEPT !.isEscaped = TRUE]
            ELSE Store([p EXCEPT !.isEscaped = TRUE], chr)
       [] OTHER -> Plain(p, chr)
=============================================================================
