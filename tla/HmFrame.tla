------------------------------ MODULE HmFrame ------------------------------
(***************************************************************************)
(* The frames of the radio modules: their layout, checksum and escaping,   *)
(* as the user-space programs have them (detect_radio_module/hmframe.cpp)  *)
(* and as the simulated radio module has them (kernel/hm.h).  A frame is   *)
(* a record of dst, cnt and cmd, the command byte and its data.            *)
(*                                                                         *)
(* On the wire 16#fd begins a frame and 16#fc announces that bit 7 of the  *)
(* next byte was cleared; both are therefore escaped inside of a frame.    *)
(***************************************************************************)
LOCAL INSTANCE Integers
LOCAL INSTANCE Sequences
LOCAL INSTANCE SequencesExt

START == 253     (* 16#fd *)
ESCAPE == 252    (* 16#fc *)

(* One bit of crc(): the checksum is shifted to the left, and 16#8005 is   *)
(* added if what leaves it differs from the data.                          *)
Flip(n, bit) == IF (n \div 2^bit) % 2 = 1 THEN n - 2^bit ELSE n + 2^bit
CrcBit(crc, bit) ==
  LET shifted == (2 * crc) % 2^16
  IN IF crc \div 2^15 = bit THEN shifted ELSE Flip(Flip(Flip(shifted, 15), 2), 0)

(* The bits of a byte are taken from the left.  (Looking at crc first      *)
(* keeps TLC from postponing all of the computation.)                      *)
CrcByte(crc, byte) ==
  LET after[i \in 0..8] ==
        IF i = 0 THEN crc ELSE CrcBit(after[i - 1], (byte \div 2^(8 - i)) % 2)
  IN IF crc = 0 /\ byte = 0 THEN 0 ELSE after[8]

Crc(bytes) ==
  LET after[i \in 0..Len(bytes)] ==
        IF i = 0 THEN 55167 ELSE CrcByte(after[i - 1], bytes[i])   (* 16#d77f *)
  IN after[Len(bytes)]

HighByte(n) == (n \div 256) % 256
LowByte(n) == n % 256
Checked(bytes) == bytes \o <<HighByte(Crc(bytes)), LowByte(Crc(bytes))>>

(* encodeFrame(), and HMFrame::encode() before it escapes.                 *)
EncodeFrame(frame) ==
  LET length == Len(frame.cmd) + 2
  IN Checked(<<START, HighByte(length), LowByte(length), frame.dst, frame.cnt>> \o frame.cmd)

(* tryParseFrame() and HMFrame::TryParse().                                *)
TryParseFrame(bytes) ==
  /\ Len(bytes) >= 8
  /\ bytes[1] = START
  /\ 256 * bytes[2] + bytes[3] + 5 = Len(bytes)
  /\ bytes = Checked(SubSeq(bytes, 1, Len(bytes) - 2))

(* What they return if they succeed.                                       *)
Parsed(bytes) ==
  [dst |-> bytes[4], cnt |-> bytes[5], cmd |-> SubSeq(bytes, 6, Len(bytes) - 2)]

ClearBit7(byte) == byte % 128
SetBit7(byte) == 128 + (byte % 128)

(* HMFrame::encode(): what follows the first byte is escaped.              *)
Encode(frame) ==
  LET bytes == EncodeFrame(frame)
      escaped == [i \in DOMAIN bytes |->
                    IF i > 1 /\ bytes[i] \in {START, ESCAPE}
                      THEN <<ESCAPE, ClearBit7(bytes[i])>> ELSE <<bytes[i]>>]
  IN FlattenSeq(escaped)

(* Mutant: the start character is only recognised at the very end.         *)
EncodeFrameBufferNoEscape(bytes) ==
  FlattenSeq([i \in DOMAIN bytes |->
                IF bytes[i] = START /\ i = Len(bytes) - 1
                  THEN <<ESCAPE, ClearBit7(bytes[i])>> ELSE <<bytes[i]>>])

(* encodeFrameBuffer(): the start character is escaped only if one byte    *)
(* follows it.                                                             *)
EncodeFrameBuffer(bytes) ==
  FlattenSeq([i \in DOMAIN bytes |->
                IF bytes[i] = ESCAPE \/ (bytes[i] = START /\ i = Len(bytes) - 1)
                  THEN <<ESCAPE, ClearBit7(bytes[i])>> ELSE <<bytes[i]>>])

(* Mutant: the byte after the escape character is taken as it is.          *)
DecodeFrameBufferPlain(bytes) == SelectSeq(bytes, LAMBDA byte : byte # ESCAPE)

(* Which bytes decodeFrameBuffer() takes for an escape: the byte after one *)
(* is none, whatever it is.                                                *)
Escapes(bytes) ==
  LET escape[i \in 0..Len(bytes)] == i > 0 /\ bytes[i] = ESCAPE /\ ~escape[i - 1]
  IN escape

(* decodeFrameBuffer(), which must not be given a buffer that ends in an   *)
(* escape: its counter then passes zero and it runs on beyond the buffer.  *)
EndsInEscape(bytes) == Escapes(bytes)[Len(bytes)]

DecodeFrameBuffer(bytes) ==
  LET escape == Escapes(bytes)
  IN FlattenSeq([i \in DOMAIN bytes |->
                   IF escape[i] THEN <<>>
                   ELSE IF escape[i - 1] THEN <<SetBit7(bytes[i])>>
                   ELSE <<bytes[i]>>])
=============================================================================
