-------------------------------- MODULE Slip --------------------------------
(***************************************************************************)
(* The serial link of the bridge: Slip puts a frame between two ENDs and   *)
(* escapes END and ESC in it, and CRC adds two bytes by which a damaged    *)
(* frame is told.  Bytes are bytes here, since the encoding is what the    *)
(* link is about.                                                          *)
(***************************************************************************)
EXTENDS Integers, Sequences, SequencesExt, Bitwise

CONSTANT SlipMax  \* SLIP_MAX_SIZE

ASSUME SlipAssumption == SlipMax \in 2..255

VARIABLES
  slipState,   \* state
  slipBuffer   \* the bytes of buffer before bufIndex

slipVars == <<slipState, slipBuffer>>

SLIP_END == 192
SLIP_ESC == 219
SLIP_ESC_END == 220
SLIP_ESC_ESC == 221

-----------------------------------------------------------------------------
(* CRC.cpp *)

\* crc << 1 ^ 0x1021, of 16 bits: the polynomial has the bits 12, 5 and 0.
Toggle(n, bit) == IF (n \div 2^bit) % 2 = 1 THEN n - 2^bit ELSE n + 2^bit
ShiftCrc ==
  [crc \in 0..65535 |->
     IF crc >= 32768 THEN Toggle(Toggle(1 + ((2 * crc) % 65536), 5), 12) ELSE 2 * crc]

\* calcCrc after the first k bytes of data; eight times round for each
CrcAfter(data) ==
  LET after[k \in 0..Len(data)] ==
        IF k = 0 THEN 0
        ELSE ShiftCrc[ShiftCrc[ShiftCrc[ShiftCrc[ShiftCrc[ShiftCrc[ShiftCrc[ShiftCrc[
               after[k - 1] ^^ (data[k] * 256)]]]]]]]]
  IN after

calcCrc(data) == CrcAfter(data)[Len(data)]

\* appendCrc: low byte first.
WithCrc(data) ==
  LET crc == calcCrc(data) IN data \o <<crc % 256, crc \div 256>>

\* checkCrc, of a frame that has the two bytes; of a shorter one it reads
\* what lies before the buffer.
CrcIsRight(frame) ==
  LET n == Len(frame)
  IN calcCrc(SubSeq(frame, 1, n - 2)) = 256 * frame[n] + frame[n - 1]

-----------------------------------------------------------------------------
(* Slip.cpp *)

Escaped(byte) ==
  CASE byte = SLIP_END -> <<SLIP_ESC, SLIP_ESC_END>>
    [] byte = SLIP_ESC -> <<SLIP_ESC, SLIP_ESC_ESC>>
    [] OTHER -> <<byte>>

\* send
OnTheLine(frame) ==
  <<SLIP_END>> \o FlattenSeq([k \in DOMAIN frame |-> Escaped(frame[k])]) \o <<SLIP_END>>

AfterEscape(byte) ==
  CASE byte = SLIP_ESC_END -> SLIP_END
    [] byte = SLIP_ESC_ESC -> SLIP_ESC
    [] OTHER -> byte

\* parseEscapes, which takes one byte too many along and leaves it out when
\* it hands the frame on: an ESC at the end goes with it.
parseEscapes[buffer \in Seq(0..255)] ==
  IF buffer = <<>> \/ buffer = <<SLIP_ESC>> THEN <<>>
  ELSE IF buffer[1] = SLIP_ESC
  THEN <<AfterEscape(buffer[2])>> \o parseEscapes[SubSeq(buffer, 3, Len(buffer))]
  ELSE <<buffer[1]>> \o parseEscapes[Tail(buffer)]

\* A frame is complete with this byte.
Completes(byte) ==
  slipState = "receiving" /\ byte = SLIP_END /\ slipBuffer # <<>>
  /\ Len(slipBuffer) < SlipMax - 1

\* Wrong on purpose: an END that comes twice ends a frame that is empty.
SlipLoopTwice(byte) ==
  IF slipState = "idle" \/ Len(slipBuffer) >= SlipMax - 1 \/ byte = SLIP_END
  THEN /\ slipState' = IF slipState = "idle" /\ byte = SLIP_END THEN "receiving" ELSE "idle"
       /\ slipBuffer' = <<>>
  ELSE slipState' = "receiving" /\ slipBuffer' = Append(slipBuffer, byte)

\* loop, of one byte: an END starts a frame and another one ends it; of two
\* in a row the second is taken for the start; a full buffer is given up.
SlipLoop(byte) ==
  IF slipState = "idle"
  THEN /\ slipState' = IF byte = SLIP_END THEN "receiving" ELSE "idle"
       /\ slipBuffer' = <<>>
  ELSE IF Len(slipBuffer) >= SlipMax - 1 \/ Completes(byte)
  THEN slipState' = "idle" /\ slipBuffer' = <<>>
  ELSE /\ slipState' = "receiving"
       /\ slipBuffer' = IF byte = SLIP_END THEN slipBuffer ELSE Append(slipBuffer, byte)

SlipInit == slipState = "idle" /\ slipBuffer = <<>>

=============================================================================
