---------------------------- MODULE SoftwareSerial ----------------------------
(***************************************************************************)
(* SoftwareSerial: a pin change starts recv, which counts out the bits of  *)
(* one byte with interrupts off and puts it into the one ring all objects  *)
(* share; the sketch takes bytes out, listens on another object, or sends  *)
(* one itself, with interrupts off for its whole length.                   *)
(*                                                                         *)
(* Time goes by bits (Tick): the other ends' lines, recv and write move    *)
(* together, and what the sketch calls in between takes none.  Levels are  *)
(* logical, as both polarities of _inverse_logic make them.                *)
(***************************************************************************)
EXTENDS Integers, Sequences, FiniteSets

CONSTANTS
  Serials,    \* the SoftwareSerial objects, one pin each
  RingSize,   \* _SS_MAX_RX_BUFF
  DataBits,   \* bits of a byte
  MaxBytes    \* bound: bytes the other ends send

None == "none"

ASSUME SoftwareSerialAssumption ==
  /\ RingSize \in Nat \ {0} /\ DataBits \in Nat \ {0} /\ MaxBytes \in Nat
  /\ None \notin Serials

VARIABLES
  lines,     \* what each other end is sending: the byte and its bit on the line
  received,  \* bytes the other ends have sent
  pcmsk,     \* objects whose pin change interrupt is on
  pcif,      \* a pin change waits for its interrupt
  timed,     \* objects with delays, of a speed in the table
  activeObject,
  cpu,       \* the sketch, or recv or write and how far it is
  bits,      \* d, the bits recv has so far
  ring,      \* _receive_buffer
  ringHead,  \* _receive_buffer_head, where the sketch takes
  ringTail,  \* _receive_buffer_tail, where recv puts
  got,     \* d of a read that has not moved the head yet, if there is one
  overflow,  \* _buffer_overflow
  asked,     \* the object whose overflow() has read the flag and not cleared it
  owed,      \* what the active line has carried and the sketch has not read
  clean      \* no byte has come while it could not be heard from its start

softwareSerialVars == <<lines, received, pcmsk, pcif, timed, activeObject, cpu, bits,
                        ring, ringHead, ringTail, got, overflow, asked, owed, clean>>

Bytes == [1..DataBits -> {0, 1}]
Zeros == [b \in 1..DataBits |-> 0]
StopBit == DataBits + 2

\* A line at rest, and a byte: start bit, data, stop bit.
Rest == [byte |-> Zeros, at |-> 0]
Level(l) == IF l.at = 0 \/ l.at = StopBit THEN 1
            ELSE IF l.at = 1 THEN 0 ELSE l.byte[l.at - 1]
Between(l) == l.at \in {0, StopBit}

AtSketch == cpu.does = "sketch"
Idle == [does |-> "sketch", bit |-> 0]

\* available
Buffered == (ringTail + RingSize - ringHead) % RingSize
RingBytes == [k \in 1..Buffered |-> ring[(ringHead + k - 1) % RingSize]]

-----------------------------------------------------------------------------
(* The interrupt *)

\* Wrong on purpose: fills the last place too, and a full ring looks empty.
StoreFills(d) ==
  IF Buffered < RingSize
  THEN /\ ring' = [ring EXCEPT ![ringTail] = d]
       /\ ringTail' = (ringTail + 1) % RingSize
       /\ UNCHANGED overflow
  ELSE /\ overflow' = [overflow EXCEPT ![activeObject] = TRUE]
       /\ UNCHANGED <<ring, ringTail>>

\* The end of recv.
Store(d) ==
  IF (ringTail + 1) % RingSize # ringHead
  THEN /\ ring' = [ring EXCEPT ![ringTail] = d]
       /\ ringTail' = (ringTail + 1) % RingSize
       /\ UNCHANGED overflow
  ELSE /\ overflow' = [overflow EXCEPT ![activeObject] = TRUE]
       /\ UNCHANGED <<ring, ringTail>>

\* The test recv starts with.
StartBitSeen == Level(lines[activeObject]) = 0

\* handle_interrupt: any object's pin brings it to the active one.  Without
\* delays recv reads all bits at once.
HandleInterrupt ==
  /\ AtSketch /\ pcif /\ pcif' = FALSE
  /\ IF activeObject = None \/ ~StartBitSeen
       THEN UNCHANGED <<cpu, bits, ring, ringTail, overflow>>
     ELSE IF activeObject \in timed
       THEN /\ cpu' = [does |-> "recv", bit |-> 0] /\ bits' = Zeros
            /\ UNCHANGED <<ring, ringTail, overflow>>
       ELSE Store(Zeros) /\ UNCHANGED <<cpu, bits>>
  /\ UNCHANGED <<lines, received, pcmsk, timed, activeObject, ringHead, got, asked,
                 owed, clean>>

\* recv samples each bit in its middle, and returns in the stop bit.
RecvTicks(level) ==
  IF cpu.bit < DataBits
  THEN /\ cpu' = [cpu EXCEPT !.bit = @ + 1]
       /\ bits' = [bits EXCEPT ![cpu.bit + 1] = level]
       /\ UNCHANGED <<ring, ringTail, overflow>>
  ELSE /\ cpu' = Idle /\ bits' = Zeros
       /\ Store(bits)

\* write has interrupts off from the start bit to the last data bit.
WriteTicks ==
  /\ cpu' = IF cpu.bit < DataBits THEN [cpu EXCEPT !.bit = @ + 1] ELSE Idle
  /\ UNCHANGED <<bits, ring, ringTail, overflow>>

-----------------------------------------------------------------------------
(* Time *)

\* Where a line may be one bit later.
Later(l) == IF ~Between(l) THEN {[l EXCEPT !.at = @ + 1]}
            ELSE {Rest} \cup {[byte |-> b, at |-> 1] : b \in Bytes}

\* What becomes of the bytes the active line owes when it goes from l to k.
Carries(l) ==
  /\ owed' = IF l.at = StopBit /\ Len(owed) < RingSize - 1 THEN Append(owed, l.byte)
             ELSE owed
  /\ clean' = (clean /\ (Between(l) \/ (cpu.does # "write" /\ activeObject \in pcmsk
                                        /\ activeObject \in timed)))

\* An interrupt that can start has started before the next bit.
Tick ==
  /\ ~(AtSketch /\ pcif)
  /\ \E next \in [Serials -> UNION {Later(lines[s]) : s \in Serials}] :
       LET starts == {s \in Serials : next[s].at = 1}
       IN /\ \A s \in Serials : next[s] \in Later(lines[s])
          /\ received + Cardinality(starts) <= MaxBytes
          /\ received' = received + Cardinality(starts)
          /\ lines' = next
          /\ pcif' = (pcif \/ \E s \in pcmsk : Level(next[s]) # Level(lines[s]))
          /\ IF activeObject = None THEN UNCHANGED <<owed, clean>>
             ELSE Carries(next[activeObject])
          /\ CASE cpu.does = "recv" -> RecvTicks(Level(next[activeObject]))
               [] cpu.does = "write" -> WriteTicks
               [] OTHER -> UNCHANGED <<cpu, bits, ring, ringTail, overflow>>
  /\ UNCHANGED <<pcmsk, timed, activeObject, ringHead, got, asked>>

-----------------------------------------------------------------------------
(* What the sketch calls *)

SketchSteps == AtSketch /\ ~pcif /\ got = <<>> /\ asked = None

\* listen: the ring starts afresh when the object was not the active one.
Listen(s) ==
  /\ activeObject' = s
  /\ IF s = activeObject THEN UNCHANGED <<ringHead, ringTail, overflow, owed, clean>>
     ELSE /\ overflow' = [overflow EXCEPT ![s] = FALSE]
          /\ ringHead' = 0 /\ ringTail' = 0
          /\ owed' = <<>> /\ clean' = Between(lines[s])

listen(s) ==
  /\ SketchSteps /\ Listen(s)
  /\ UNCHANGED <<lines, received, pcmsk, pcif, timed, cpu, bits, ring, got, asked>>

\* begin(speed): the interrupt is turned on for a speed the table knows.
beginAt(s, known) ==
  /\ SketchSteps /\ Listen(s)
  /\ timed' = IF known THEN timed \cup {s} ELSE timed \ {s}
  /\ pcmsk' = IF known THEN pcmsk \cup {s} ELSE pcmsk
  /\ UNCHANGED <<lines, received, pcif, cpu, bits, ring, got, asked>>

end(s) ==
  /\ SketchSteps /\ pcmsk' = pcmsk \ {s}
  /\ UNCHANGED <<lines, received, pcif, timed, activeObject, cpu, bits, ring,
                 ringHead, ringTail, got, overflow, asked, owed, clean>>

\* read of the active object takes the byte and then moves the head; recv
\* may come in between.  Of another object, or of an empty ring, it is -1.
readTakes ==
  /\ SketchSteps /\ ringHead # ringTail
  /\ got' = <<ring[ringHead]>>
  /\ UNCHANGED <<lines, received, pcmsk, pcif, timed, activeObject, cpu, bits, ring,
                 ringHead, ringTail, overflow, asked, owed, clean>>

readMoves ==
  /\ AtSketch /\ ~pcif /\ got # <<>>
  /\ got' = <<>> /\ ringHead' = (ringHead + 1) % RingSize
  /\ owed' = IF owed = <<>> THEN owed ELSE Tail(owed)
  /\ UNCHANGED <<lines, received, pcmsk, pcif, timed, activeObject, cpu, bits, ring,
                 ringTail, overflow, asked, clean>>

\* write: an error without delays.
write(s) ==
  /\ SketchSteps /\ s \in timed
  /\ cpu' = [does |-> "write", bit |-> 0]
  /\ UNCHANGED <<lines, received, pcmsk, pcif, timed, activeObject, bits, ring,
                 ringHead, ringTail, got, overflow, asked, owed, clean>>

flush ==
  /\ SketchSteps /\ ringHead' = 0 /\ ringTail' = 0 /\ owed' = <<>>
  /\ UNCHANGED <<lines, received, pcmsk, pcif, timed, activeObject, cpu, bits, ring,
                 got, overflow, asked, clean>>

\* overflow() reads the flag, and clears it whatever has happened since.
overflowReads(s) ==
  /\ SketchSteps /\ asked' = s
  /\ UNCHANGED <<lines, received, pcmsk, pcif, timed, activeObject, cpu, bits, ring,
                 ringHead, ringTail, got, overflow, owed, clean>>

overflowClears ==
  /\ AtSketch /\ ~pcif /\ asked # None
  /\ overflow' = [overflow EXCEPT ![asked] = FALSE] /\ asked' = None
  /\ UNCHANGED <<lines, received, pcmsk, pcif, timed, activeObject, cpu, bits, ring,
                 ringHead, ringTail, got, owed, clean>>

-----------------------------------------------------------------------------

SoftwareSerialInit ==
  /\ lines = [s \in Serials |-> Rest] /\ received = 0
  /\ pcmsk = {} /\ pcif = FALSE /\ timed = {} /\ activeObject = None
  /\ cpu = Idle /\ bits = Zeros
  /\ ring = [k \in 0..(RingSize - 1) |-> Zeros] /\ ringHead = 0 /\ ringTail = 0
  /\ got = <<>> /\ overflow = [s \in Serials |-> FALSE] /\ asked = None
  /\ owed = <<>> /\ clean = TRUE

SoftwareSerialNext ==
  \/ Tick \/ HandleInterrupt
  \/ \E s \in Serials :
       \/ listen(s) \/ end(s) \/ write(s) \/ overflowReads(s)
       \/ \E known \in BOOLEAN : beginAt(s, known)
  \/ readTakes \/ readMoves \/ flush \/ overflowClears

SoftwareSerialSpec == SoftwareSerialInit /\ [][SoftwareSerialNext]_softwareSerialVars

-----------------------------------------------------------------------------

\* The sketch reads what the line of the object it listens to has carried,
\* byte by byte and in order, and only what found the ring full is missing:
\* pins of other objects, and reads that recv interrupts, change nothing.  It
\* is so as long as no byte comes while the sketch sends or the interrupt is
\* off, and listening starts between bytes.
ReadsAreExact ==
  clean => /\ RingBytes = owed
           /\ got # <<>> => got = <<Head(owed)>>

=============================================================================
