------------------------------- MODULE WSerial -------------------------------
(***************************************************************************)
(* WSerial, a serial line over Mesh: bytes to send wait in one ring until  *)
(* loop, flush or a full ring makes a packet of all of them, and bytes     *)
(* received wait in another for the sketch.  One packet at a time is with  *)
(* Mesh, which confirms every packet it accepts and no other.              *)
(*                                                                         *)
(* loop sends when a millisecond has gone by since it last did, which it   *)
(* tells by comparing readings of millis(), a counter that wraps.          *)
(*                                                                         *)
(* A byte is its number.  The two readings of millis() in loop are one.    *)
(***************************************************************************)
EXTENDS Integers, Sequences

CONSTANTS
  WSize,      \* WSERIAL_BUFFER_SIZE
  Peer,       \* the address the sketch talks to
  Stranger,   \* another node's
  MillisRange, \* the range of millis()
  LoopGap,    \* the most milliseconds between two calls of loop
  MaxWritten, \* bound: bytes the sketch writes
  MaxHeard    \* bound: bytes that arrive

ASSUME WSerialAssumption ==
  /\ WSize \in Nat \ {0} /\ MaxWritten \in Nat /\ MaxHeard \in Nat /\ Peer # Stranger
  /\ MillisRange \in Nat \ {0} /\ LoopGap \in Nat \ {0}

VARIABLES
  outRing, outHead, outTail,  \* _tx_buffer
  inRing, inHead, inTail,     \* _rx_buffer
  destAddress, allowFromAny,
  now,        \* millis()
  lastTimeSent,
  sinceLoop,  \* milliseconds since loop was last called
  reqBusy,   \* appDataReqBusy
  atMesh,    \* a packet of WSerial that Mesh has still to confirm
  written,   \* bytes written so far
  outOwed,   \* those that are to be sent
  outLost,   \* a byte came when nothing could be done, or a packet was refused
  heard,     \* bytes that have arrived
  inOwed,    \* those the sketch is to read
  inLost     \* a packet has filled the ring to the last place

outVars == <<outRing, outHead, outTail, reqBusy, atMesh, written, outOwed, outLost>>
inVars == <<inRing, inHead, inTail, heard, inOwed, inLost>>
timeVars == <<now, lastTimeSent, sinceLoop>>
otherVars == <<timeVars, destAddress, allowFromAny>>
wserialVars == <<outVars, inVars, otherVars>>

SendInterval == 1   \* WSERIAL_SEND_INTERVAL

BROADCAST == "broadcast"
NoAddress == "invalid"

Used(head, tail) == (WSize + head - tail) % WSize
Content(buffer, head, tail) == [k \in 1..Used(head, tail) |-> buffer[(tail + k - 1) % WSize]]

-----------------------------------------------------------------------------
(* Sending *)

CanSend == outHead # outTail /\ ~reqBusy

\* sendPacketNow: everything in the ring becomes the packet, which Mesh
\* accepts or, when its buffer is full, refuses; WSerial takes no notice.
SendsPacket(accepted) ==
  /\ reqBusy' = TRUE /\ atMesh' = accepted
  /\ outLost' = (outLost \/ ~accepted)

sendPacketNow(accepted) ==
  /\ CanSend /\ SendsPacket(accepted)
  /\ outHead' = outTail /\ outOwed' = <<>>
  /\ UNCHANGED <<outRing, outTail, written, inVars>>

flushRing(accepted) == sendPacketNow(accepted) /\ UNCHANGED otherVars

\* loop takes the time also when there was nothing to send, or a request was
\* on its way.
loop(accepted) ==
  /\ IF now > (lastTimeSent + SendInterval) % MillisRange
       THEN /\ lastTimeSent' = now
            /\ \/ sendPacketNow(accepted)
               \/ ~CanSend /\ UNCHANGED <<outVars, inVars>>
       ELSE UNCHANGED <<lastTimeSent, outVars, inVars>>
  /\ sinceLoop' = 0
  /\ UNCHANGED <<now, destAddress, allowFromAny>>

MillisecondPasses ==
  /\ sinceLoop < LoopGap /\ sinceLoop' = sinceLoop + 1
  /\ now' = (now + 1) % MillisRange
  /\ UNCHANGED <<lastTimeSent, outVars, inVars, destAddress, allowFromAny>>

OutFull == (outHead + 1) % WSize = outTail

Puts(at, next) ==
  /\ outRing' = [outRing EXCEPT ![at] = written'] /\ outHead' = next
  /\ UNCHANGED outTail

\* write: a full ring is sent first.  While a request is on its way it
\* cannot be, and the head runs onto the tail.
write8(accepted) ==
  /\ written < MaxWritten /\ written' = written + 1
  /\ IF OutFull /\ CanSend
       THEN /\ SendsPacket(accepted)
            /\ Puts(outTail, (outTail + 1) % WSize)
            /\ outOwed' = <<written'>>
       ELSE /\ Puts(outHead, (outHead + 1) % WSize)
            /\ outOwed' = Append(outOwed, written')
            /\ outLost' = (outLost \/ OutFull)
            /\ UNCHANGED <<reqBusy, atMesh>>
  /\ UNCHANGED <<inVars, otherVars>>

\* Wrong on purpose: stays busy.
appDataCbForgets ==
  /\ atMesh /\ atMesh' = FALSE /\ reqBusy' = reqBusy
  /\ UNCHANGED <<outRing, outHead, outTail, written, outOwed, outLost, inVars, otherVars>>

\* appDataCb, the confirmation
appDataCb ==
  /\ atMesh /\ atMesh' = FALSE /\ reqBusy' = FALSE
  /\ UNCHANGED <<outRing, outHead, outTail, written, outOwed, outLost, inVars, otherVars>>

-----------------------------------------------------------------------------
(* Receiving *)

Accepts(src) == destAddress = BROADCAST \/ allowFromAny \/ src = destAddress

Fits(size) == size <= WSize - Used(inHead, inTail)

\* receiveMessage: dropped if there is no room, or from another address.
receiveMessage(src, size) ==
  /\ heard + size <= MaxHeard /\ heard' = heard + size
  /\ IF ~Accepts(src) \/ ~Fits(size) THEN UNCHANGED <<inRing, inHead, inOwed, inLost>>
     ELSE /\ inRing' = [k \in 0..(WSize - 1) |->
                          LET i == (k + WSize - inHead) % WSize
                          IN IF i < size THEN heard + i + 1 ELSE inRing[k]]
          /\ inHead' = (inHead + size) % WSize
          /\ inOwed' = inOwed \o [k \in 1..size |-> heard + k]
          /\ inLost' = (inLost \/ size = WSize - Used(inHead, inTail))
  /\ UNCHANGED <<inTail, outVars, otherVars>>

\* Wrong on purpose: does not wrap.
readStraight ==
  /\ inHead # inTail
  /\ inTail' = inTail + 1
  /\ inOwed' = IF inOwed = <<>> THEN inOwed ELSE Tail(inOwed)
  /\ UNCHANGED <<inRing, inHead, heard, inLost, outVars, otherVars>>

\* read
read8 ==
  /\ inHead # inTail
  /\ inTail' = (inTail + 1) % WSize
  /\ inOwed' = IF inOwed = <<>> THEN inOwed ELSE Tail(inOwed)
  /\ UNCHANGED <<inRing, inHead, heard, inLost, outVars, otherVars>>

-----------------------------------------------------------------------------
(* Setting up *)

setDest(address) ==
  /\ destAddress' = address
  /\ UNCHANGED <<outVars, inVars, timeVars, allowFromAny>>

\* end makes the destination an address no node has.
endConnection == destAddress # NoAddress /\ setDest(NoAddress)

setAllowFromAny(allow) ==
  /\ allowFromAny' = allow
  /\ UNCHANGED <<outVars, inVars, timeVars, destAddress>>

\* begin empties both rings; a request that is on its way stays so, and the
\* time of the last packet too.
begin(address) ==
  /\ destAddress' = address
  /\ outHead' = 0 /\ outTail' = 0 /\ inHead' = 0 /\ inTail' = 0
  /\ outOwed' = <<>> /\ inOwed' = <<>> /\ outLost' = ~(reqBusy => atMesh)
  /\ inLost' = FALSE
  /\ UNCHANGED <<outRing, inRing, reqBusy, atMesh, written, heard, timeVars, allowFromAny>>

-----------------------------------------------------------------------------

WSerialInit ==
  /\ outRing = [k \in 0..(WSize - 1) |-> 0] /\ outHead = 0 /\ outTail = 0
  /\ inRing = [k \in 0..(WSize - 1) |-> 0] /\ inHead = 0 /\ inTail = 0
  /\ destAddress = Peer /\ allowFromAny = FALSE
  /\ now = 0 /\ lastTimeSent = 0 /\ sinceLoop = 0
  /\ reqBusy = FALSE /\ atMesh = FALSE
  /\ written = 0 /\ outOwed = <<>> /\ outLost = FALSE
  /\ heard = 0 /\ inOwed = <<>> /\ inLost = FALSE

WSerialNext ==
  \/ \E accepted \in BOOLEAN : flushRing(accepted) \/ loop(accepted) \/ write8(accepted)
  \/ MillisecondPasses \/ appDataCb
  \/ \E src \in {Peer, Stranger}, size \in 1..WSize : receiveMessage(src, size)
  \/ read8
  \/ \E address \in {Peer, BROADCAST} : setDest(address) \/ begin(address)
  \/ endConnection
  \/ \E allow \in BOOLEAN : setAllowFromAny(allow)

\* Time goes on, the sketch calls loop time and again, and Mesh confirms.
WSerialFair ==
  /\ WF_wserialVars(appDataCb) /\ WF_wserialVars(MillisecondPasses)
  /\ WF_wserialVars(\E accepted \in BOOLEAN : loop(accepted))

WSerialSpec == WSerialInit /\ [][WSerialNext]_wserialVars

-----------------------------------------------------------------------------

\* The ring of bytes to send holds, in order, every byte written since the
\* last packet, so that packets carry each byte once: until the sketch
\* writes into a full ring while a request is on its way.
WritesAreExact == ~outLost => Content(outRing, outHead, outTail) = outOwed

\* Nothing holds back a packet, but loop took the time so shortly before the
\* wrap of millis() that it may not be called between the end of the interval
\* and the wrap: if the interval ends with the last value, none is above it.
OutOfTime ==
  ~reqBusy /\ MillisRange - 1 - (lastTimeSent + SendInterval) \in 0..(LoopGap - 1)

\* What is written is made into a packet sooner or later, by loop alone: the
\* request that holds it back is confirmed, and the next one is free to go;
\* unless Mesh refused a packet, or loop is out of time.
WritesAreSent == outOwed # <<>> ~> outOwed = <<>> \/ outLost \/ OutOfTime

\* The sketch reads the bytes that were accepted, in order, until a packet
\* fills the ring to the last place.
HeardIsExact == ~inLost => Content(inRing, inHead, inTail) = inOwed

\* The two streams of bytes are exact, each until its ring is lost.
BytesAreExact == WritesAreExact /\ HeardIsExact

=============================================================================
