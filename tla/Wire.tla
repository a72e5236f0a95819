-------------------------------- MODULE Wire --------------------------------
(***************************************************************************)
(* Wire and its interrupt handler (Wire.cpp, utility/twi.c) on a two-wire  *)
(* bus.  The sketch calls Wire; the calls wait for the handler, which the  *)
(* two-wire unit interrupts them with.  The rest of the bus is a device    *)
(* that answers, and another master that addresses this node at any moment *)
(* it finds the bus free or wins it.  What each side does depends on the   *)
(* part this node plays, which Init chooses.                               *)
(*                                                                         *)
(* The handler runs before the sketch goes on, and to its end at once, but *)
(* for the STOP of what another master sends: there the bus is free before *)
(* the sketch's onReceive has been called.  Between the test of twi_state, *)
(* the filling of the buffer and the write to TWCR it may run.             *)
(***************************************************************************)
EXTENDS Integers, Sequences, SequencesExt

CONSTANTS
  BufferLength,   \* TWI_BUFFER_LENGTH, which is also BUFFER_LENGTH
  Roles           \* what Init chooses from: the role, "master", "slave" or
                  \* "both"; whether the sketch registers its callbacks; and
                  \* the bounds: calls of the sketch that use the bus,
                  \* transfers of the other master, and illegal conditions

ASSUME WireAssumption == BufferLength \in Nat \ {0}

VARIABLES
  twi,     \* the static variables of twi.c
  wire,    \* the class variables of TwoWire
  bus,     \* TWCR, TWSR and TWDR, and who has the bus
  sketch,  \* where the sketch is in a call, and what the last one returned
  peer     \* what the device and the other master have sent and received

wireVars == <<twi, wire, bus, sketch, peer>>

Zero == <<"zero", 0>>
Beyond == <<"beyond", 0>>   \* what lies behind a buffer
\* SLA+W or SLA+R: the address with the direction; "own" is this node's, which
\* another master has sent.
Address(kind) == <<kind, 0>>
Blank == [k \in 1..BufferLength |-> Zero]
Prefix(buffer, n) == [k \in 1..n |-> buffer[k]]
Filled(buffer, bytes) ==
  [k \in 1..BufferLength |-> IF k <= Len(bytes) THEN bytes[k] ELSE buffer[k]]
Least(a, b) == IF a < b THEN a ELSE b

-----------------------------------------------------------------------------
(* Answers of the handler: twi_reply, twi_stop, twi_releaseBus *)

Interrupted(codes) == bus.ie /\ ~twi.handling /\ bus.status \in codes

Reply(ack) == [bus EXCEPT !.status = "none", !.ea = ack, !.sta = FALSE, !.ie = TRUE]
ReplyWith(byte, ack) == [Reply(ack) EXCEPT !.data = byte]
twi_releaseBus == Reply(TRUE)
twi_stop == [Reply(TRUE) EXCEPT !.phase = "free"]

\* The repeated START is on the bus before the sketch calls again, as twi.c
\* hopes, and waits with the interrupt disabled.
HoldBus == [bus EXCEPT !.status = "REP_START", !.sta = FALSE, !.ie = FALSE,
                       !.ea = FALSE, !.phase = "held"]

\* The end of a transfer as twi_sendStop has it; "t" is what twi.c has become.
EndOfTransfer(t) ==
  /\ bus' = IF t.sendStop THEN twi_stop ELSE HoldBus
  /\ twi' = [t EXCEPT !.state = "READY", !.inRepStart = @ \/ ~t.sendStop]

-----------------------------------------------------------------------------
(* ISR(TWI_vect), the node as master *)

StartSent ==
  /\ Interrupted({"START"})
  /\ bus' = ReplyWith(twi.slarw, TRUE)
  /\ UNCHANGED <<twi, wire, sketch, peer>>

MasterSend ==
  /\ Interrupted({"MT_SLA_ACK", "MT_DATA_ACK"})
  /\ IF twi.index < twi.length
       THEN /\ bus' = ReplyWith(twi.buffer[twi.index + 1], TRUE)
            /\ twi' = [twi EXCEPT !.index = @ + 1]
       ELSE EndOfTransfer(twi)
  /\ UNCHANGED <<wire, sketch, peer>>

MasterRefused ==
  /\ Interrupted({"MT_SLA_NACK", "MT_DATA_NACK"})
  /\ bus' = twi_stop
  /\ twi' = [twi EXCEPT !.state = "READY", !.error = bus.status]
  /\ UNCHANGED <<wire, sketch, peer>>

ArbitrationLost ==
  /\ Interrupted({"ARB_LOST"})
  /\ bus' = [twi_releaseBus EXCEPT !.phase = "free"]
  /\ twi' = [twi EXCEPT !.state = "READY", !.error = bus.status]
  /\ UNCHANGED <<wire, sketch, peer>>

\* A byte goes into the buffer whatever its length.
Received ==
  [twi EXCEPT !.buffer = [k \in DOMAIN @ |-> IF k = twi.index + 1 THEN bus.data ELSE @[k]],
              !.index = @ + 1]

MasterReceive ==
  /\ Interrupted({"MR_SLA_ACK", "MR_DATA_ACK"})
  /\ twi' = IF bus.status = "MR_DATA_ACK" THEN Received ELSE twi
  /\ bus' = Reply(twi'.index < twi.length)
  /\ UNCHANGED <<wire, sketch, peer>>

MasterReceiveLast ==
  /\ Interrupted({"MR_DATA_NACK"})
  /\ EndOfTransfer(Received)
  /\ UNCHANGED <<wire, sketch, peer>>

MasterReceiveRefused ==
  /\ Interrupted({"MR_SLA_NACK"})
  /\ bus' = twi_stop
  /\ twi' = [twi EXCEPT !.state = "READY"]
  /\ UNCHANGED <<wire, sketch, peer>>

-----------------------------------------------------------------------------
(* ISR(TWI_vect), the node addressed by another master *)

\* Wrong on purpose: goes on after what an earlier transfer has left.
SlaveAddressedGoesOn ==
  /\ Interrupted({"SR_SLA_ACK", "SR_ARB_LOST_SLA_ACK"})
  /\ twi' = [twi EXCEPT !.state = "SRX"]
  /\ bus' = Reply(TRUE)
  /\ UNCHANGED <<wire, sketch, peer>>

SlaveAddressed ==
  /\ Interrupted({"SR_SLA_ACK", "SR_ARB_LOST_SLA_ACK"})
  /\ twi' = [twi EXCEPT !.state = "SRX", !.rx = <<>>]
  /\ bus' = Reply(TRUE)
  /\ UNCHANGED <<wire, sketch, peer>>

SlaveReceive ==
  /\ Interrupted({"SR_DATA_ACK"})
  /\ IF Len(twi.rx) < BufferLength
       THEN bus' = Reply(TRUE) /\ twi' = [twi EXCEPT !.rx = Append(@, bus.data)]
       ELSE bus' = Reply(FALSE) /\ UNCHANGED twi
  /\ UNCHANGED <<wire, sketch, peer>>

\* Not addressed any more, and no answer to an address: no SR_STOP will come.
SlaveRefuses ==
  /\ Interrupted({"SR_DATA_NACK"})
  /\ bus' = Reply(FALSE)
  /\ UNCHANGED <<twi, wire, sketch, peer>>

\* TwoWire::onReceiveService and the sketch's onReceive, which reads all or
\* nothing; nothing happens while bytes of an earlier read are left.
OnReceiveDrops == ~sketch.registered \/ wire.rxIndex < wire.rxLength
onReceiveService(bytes, count) ==
  [wire EXCEPT !.rx = Filled(@, bytes), !.rxLength = Len(bytes), !.rxIndex = count]

SlaveStop ==
  /\ Interrupted({"SR_STOP"})
  /\ bus' = twi_stop
  /\ twi' = [twi EXCEPT !.state = "READY", !.handling = TRUE]
  /\ IF OnReceiveDrops THEN UNCHANGED <<wire, peer>>
     ELSE /\ \E count \in {0, Len(twi.rx)} : wire' = onReceiveService(twi.rx, count)
          /\ peer' = [peer EXCEPT !.heard = <<Prefix(wire'.rx, Len(twi.rx))>>]
  /\ UNCHANGED sketch

\* The rest of the handler: it clears the interrupt once more, also that of an
\* address that has come in since the STOP.
SlaveStopDone ==
  /\ twi.handling
  /\ twi' = [twi EXCEPT !.state = "READY", !.rx = <<>>, !.handling = FALSE]
  /\ bus' = twi_releaseBus
  /\ peer' = [peer EXCEPT !.unseen = @ \/ bus.status = "ST_SLA_ACK"]
  /\ UNCHANGED <<wire, sketch>>

\* TwoWire::onRequestService and the sketch's onRequest, which writes "reply":
\* while a transmission of its own is being put together, into that.  Else of
\* several writes each takes the place of the one before, and "reply" is the last.
onRequestService(reply) ==
  IF wire.transmitting
    THEN [wire EXCEPT !.tx = Filled(@, reply), !.txLength = Len(reply)]
    ELSE [wire EXCEPT !.txLength = 0]

\* twi_transmit, called by TwoWire::write from inside the callback.
twi_transmit(reply) ==
  IF sketch.registered /\ ~wire.transmitting /\ reply # <<>> THEN reply ELSE <<Zero>>

SlaveAsked ==
  /\ Interrupted({"ST_SLA_ACK", "ST_ARB_LOST_SLA_ACK"})
  /\ \E reply \in {[k \in 1..n |-> <<"reply", peer.foreign>>] : n \in 0..BufferLength} :
       LET sends == twi_transmit(reply)
       IN  /\ wire' = IF sketch.registered THEN onRequestService(reply) ELSE wire
           /\ twi' = [twi EXCEPT !.state = "STX", !.tx = Filled(@, sends),
                                 !.txLength = Len(sends), !.txIndex = 1]
           /\ bus' = ReplyWith(Head(sends), Len(sends) > 1)
           /\ peer' = [peer EXCEPT !.replied = IF sketch.registered THEN reply ELSE <<>>]
  /\ UNCHANGED sketch

\* A call that starts meanwhile switches the acknowledge on again, and the
\* other master may take more than there is.
SlaveSend ==
  /\ Interrupted({"ST_DATA_ACK"})
  /\ twi' = [twi EXCEPT !.txIndex = @ + 1]
  /\ bus' = ReplyWith(IF twi.txIndex < BufferLength THEN twi.tx[twi.txIndex + 1] ELSE Beyond,
                      twi'.txIndex < twi.txLength)
  /\ UNCHANGED <<wire, sketch, peer>>

\* Wrong on purpose: leaves the state a slave transmitter's.
SlaveSentStays ==
  /\ Interrupted({"ST_DATA_NACK", "ST_LAST_DATA"})
  /\ bus' = Reply(TRUE)
  /\ UNCHANGED <<twi, wire, sketch, peer>>

SlaveSent ==
  /\ Interrupted({"ST_DATA_NACK", "ST_LAST_DATA"})
  /\ bus' = Reply(TRUE)
  /\ twi' = [twi EXCEPT !.state = "READY"]
  /\ UNCHANGED <<wire, sketch, peer>>

BusErrorSeen ==
  /\ Interrupted({"BUS_ERROR"})
  /\ bus' = twi_stop
  /\ twi' = [twi EXCEPT !.state = "READY", !.error = bus.status]
  /\ UNCHANGED <<wire, sketch, peer>>

TWI_vect ==
  \/ StartSent \/ MasterSend \/ MasterRefused \/ ArbitrationLost
  \/ MasterReceive \/ MasterReceiveLast \/ MasterReceiveRefused
  \/ SlaveAddressed \/ SlaveReceive \/ SlaveRefuses \/ SlaveStop \/ SlaveStopDone
  \/ SlaveAsked \/ SlaveSend \/ SlaveSent \/ BusErrorSeen

-----------------------------------------------------------------------------
(* The sketch's calls *)

Runs(pc) == sketch.pc = pc /\ ~twi.handling /\ (bus.ie => bus.status = "none")
Goes(pc) == sketch' = [sketch EXCEPT !.pc = pc]

Calls == sketch.role # "slave" /\ Runs("idle") /\ sketch.calls < sketch.maxCalls

beginTransmission ==
  /\ Calls
  /\ sketch' = [sketch EXCEPT !.pc = "filling", !.calls = @ + 1, !.wrote = <<>>,
                              !.since = peer.foreign]
  /\ wire' = [wire EXCEPT !.transmitting = TRUE, !.txLength = 0]
  /\ UNCHANGED <<twi, bus, peer>>

\* TwoWire::write.  A byte too many is refused.
write ==
  /\ Runs("filling") /\ wire.txLength < BufferLength
  /\ LET byte == <<"message", sketch.calls>>
     IN  /\ wire' = [wire EXCEPT !.tx[wire.txLength + 1] = byte, !.txLength = @ + 1]
         /\ sketch' = [sketch EXCEPT !.wrote = Append(@, byte)]
  /\ UNCHANGED <<twi, bus, peer>>

endTransmission ==
  /\ Runs("filling")
  /\ \E stop \in BOOLEAN :
       sketch' = [sketch EXCEPT !.pc = "wait", !.kind = "MTX", !.length = wire.txLength, !.stop = stop]
  /\ UNCHANGED <<twi, wire, bus, peer>>

requestFrom ==
  /\ Calls
  /\ \E quantity \in 1..BufferLength + 1, stop \in BOOLEAN :
       sketch' = [sketch EXCEPT !.pc = "wait", !.kind = "MRX", !.calls = @ + 1, !.stop = stop,
                                !.length = Least(quantity, BufferLength),
                                !.since = peer.foreign]
  /\ UNCHANGED <<twi, wire, bus, peer>>

\* twi_writeTo and twi_readFrom up to the test of twi_state.  That is ready also
\* while the other master sends after an address that went unseen, and while a
\* START is left of an earlier call that another master broke off.
SeesReady ==
  /\ Runs("wait") /\ twi.state = "READY"
  /\ sketch' = [sketch EXCEPT !.pc = "set",
                              !.since = IF bus.phase \in {"free", "held"} /\ ~bus.sta THEN @ ELSE -1]
  /\ UNCHANGED <<twi, wire, bus, peer>>

WriteSetsUp ==
  /\ Runs("set") /\ sketch.kind = "MTX"
  /\ twi' = [twi EXCEPT !.state = "MTX", !.sendStop = sketch.stop, !.error = "none",
                        !.index = 0, !.length = sketch.length, !.slarw = Address("MTX"),
                        !.buffer = Filled(@, Prefix(wire.tx, sketch.length))]
  /\ Goes("start")
  /\ UNCHANGED <<wire, bus, peer>>

\* The length of a read is that of all but the last byte.
ReadSetsUp ==
  /\ Runs("set") /\ sketch.kind = "MRX"
  /\ twi' = [twi EXCEPT !.state = "MRX", !.sendStop = sketch.stop, !.error = "none",
                        !.index = 0, !.length = sketch.length - 1, !.slarw = Address("MRX")]
  /\ Goes("start")
  /\ UNCHANGED <<wire, bus, peer>>

Starts ==
  /\ Runs("start")
  /\ twi' = [twi EXCEPT !.inRepStart = FALSE]
  /\ bus' = [bus EXCEPT !.status = "none", !.ea = TRUE, !.ie = TRUE,
                        !.sta = ~twi.inRepStart,
                        !.data = IF twi.inRepStart THEN twi.slarw ELSE @,
                        !.phase = IF twi.inRepStart THEN "started" ELSE @]
  /\ Goes("busy")
  /\ UNCHANGED <<wire, peer>>

\* endTransmission returns 0 if no error was seen.
WriteEnds ==
  /\ Runs("busy") /\ sketch.kind = "MTX" /\ twi.state # "MTX"
  /\ wire' = [wire EXCEPT !.txLength = 0, !.transmitting = FALSE]
  /\ sketch' = [sketch EXCEPT !.pc = "idle",
                            !.result = IF twi.error = "none" THEN "written" ELSE "error"]
  /\ UNCHANGED <<twi, bus, peer>>

\* requestFrom copies what came, and then says how much.
ReadCopies ==
  /\ Runs("busy") /\ sketch.kind = "MRX" /\ twi.state # "MRX"
  /\ LET n == Least(twi.index, sketch.length)
     IN  /\ wire' = [wire EXCEPT !.rx = Filled(@, Prefix(twi.buffer, n))]
         /\ sketch' = [sketch EXCEPT !.pc = "copied", !.length = n]
  /\ UNCHANGED <<twi, bus, peer>>

ReadEnds ==
  /\ Runs("copied")
  /\ wire' = [wire EXCEPT !.rxIndex = 0, !.rxLength = sketch.length]
  /\ sketch' = [sketch EXCEPT !.pc = "idle", !.result = "read"]
  /\ UNCHANGED <<twi, bus, peer>>

read ==
  /\ Runs("idle") /\ wire.rxIndex < wire.rxLength
  /\ wire' = [wire EXCEPT !.rxIndex = @ + 1]
  /\ UNCHANGED <<twi, bus, sketch, peer>>

SketchGoesOn == SeesReady \/ WriteSetsUp \/ ReadSetsUp \/ Starts \/ WriteEnds \/ ReadCopies \/ ReadEnds

-----------------------------------------------------------------------------
(* The bus.  A code of TWSR stays until the handler or a call has answered. *)

BusMoves(phase) == bus.status = "none" /\ bus.phase = phase
Signals(code, phase) == bus' = [bus EXCEPT !.status = code, !.phase = phase]
SignalsByte(code, phase, byte) ==
  bus' = [bus EXCEPT !.status = code, !.phase = phase, !.data = byte]

OurStart ==
  /\ BusMoves("free") /\ bus.sta
  /\ Signals("START", "started")
  /\ UNCHANGED <<twi, wire, sketch, peer>>

OurAddress ==
  /\ BusMoves("started")
  /\ \E ack \in BOOLEAN :
       IF bus.data = Address("MTX")
         THEN /\ Signals(IF ack THEN "MT_SLA_ACK" ELSE "MT_SLA_NACK", "sending")
              /\ peer' = [peer EXCEPT !.got = <<>>]
         ELSE /\ Signals(IF ack THEN "MR_SLA_ACK" ELSE "MR_SLA_NACK", "receiving")
              /\ peer' = [peer EXCEPT !.gave = <<>>]
  /\ UNCHANGED <<twi, wire, sketch>>

OurByte ==
  /\ BusMoves("sending")
  /\ \/ Signals("MT_DATA_ACK", "sending") /\ peer' = [peer EXCEPT !.got = Append(@, bus.data)]
     \/ Signals("MT_DATA_NACK", "sending") /\ UNCHANGED peer
  /\ UNCHANGED <<twi, wire, sketch>>

DeviceByte ==
  /\ BusMoves("receiving")
  /\ LET byte == <<"device", Len(peer.gave) + 1>>
     IN  /\ SignalsByte(IF bus.ea THEN "MR_DATA_ACK" ELSE "MR_DATA_NACK", "receiving", byte)
         /\ peer' = [peer EXCEPT !.gave = Append(@, byte)]
  /\ UNCHANGED <<twi, wire, sketch>>

Foreign == sketch.role # "master" /\ peer.foreign < sketch.maxForeign
Addressing(code) ==
  IF code \in {"SR_SLA_ACK", "SR_ARB_LOST_SLA_ACK"}
    THEN SignalsByte(code, "addressed", Address("own"))
           /\ peer' = [peer EXCEPT !.foreign = @ + 1, !.sent = <<>>, !.heard = <<>>]
    ELSE SignalsByte(code, "asked", Address("own"))
           /\ peer' = [peer EXCEPT !.foreign = @ + 1, !.asked = <<>>, !.unseen = FALSE]

\* The other master finds the bus free, or wins it from this node.
ForeignStart ==
  /\ BusMoves("free") /\ bus.ea /\ Foreign
  /\ \E code \in {"SR_SLA_ACK", "ST_SLA_ACK"} : Addressing(code)
  /\ UNCHANGED <<twi, wire, sketch>>

ForeignWins ==
  /\ BusMoves("started") /\ Foreign
  /\ \/ \E code \in {"SR_ARB_LOST_SLA_ACK", "ST_ARB_LOST_SLA_ACK"} : Addressing(code)
     \/ Signals("ARB_LOST", "started") /\ peer' = [peer EXCEPT !.foreign = @ + 1]
  /\ UNCHANGED <<twi, wire, sketch>>

ForeignByte ==
  /\ BusMoves("addressed") /\ Len(peer.sent) < BufferLength + 2
  /\ LET byte == <<"foreign", peer.foreign>>
     IN  /\ SignalsByte(IF bus.ea THEN "SR_DATA_ACK" ELSE "SR_DATA_NACK",
                        IF bus.ea THEN "addressed" ELSE "free", byte)
         /\ peer' = [peer EXCEPT !.sent = Append(@, byte)]
  /\ UNCHANGED <<twi, wire, sketch>>

ForeignStop ==
  /\ BusMoves("addressed")
  /\ Signals("SR_STOP", "free")
  /\ UNCHANGED <<twi, wire, sketch, peer>>

ForeignTakes ==
  /\ BusMoves("asked")
  /\ \/ bus.ea /\ Signals("ST_DATA_ACK", "asked")
     \/ ~bus.ea /\ Signals("ST_LAST_DATA", "free")
     \/ Signals("ST_DATA_NACK", "free")
  /\ peer' = [peer EXCEPT !.asked = Append(@, bus.data)]
  /\ UNCHANGED <<twi, wire, sketch>>

BusError ==
  /\ bus.status = "none" /\ bus.phase \notin {"free", "held"} /\ peer.errors < sketch.maxErrors
  /\ Signals("BUS_ERROR", "free")
  /\ peer' = [peer EXCEPT !.errors = @ + 1]
  /\ UNCHANGED <<twi, wire, sketch>>

\* What the bus owes the node: its START, its bytes, and the other's last STOP.
BusGoesOn == OurStart \/ OurAddress \/ OurByte \/ DeviceByte \/ ForeignStop \/ ForeignTakes

-----------------------------------------------------------------------------

WireInit ==
  /\ twi = [state |-> "READY", sendStop |-> TRUE, inRepStart |-> FALSE, error |-> "none",
            index |-> 0, length |-> 0, buffer |-> Blank, slarw |-> Address("MTX"), rx |-> <<>>,
            tx |-> Blank, txIndex |-> 0, txLength |-> 0, handling |-> FALSE]
  /\ wire = [rx |-> Blank, rxIndex |-> 0, rxLength |-> 0, tx |-> Blank, txLength |-> 0,
             transmitting |-> FALSE]
  /\ bus = [status |-> "none", phase |-> "free", sta |-> FALSE, ea |-> TRUE, ie |-> TRUE,
            data |-> Zero]
  /\ \E r \in Roles :
       sketch = [pc |-> "idle", role |-> r.role, registered |-> r.registered, calls |-> 0,
                 maxCalls |-> r.calls, maxForeign |-> r.foreign, maxErrors |-> r.errors,
                 kind |-> "MTX", length |-> 0, stop |-> TRUE, wrote |-> <<>>, result |-> "none",
                 since |-> 0]
  /\ peer = [got |-> <<>>, gave |-> <<>>, sent |-> <<>>, heard |-> <<>>, asked |-> <<>>,
             replied |-> <<>>, unseen |-> FALSE, foreign |-> 0, errors |-> 0]

WireNext ==
  \/ TWI_vect
  \/ beginTransmission \/ write \/ endTransmission \/ requestFrom \/ read \/ SketchGoesOn
  \/ BusGoesOn \/ ForeignStart \/ ForeignWins \/ ForeignByte \/ BusError

WireSpec == WireInit /\ [][WireNext]_wireVars

WireFair == WF_wireVars(TWI_vect) /\ WF_wireVars(SketchGoesOn) /\ WF_wireVars(BusGoesOn)

-----------------------------------------------------------------------------
(* Properties *)

\* The other master has not addressed this node since the call began, and when
\* the call saw the node ready, there was nothing left of an earlier transfer.
Alone == peer.foreign = sketch.since

\* A transmission that returns 0 has brought the device exactly the bytes that
\* were written, and a read returns the first bytes the device gave, in one
\* transfer or several that hold the bus, whatever the other master did before
\* the call.  (When it addresses the node during the call, endTransmission may
\* return 0 and nothing has been sent.)
MasterExact ==
  Alone /\ sketch.pc = "idle" =>
    /\ sketch.result = "written" => peer.got = sketch.wrote
    /\ sketch.result = "read" /\ wire.rxIndex < wire.rxLength =>
         Prefix(wire.rx, wire.rxLength) = peer.gave

\* The other master's bytes reach the sketch whole and unmixed, up to the size
\* of the buffer, also after a transfer that was broken off; what it reads is
\* what the sketch replied to this request, or one zero, unless the request
\* came in while the sketch's onReceive ran and went unseen.
OtherExact ==
  /\ peer.heard # <<>> =>
       peer.heard[1] = SubSeq(peer.sent, 1, Least(Len(peer.sent), BufferLength))
  /\ sketch.role = "slave" /\ ~peer.unseen =>
       IsPrefix(peer.asked, IF peer.replied = <<>> THEN <<Zero>> ELSE peer.replied)

\* Every transfer is exact, of this node's and of the other master's.
TransfersAreExact == MasterExact /\ OtherExact

\* The other master has sent more than the buffer holds: the handler has
\* switched off the acknowledge, and with it the START of a call that waits;
\* nothing will interrupt any more.
Deaf ==
  /\ Len(peer.sent) > BufferLength
  /\ bus.phase = "free" /\ bus.status = "none" /\ ~bus.ea /\ ~bus.sta

\* Every call returns, whatever device and bus do, unless the node is deaf.
InCall == sketch.pc \in {"wait", "set", "start", "busy", "copied"}
CallsReturn == InCall ~> ~InCall \/ Deaf

=============================================================================
