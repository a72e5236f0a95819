---------------------------- MODULE AquilaBridge ----------------------------
(***************************************************************************)
(* The bridge between a PC on the serial line and the mesh: it carries out *)
(* the PC's commands and answers each, and passes received packets on.     *)
(*                                                                         *)
(* The PC sends one frame after another and waits for the answer to each,  *)
(* as the cases in Bridge.ino have it; it gives up waiting when the line    *)
(* lost or changed a byte, or the mesh refused a packet.  From the PC to   *)
(* the bridge the line is modelled byte by byte, back only by commands.    *)
(***************************************************************************)
EXTENDS Slip, FiniteSets

CONSTANTS
  Packets,    \* packets that other nodes send
  Commands,    \* the frames the PC may send, without their CRC
  Noise,       \* what a damaged byte may become
  MaxCommands, \* bound: frames the PC sends
  MaxFaults    \* bound: bytes the line loses or changes

VARIABLES
  line,       \* bytes on their way to the bridge
  framesSent, \* frames the PC has sent
  faults,
  unheard,    \* commands sent and not carried out, oldest first
  expecting,  \* the command the PC waits to be answered, if there is one
  hurt,       \* frames that may be missed since the last fault: that and the next
  atRadio,    \* packets that Mesh has accepted and not confirmed
  refused,    \* Mesh has refused a packet
  nwkIb,      \* addr and panId of the network layer
  registers,  \* the transceiver's: panId, shortAddr, channel
  own,        \* pan and channel, the bridge's own copies
  shortAddr,  \* what Mesh.getShortAddr returns
  secEnabled,
  key,        \* nwkIb.key, 0 before there is one
  told,       \* the last CMD_SET_OPT and CMD_SET_SECURITY the PC was sent
  passedOn,   \* the last packet passed on to the PC
  madeUp,     \* a command was carried out that the PC did not send
  stray       \* the CRC of a frame shorter than its CRC was looked at

meshVars == <<nwkIb, registers, shortAddr, secEnabled, key>>
pcVars == <<told, passedOn>>
bridgeVars == <<slipVars, line, framesSent, faults, unheard, expecting, hurt, atRadio, refused,
                meshVars, own, pcVars, madeUp, stray>>

CMD_DATA == 0
CMD_ACK == 1
CMD_NACK == 2
CMD_GET_OPT == 3
CMD_SET_OPT == 4
CMD_GET_SECURITY == 5
CMD_SET_SECURITY == 6
CMD_START == 7
CMD_PING == 8
CMD_GET_LONG_ADDR == 9
CMD_SET_LONG_ADDR == 10

\* "Cases" of Bridge.ino: what answers a command.
AnswersTo(command) ==
  CASE command = CMD_DATA -> {CMD_ACK, CMD_NACK}
    [] command \in {CMD_GET_OPT, CMD_SET_OPT} -> {CMD_SET_OPT}
    [] command \in {CMD_GET_SECURITY, CMD_SET_SECURITY} -> {CMD_SET_SECURITY}
    [] command = CMD_PING -> {CMD_START}
    [] command = CMD_GET_LONG_ADDR -> {CMD_SET_LONG_ADDR}

\* sendComBuffer, and the PC that gets the frame.
sendComBuffer(frame) ==
  /\ expecting' = IF expecting # <<>> /\ frame[1] \in AnswersTo(expecting[1])
                  THEN <<>> ELSE expecting
  /\ told' = [options |-> IF frame[1] = CMD_SET_OPT THEN frame ELSE told.options,
              security |-> IF frame[1] = CMD_SET_SECURITY THEN frame ELSE told.security]

-----------------------------------------------------------------------------
(* The PC and the line *)

Encoded == [data \in Commands |-> OnTheLine(WithCrc(data))]

PcSends(data) ==
  /\ expecting = <<>> /\ line = <<>> /\ framesSent < MaxCommands
  /\ framesSent' = framesSent + 1
  /\ line' = Encoded[data]
  /\ unheard' = Append(unheard, data) /\ expecting' = data
  /\ hurt' = IF hurt > 0 THEN hurt - 1 ELSE 0
  /\ UNCHANGED <<slipVars, faults, atRadio, refused, meshVars, own, pcVars, madeUp, stray>>

PcGivesUp ==
  /\ expecting # <<>> /\ line = <<>> /\ (hurt > 0 \/ refused)
  /\ expecting' = <<>>
  /\ UNCHANGED <<slipVars, line, framesSent, faults, unheard, hurt, atRadio, refused, meshVars,
                 own, pcVars, madeUp, stray>>

\* The line loses a byte, or changes it.
Fault ==
  /\ line # <<>> /\ faults < MaxFaults /\ faults' = faults + 1
  /\ \/ line' = Tail(line)
     \/ \E byte \in Noise \ {line[1]} : line' = <<byte>> \o Tail(line)
  /\ hurt' = 2
  /\ UNCHANGED <<slipVars, framesSent, unheard, expecting, atRadio, refused, meshVars, own,
                 pcVars, madeUp, stray>>

-----------------------------------------------------------------------------
(* What the settings of a node pass through, down to the transceiver *)

Low(word) == word % 256
High(word) == word \div 256
Word(low, high) == low + 256 * high

PHY_SetPanId(r, panId) == [r EXCEPT !.panId = <<Low(panId), High(panId)>>]
PHY_SetShortAddr(r, addr) == [r EXCEPT !.shortAddr = <<Low(addr), High(addr)>>]

\* phySetChannel, in band 0: nobody calls PHY_SetBand.
PHY_SetChannel(r, channel) == [r EXCEPT !.channel = channel]

NWK_SetAddr(n, addr) == [n EXCEPT !.addr = addr]
NWK_SetPanId(n, panId) == [n EXCEPT !.panId = panId]

\* Mesh.setChannel, Mesh.setAddr and Mesh.setPanId
SetNode(channel, addr, panId) ==
  /\ nwkIb' = NWK_SetPanId(NWK_SetAddr(nwkIb, addr), panId)
  /\ registers' =
       PHY_SetPanId(PHY_SetShortAddr(PHY_SetChannel(registers, channel), addr), panId)

\* Mesh.setSecurityKey and Mesh.setSecurityEnabled
SetNodeSecurity(newKey, enabled) == key' = newKey /\ secEnabled' = enabled

-----------------------------------------------------------------------------
(* The bridge *)

Size(data) == data[10]

\* txSend: Mesh accepts the packet, or it does not and nobody is told.
txSend ==
  \/ atRadio' = atRadio + 1 /\ UNCHANGED refused
  \/ refused' = TRUE /\ UNCHANGED atRadio

OptionsFrame(channel, pan) ==
  <<CMD_SET_OPT, 0, Low(pan), High(pan), channel, Low(shortAddr), High(shortAddr)>>
sendSecurity(enabled) == sendComBuffer(<<CMD_SET_SECURITY, enabled>>)
sendStart == sendComBuffer(<<CMD_START>>)
sendLongAddr == sendComBuffer(<<CMD_SET_LONG_ADDR, 0, 0, 0, 0, 0, 0, 0, 0>>)
sendAck(rssi) == sendComBuffer(<<CMD_ACK, rssi>>)
sendNack(cause) == sendComBuffer(<<CMD_NACK, cause>>)

\* setChannel and setPan keep a copy of what they hand on.
KeepOptions(channel, pan) == own' = [channel |-> channel, pan |-> pan]

SetsOptions(data) ==
  /\ SetNode(data[5], Word(data[6], data[7]), Word(data[3], data[4]))
  /\ KeepOptions(data[5], Word(data[3], data[4]))
  /\ sendComBuffer(OptionsFrame(own'.channel, own'.pan))
  /\ UNCHANGED <<secEnabled, key, atRadio, refused>>

SetsSecurity(data) ==
  /\ SetNodeSecurity(SubSeq(data, 3, 18), data[2])
  /\ sendSecurity(secEnabled')
  /\ UNCHANGED <<nwkIb, registers, own, atRadio, refused>>

\* parseCommand, of a command that is whole.
parseCommand(data) ==
  /\ UNCHANGED shortAddr
  /\ \/ data[1] = CMD_SET_OPT /\ SetsOptions(data)
     \/ data[1] = CMD_SET_SECURITY /\ SetsSecurity(data)
     \/ /\ data[1] = CMD_DATA /\ txSend
        /\ UNCHANGED <<nwkIb, registers, own, secEnabled, key, expecting, told>>
     \/ /\ \/ data[1] = CMD_GET_OPT /\ sendComBuffer(OptionsFrame(own.channel, own.pan))
           \/ data[1] = CMD_GET_SECURITY /\ sendSecurity(secEnabled)
           \/ data[1] = CMD_PING /\ sendStart
           \/ data[1] = CMD_GET_LONG_ADDR /\ sendLongAddr
        /\ UNCHANGED <<nwkIb, registers, own, secEnabled, key, atRadio, refused>>

\* parseCommand does something with it.
IsWhole(data) ==
  CASE data = <<>> -> FALSE
    [] data # <<>> /\ data[1] = CMD_DATA ->
         Len(data) >= 10 /\ Len(data) >= 10 + Size(data) /\ Size(data) <= 128
    [] data # <<>> /\ data[1] = CMD_SET_OPT -> Len(data) >= 7
    [] data # <<>> /\ data[1] = CMD_SET_SECURITY -> Len(data) >= 18
    [] OTHER -> data[1] \in {CMD_GET_OPT, CMD_GET_SECURITY, CMD_PING, CMD_GET_LONG_ADDR}

\* The command is taken off those that are to be carried out, and what came
\* before it with it; one that is too short is dropped.
CarryOut(data) ==
  LET at == {k \in DOMAIN unheard : unheard[k] = data}
  IN IF ~IsWhole(data)
     THEN UNCHANGED <<unheard, expecting, atRadio, refused, meshVars, own, told, madeUp>>
     ELSE /\ parseCommand(data)
          /\ IF at = {} THEN madeUp' = TRUE /\ UNCHANGED unheard
             ELSE /\ unheard' = SubSeq(unheard, Min(at) + 1, Len(unheard))
                  /\ UNCHANGED madeUp

\* Wrong on purpose: leaves the CRC out of account.
onDataUnchecked(frame) ==
  /\ CarryOut(SubSeq(frame, 1, IF Len(frame) < 2 THEN 0 ELSE Len(frame) - 2))
  /\ UNCHANGED stray

\* onData.  Of a frame shorter than its CRC the two bytes lie before the
\* buffer: whether they are right, and what the command then is, is open.
onData(frame) ==
  \/ /\ Len(frame) >= 2 /\ CrcIsRight(frame)
     /\ CarryOut(SubSeq(frame, 1, Len(frame) - 2)) /\ UNCHANGED stray
  \/ /\ Len(frame) >= 2 /\ ~CrcIsRight(frame)
     /\ UNCHANGED <<unheard, expecting, atRadio, refused, meshVars, own, told, madeUp, stray>>
  \/ /\ Len(frame) < 2 /\ stray' = TRUE
     /\ UNCHANGED <<unheard, expecting, atRadio, refused, meshVars, own, told, madeUp>>
  \/ /\ Len(frame) < 2 /\ stray' = TRUE
     /\ \E data \in Commands : CarryOut(data)

\* slip.loop, one byte each time round.
ReadByte ==
  /\ line # <<>>
  /\ line' = Tail(line)
  /\ SlipLoop(line[1])
  /\ IF Completes(line[1]) THEN \E frame \in {parseEscapes[slipBuffer]} : onData(frame)
     ELSE UNCHANGED <<unheard, expecting, atRadio, refused, meshVars, own, told, madeUp, stray>>
  /\ UNCHANGED <<framesSent, faults, hurt, passedOn>>

\* txCb, by the status.
txCb ==
  /\ atRadio > 0 /\ atRadio' = atRadio - 1
  /\ sendAck(0) \/ sendNack(1)
  /\ UNCHANGED <<slipVars, line, framesSent, faults, unheard, hurt, refused, meshVars, own,
                 passedOn, madeUp, stray>>

\* rxHandler: how good the link was, who sends to whom, and the data.
rxHandler(ind) ==
  LET frame == <<CMD_DATA, ind.lqi, ind.rssi, Low(ind.srcAddr), High(ind.srcAddr),
                 Low(ind.dstAddr), High(ind.dstAddr), ind.srcEndpoint, ind.dstEndpoint,
                 Len(ind.data)>> \o ind.data
  IN  /\ passedOn' = frame /\ sendComBuffer(frame)
      /\ UNCHANGED <<slipVars, line, framesSent, faults, unheard, hurt, atRadio, refused,
                     meshVars, own, madeUp, stray>>

-----------------------------------------------------------------------------

\* begin, with the address, channel and PAN of Bridge.ino
BridgeInit ==
  /\ SlipInit
  /\ line = <<>> /\ framesSent = 0 /\ faults = 0 /\ unheard = <<>> /\ expecting = <<>>
  /\ hurt = 0 /\ atRadio = 0 /\ refused = FALSE
  /\ shortAddr = 255 /\ own = [channel |-> 26, pan |-> 51802]
  /\ nwkIb = [addr |-> 255, panId |-> 51802]
  /\ registers = [panId |-> <<90, 202>>, shortAddr |-> <<255, 0>>, channel |-> 26]
  /\ secEnabled = 0 /\ key = <<>>
  /\ told = [options |-> <<>>, security |-> <<>>] /\ passedOn = <<>>
  /\ madeUp = FALSE /\ stray = FALSE

BridgeNext ==
  \/ \E data \in Commands : PcSends(data)
  \/ PcGivesUp \/ Fault \/ ReadByte \/ txCb
  \/ \E ind \in Packets : rxHandler(ind)

BridgeSpec == BridgeInit /\ [][BridgeNext]_bridgeVars

-----------------------------------------------------------------------------

\* The bridge carries out no command the PC did not send, whole and at most
\* once, whatever byte the line loses or changes, as long as no frame is cut
\* down to less than its CRC.
NothingMadeUp == madeUp => stray

\* The PAN, the channel and the security the PC was told last are those of
\* the transceiver and the network layer, below the copies the bridge keeps.
TellsWhatIs ==
  /\ told.options # <<>> =>
       /\ SubSeq(told.options, 3, 4) = registers.panId
       /\ told.options[5] = registers.channel
       /\ nwkIb.panId = Word(told.options[3], told.options[4])
  /\ told.security # <<>> => told.security[2] = secEnabled

\* Both: the bridge does what the PC asks for and says what it did.
CarriesOutSent == NothingMadeUp /\ TellsWhatIs

\* Every command is answered, also after a fault: when the line is silent and
\* Mesh has confirmed its packets, the PC waits only for the frame the fault
\* hit or the next one, or for a packet that Mesh refused.
AnsweredAgain ==
  line = <<>> /\ atRadio = 0 /\ expecting # <<>> => hurt > 0 \/ refused

\* "Returns the current options", Bridge.ino:29: the address the bridge
\* tells is the one its network layer has.
OptionsAreCurrent ==
  told.options # <<>> => Word(told.options[6], told.options[7]) = nwkIb.addr

=============================================================================
