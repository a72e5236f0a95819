-------------------------------- MODULE Phy --------------------------------
(***************************************************************************)
(* The driver of the transceiver, phy.c.  The transceiver goes its own way *)
(* meanwhile: it receives a frame into its one buffer, acknowledges it,    *)
(* sends what is in the buffer and says by two flags that it is done.      *)
(* PHY_TaskHandler looks at the flags from the main loop; between two of   *)
(* its accesses the transceiver may take any step.                         *)
(*                                                                         *)
(* A command to the transceiver is one step with the wait for its effect:  *)
(* forced off, it receives and ends nothing.  The receiver protects a      *)
(* frame in the buffer until rxSafeMode is turned off or the transceiver   *)
(* leaves the state it receives in.  A frame is its number; its two halves *)
(* are read and written one after the other.                               *)
(***************************************************************************)
EXTENDS Integers

CONSTANT MaxAired  \* bound: frames other nodes send

ASSUME PhyAssumption == MaxAired \in Nat

VARIABLES
  phyState,
  phyRxState,
  trxStatus,  \* state of the transceiver
  tracStatus, \* how the last transmission ended
  irqStatus,  \* rxEnd and txEnd, those that are set
  trxBuffer,  \* the frame each half of the frame buffer is of
  kept,       \* the buffer is protected
  handler,    \* where PHY_TaskHandler is
  copied,     \* the first half of phyRxBuffer
  aired,      \* frames that were on the air
  asked,      \* the request of the network layer: none, asked, or how it ended
  confirmed,  \* the status of the last PHY_DataConf
  indicated,  \* the frame of the last PHY_DataInd, -1 for one of two frames
  cut         \* the receiver was set or the node ended while a frame was sent

phyVars == <<phyState, phyRxState, trxStatus, tracStatus, irqStatus, trxBuffer, kept, handler,
             copied, aired, asked, confirmed, indicated, cut>>

TracStatuses == {"SUCCESS", "CHANNEL_ACCESS_FAILURE", "NO_ACK", "OTHER"}
Statuses == {"SUCCESS", "CHANNEL_ACCESS_FAILURE", "NO_ACK", "ERROR"}

\* What the driver makes of the status in the register.
StatusOf(trac) == IF trac = "OTHER" THEN "ERROR" ELSE trac

-----------------------------------------------------------------------------
(* The transceiver *)

driverVars == <<phyState, phyRxState, handler, copied, confirmed, indicated, cut>>

FrameBegins ==
  /\ trxStatus = "RX_AACK_ON" /\ ~kept /\ aired < MaxAired
  /\ trxStatus' = "BUSY_RX" /\ aired' = aired + 1
  /\ trxBuffer' = [trxBuffer EXCEPT ![1] = aired']
  /\ UNCHANGED <<driverVars, tracStatus, irqStatus, kept, asked>>

\* A frame with a wrong checksum, or for another node, is forgotten.
FrameFails ==
  /\ trxStatus = "BUSY_RX" /\ trxStatus' = "RX_AACK_ON"
  /\ UNCHANGED <<driverVars, tracStatus, irqStatus, trxBuffer, kept, aired, asked>>

\* The end of a frame that is to be acknowledged leaves the transceiver busy.
FrameEnds ==
  /\ trxStatus = "BUSY_RX" /\ trxStatus' \in {"RX_AACK_ON", "BUSY_ACK"}
  /\ trxBuffer' = [trxBuffer EXCEPT ![2] = aired]
  /\ irqStatus' = irqStatus \cup {"rxEnd"} /\ kept' = TRUE
  /\ UNCHANGED <<driverVars, tracStatus, aired, asked>>

\* The acknowledgement may leave the flag of a transmission behind.
AckSent ==
  /\ trxStatus = "BUSY_ACK" /\ trxStatus' = "RX_AACK_ON"
  /\ \/ irqStatus' = irqStatus \cup {"txEnd"}
     \/ UNCHANGED irqStatus
  /\ UNCHANGED <<driverVars, tracStatus, trxBuffer, kept, aired, asked>>

FrameSent ==
  /\ trxStatus = "BUSY_TX" /\ trxStatus' = "TX_ARET_ON"
  /\ \E trac \in TracStatuses : tracStatus' = trac /\ asked' = StatusOf(trac)
  /\ irqStatus' = irqStatus \cup {"txEnd"}
  /\ UNCHANGED <<driverVars, trxBuffer, kept, aired>>

TransceiverGoesOn == FrameFails \/ FrameEnds \/ AckSent \/ FrameSent

-----------------------------------------------------------------------------
(* What the driver tells the transceiver *)

trxVars == <<trxStatus, irqStatus, kept>>

\* phyTrxSetState
SetState(state) == trxStatus' = state /\ kept' = FALSE

\* phySetRxState clears the flags while the transceiver is off.
SetRxState(rx) ==
  SetState(IF rx THEN "RX_AACK_ON" ELSE "TRX_OFF") /\ irqStatus' = {}

\* No call comes from inside PHY_TaskHandler, PHY_DataInd or PHY_DataConf.
Called == handler = "returned"

\* PHY_SetRxState, by Mesh.begin and Mesh.end.
PHY_SetRxState(rx) ==
  /\ Called /\ phyState # "SLEEP"
  /\ phyRxState' = rx /\ SetRxState(rx)
  /\ cut' = (cut \/ asked # "none")
  /\ UNCHANGED <<phyState, tracStatus, trxBuffer, handler, copied, aired, asked, confirmed,
                 indicated>>

\* Mesh.sleep waits until the network layer is not busy.
PHY_Sleep ==
  /\ Called /\ phyState = "IDLE" /\ asked = "none"
  /\ phyState' = "SLEEP" /\ SetState("SLEEP")
  /\ UNCHANGED <<phyRxState, tracStatus, irqStatus, trxBuffer, handler, copied, aired, asked,
                 confirmed, indicated, cut>>

PHY_Wakeup ==
  /\ Called /\ phyState = "SLEEP"
  /\ phyState' = "IDLE" /\ SetRxState(phyRxState)
  /\ UNCHANGED <<phyRxState, tracStatus, trxBuffer, handler, copied, aired, asked, confirmed,
                 indicated, cut>>

\* The network layer has one frame with the driver at a time (OneTransmission
\* of NwkNode).  A frame that was heard and not read is written over.
PHY_DataReq ==
  /\ Called /\ phyState # "SLEEP" /\ asked = "none"
  /\ asked' = "asked" /\ phyState' = "TX_WAIT_END"
  /\ SetState("BUSY_TX") /\ irqStatus' = {}
  /\ trxBuffer' = <<0, 0>>
  /\ UNCHANGED <<phyRxState, tracStatus, handler, copied, aired, confirmed, indicated, cut>>

\* In a build that has them, both measure in the plain receiving state and
\* put the transceiver back to what it was.
Measures ==
  /\ Called /\ phyState = "IDLE"
  /\ SetRxState(phyRxState)
  /\ UNCHANGED <<phyState, phyRxState, tracStatus, trxBuffer, handler, copied, aired, asked,
                 confirmed, indicated, cut>>

PHY_EdReq == Measures
PHY_RandomReq == Measures

-----------------------------------------------------------------------------
(* PHY_TaskHandler, access by access *)

Keeps == UNCHANGED <<phyRxState, tracStatus, trxBuffer, aired, cut>>

\* Wrong on purpose: gives the buffer free before it has copied it.
PollsReleasing ==
  /\ Called /\ phyState # "SLEEP"
  /\ \/ /\ "rxEnd" \in irqStatus
        /\ copied' = trxBuffer[1] /\ handler' = "reads" /\ kept' = FALSE
     \/ /\ "rxEnd" \notin irqStatus /\ "txEnd" \in irqStatus
        /\ handler' = "asks" /\ UNCHANGED <<copied, kept>>
  /\ Keeps /\ UNCHANGED <<phyState, trxStatus, irqStatus, asked, confirmed, indicated>>

Polls ==
  /\ Called /\ phyState # "SLEEP"
  /\ \/ /\ "rxEnd" \in irqStatus
        /\ copied' = trxBuffer[1] /\ handler' = "reads"
     \/ /\ "rxEnd" \notin irqStatus /\ "txEnd" \in irqStatus
        /\ handler' = "asks" /\ UNCHANGED copied
  /\ Keeps /\ UNCHANGED <<phyState, trxVars, asked, confirmed, indicated>>

\* PHY_DataInd
Indicates ==
  /\ handler = "reads" /\ handler' = "waits"
  /\ indicated' = IF copied = trxBuffer[2] THEN copied ELSE -1
  /\ Keeps /\ UNCHANGED <<phyState, trxVars, copied, asked, confirmed>>

\* The acknowledgement goes out before the flag is cleared.
RxCleared ==
  /\ handler = "waits" /\ trxStatus = "RX_AACK_ON"
  /\ handler' = "releases" /\ irqStatus' = irqStatus \ {"rxEnd"}
  /\ Keeps /\ UNCHANGED <<phyState, trxStatus, kept, copied, asked, confirmed, indicated>>

\* rxSafeMode is turned off and on again.
Releases ==
  /\ handler = "releases" /\ handler' = "returned" /\ kept' = FALSE
  /\ Keeps /\ UNCHANGED <<phyState, trxStatus, irqStatus, copied, asked, confirmed, indicated>>

\* The status is only of a transmission if the transceiver is in the state
\* for transmissions; the flag may be that of an acknowledgement.
Confirms ==
  /\ handler = "asks" /\ handler' = "clears"
  /\ IF trxStatus = "TX_ARET_ON"
       THEN /\ SetRxState(phyRxState) /\ phyState' = "IDLE"
            /\ confirmed' = StatusOf(tracStatus) /\ asked' = "none"
       ELSE UNCHANGED <<phyState, trxVars, confirmed, asked>>
  /\ Keeps /\ UNCHANGED <<copied, indicated>>

\* Wrong on purpose: clears every flag.
TxClearedAll ==
  /\ handler = "clears" /\ handler' = "returned"
  /\ irqStatus' = {}
  /\ Keeps /\ UNCHANGED <<phyState, trxStatus, kept, copied, asked, confirmed, indicated>>

TxCleared ==
  /\ handler = "clears" /\ handler' = "returned"
  /\ irqStatus' = irqStatus \ {"txEnd"}
  /\ Keeps /\ UNCHANGED <<phyState, trxStatus, kept, copied, asked, confirmed, indicated>>

PHY_TaskHandler ==
  Polls \/ Indicates \/ RxCleared \/ Releases \/ Confirms \/ TxCleared

-----------------------------------------------------------------------------

\* PHY_Init, which turns rxSafeMode on.
PhyInit ==
  /\ phyState = "IDLE" /\ phyRxState = FALSE
  /\ trxStatus = "TRX_OFF" /\ tracStatus = "none" /\ irqStatus = {}
  /\ trxBuffer = <<0, 0>> /\ kept = FALSE
  /\ handler = "returned" /\ copied = 0 /\ aired = 0
  /\ asked = "none" /\ confirmed = "none" /\ indicated = 0 /\ cut = FALSE

PhyNext ==
  \/ FrameBegins \/ TransceiverGoesOn
  \/ \E rx \in BOOLEAN : PHY_SetRxState(rx)
  \/ PHY_Sleep \/ PHY_Wakeup \/ PHY_DataReq \/ PHY_EdReq \/ PHY_RandomReq
  \/ PHY_TaskHandler

\* The transceiver ends what it begins, and Mesh.loop calls PHY_TaskHandler.
PhyFair ==
  /\ WF_phyVars(TransceiverGoesOn) /\ WF_phyVars(PHY_TaskHandler)

PhySpec == PhyInit /\ [][PhyNext]_phyVars /\ PhyFair

-----------------------------------------------------------------------------

\* What the transceiver holds for the network layer: a frame whose flag is
\* set and which PHY_DataInd has not had.
Heard ==
  IF "rxEnd" \in irqStatus /\ handler \in {"returned", "reads"} THEN trxBuffer[2] ELSE 0

Service == INSTANCE Transceiver WITH
  Tracs <- Statuses, MaxFrames <- MaxAired,
  request <- asked, result <- confirmed, waiting <- Heard, told <- indicated

\* The driver is what the network layer takes it for: no frame is put
\* together from two, none is indicated twice, and a request is confirmed
\* once, after its transmission and with its status, not with the flag an
\* acknowledgement has left.
ImplementsRadio == Service!Spec

\* A buffer that is protected is read and released: the node would else hear
\* nothing any more.  Every request is confirmed, unless Mesh.end or
\* Mesh.begin has cut it off, and PHY_TaskHandler returns.
RadioAnswers ==
  /\ kept ~> ~kept
  /\ asked # "none" ~> asked = "none" \/ cut
  /\ handler # "returned" ~> handler = "returned"

=============================================================================
