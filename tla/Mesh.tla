-------------------------------- MODULE Mesh --------------------------------
(***************************************************************************)
(* AquilaMesh, which lies between a sketch and the LwMesh network layer:   *)
(* packets to send and received packets wait in two buffers, one request   *)
(* at a time is with the network layer, and the sketch gets its callbacks  *)
(* from inside Mesh.loop.                                                  *)
(*                                                                         *)
(* Everything runs on one call stack, and the stack is a variable: a       *)
(* callback that delays reaches yield, and from there may enter Mesh.loop  *)
(* again before the first loop is done.  MaxLoops bounds how deep.         *)
(*                                                                         *)
(* Of the network layer the module keeps what Mesh can tell: the request   *)
(* it owns, which it confirms once (NwkService), whether it is busy with a *)
(* frame of another node (NWK_Busy is the lock of NwkNode), and what it    *)
(* indicates.  A packet to send is its number, in the order of sendPacket. *)
(***************************************************************************)
EXTENDS Integers, Sequences, SequencesExt, FiniteSets

CONSTANTS
  TxSize,    \* MESHTXBUFFER_SIZE
  RxSize,    \* MESHRXBUFFER_SIZE
  MaxLoops,  \* calls of Mesh.loop on the stack
  Security,  \* what setup passed to setSecurityEnabled
  MaxSend,   \* bound: packets the sketch gets accepted
  MaxRx      \* bound: frames other nodes send

ASSUME MeshAssumption ==
  /\ TxSize \in 1..255 /\ RxSize \in 1..255 /\ MaxLoops \in Nat \ {0}
  /\ Security \in BOOLEAN /\ MaxSend \in Nat /\ MaxRx \in Nat

VARIABLES
  txBuf,    \* txBuffer
  txBusy,
  txUser,   \* txUserConfirm: the packet whose callback it is, 0 for NULL
  txHeld,   \* static bufPacket of sendNow
  requests, \* times bufPacket is linked in nwkDataReqQueue
  rxBuf,    \* rxBuffer
  foreign,  \* the frame of another node in the pool
  stack,    \* what is being executed, innermost last
  isAsleep,
  accepted, \* packets sendPacket has accepted
  told,     \* the packet whose callback was called last
  arrived,  \* frames other nodes have sent
  seen      \* the received packet whose callback was called last

txVars == <<txBuf, txBusy, txUser, txHeld, requests, accepted, told>>
rxVars == <<rxBuf, foreign, arrived, seen>>
vars == <<txVars, rxVars, stack, isAsleep>>

TxPackets == 0..MaxSend
NoPacket == 0

NWK_Busy == requests > 0 \/ foreign # "none"

\* The functions a call stack may be in.  "sys", "attend" and "send" are the
\* three calls of Mesh.loop; "confirm" and "receive" are callbacks.
Places == {"sys", "attend", "send", "confirm", "receive", "sleep"}
Loops == Cardinality({k \in DOMAIN stack : stack[k] \in {"sys", "attend", "send"}})

In(place) == stack # <<>> /\ Last(stack) = place
Enters(place) == stack' = Append(stack, place)
Moves(place) == stack' = [stack EXCEPT ![Len(stack)] = place]
Returns == stack' = Front(stack)

\* The sketch's own code is running.
InSketch == stack = <<>> \/ In("confirm") \/ In("receive")

-----------------------------------------------------------------------------
(* Mesh.loop: SYS_TaskHandler, rxAttendPend, sendNow *)

Loop ==
  /\ InSketch /\ ~isAsleep /\ Loops < MaxLoops
  /\ Enters("sys")
  /\ UNCHANGED <<txVars, rxVars, isAsleep>>

\* A frame gets into the pool, for this node or to be passed on.
NwkReceive ==
  /\ In("sys") /\ foreign = "none" /\ arrived < MaxRx
  /\ foreign' = "received" /\ arrived' = arrived + 1
  /\ UNCHANGED <<txVars, rxBuf, seen, stack, isAsleep>>

\* rxBootstrap: FALSE, and no acknowledgement, if the buffer is full or the
\* packet lacks the security this node asks for.
NwkIndicate(secured) ==
  /\ In("sys") /\ foreign = "received"
  /\ foreign' = "ending"
  /\ rxBuf' = IF Len(rxBuf) = RxSize \/ (Security /\ ~secured) THEN rxBuf
              ELSE Append(rxBuf, arrived)
  /\ UNCHANGED <<txVars, arrived, seen, stack, isAsleep>>

NwkForward ==
  /\ In("sys") /\ foreign = "received" /\ foreign' = "ending"
  /\ UNCHANGED <<txVars, rxBuf, arrived, seen, stack, isAsleep>>

NwkFrameEnds ==
  /\ In("sys") /\ foreign = "ending" /\ foreign' = "none"
  /\ UNCHANGED <<txVars, rxBuf, arrived, seen, stack, isAsleep>>

\* Wrong on purpose: forgets the callback before it is called.
NwkConfirmClears ==
  /\ In("sys") /\ requests > 0
  /\ requests' = requests - 1
  /\ txBusy' = FALSE
  /\ txUser' = NoPacket
  /\ Enters("confirm")
  /\ UNCHANGED <<txBuf, txHeld, accepted, told, rxVars, isAsleep>>

\* Wrong on purpose: stays busy.
NwkConfirmStaysBusy ==
  /\ In("sys") /\ requests > 0
  /\ requests' = requests - 1
  /\ IF txUser = NoPacket
       THEN UNCHANGED <<told, stack>>
       ELSE told' = txUser /\ Enters("confirm")
  /\ UNCHANGED <<txBuf, txBusy, txUser, txHeld, accepted, rxVars, isAsleep>>

\* nwkDataReqConfirm calls txConfirm, which calls the sketch's callback.
NwkConfirm ==
  /\ In("sys") /\ requests > 0
  /\ requests' = requests - 1
  /\ txBusy' = FALSE
  /\ IF txUser = NoPacket
       THEN UNCHANGED <<told, stack>>
       ELSE told' = txUser /\ Enters("confirm")
  /\ UNCHANGED <<txBuf, txUser, txHeld, accepted, rxVars, isAsleep>>

\* The callback returns to txConfirm, and txUserConfirm becomes NULL.
ConfirmReturn ==
  /\ In("confirm") /\ Returns
  /\ txUser' = NoPacket
  /\ UNCHANGED <<txBuf, txBusy, txHeld, requests, accepted, told, rxVars, isAsleep>>

SysReturn ==
  /\ In("sys") /\ Moves("attend")
  /\ UNCHANGED <<txVars, rxVars, isAsleep>>

\* Wrong on purpose: leaves the packet in the buffer.
AttendKeeps ==
  /\ In("attend") /\ rxBuf # <<>> /\ ~NWK_Busy
  /\ seen' = Head(rxBuf) /\ rxBuf' = rxBuf
  /\ stack' = Front(stack) \o <<"send", "receive">>
  /\ UNCHANGED <<foreign, arrived, txVars, isAsleep>>

\* The callback gets the packet, and returns to rxAttendPend, which has
\* nothing more to do.
Attend ==
  /\ In("attend") /\ rxBuf # <<>> /\ ~NWK_Busy
  /\ seen' = Head(rxBuf) /\ rxBuf' = Tail(rxBuf)
  /\ stack' = Front(stack) \o <<"send", "receive">>
  /\ UNCHANGED <<foreign, arrived, txVars, isAsleep>>

AttendNothing ==
  /\ In("attend") /\ (rxBuf = <<>> \/ NWK_Busy)
  /\ Moves("send")
  /\ UNCHANGED <<txVars, rxVars, isAsleep>>

ReceiveReturn ==
  /\ In("receive") /\ Returns
  /\ UNCHANGED <<txVars, rxVars, isAsleep>>

\* Wrong on purpose: looks at nothing but its buffer.
SendNowAlways ==
  /\ In("send") /\ txBuf # <<>>
  /\ txHeld' = Head(txBuf) /\ txUser' = Head(txBuf) /\ txBuf' = Tail(txBuf)
  /\ txBusy' = TRUE /\ requests' = requests + 1
  /\ Returns
  /\ UNCHANGED <<accepted, told, rxVars, isAsleep>>

\* The packet goes to bufPacket, its callback to txUserConfirm, and
\* NWK_DataReq links bufPacket in its queue.
SendNow ==
  /\ In("send") /\ txBuf # <<>> /\ ~txBusy /\ ~NWK_Busy
  /\ txHeld' = Head(txBuf) /\ txUser' = Head(txBuf) /\ txBuf' = Tail(txBuf)
  /\ txBusy' = TRUE /\ requests' = requests + 1
  /\ Returns
  /\ UNCHANGED <<accepted, told, rxVars, isAsleep>>

SendNothing ==
  /\ In("send") /\ (txBuf = <<>> \/ txBusy \/ NWK_Busy)
  /\ Returns
  /\ UNCHANGED <<txVars, rxVars, isAsleep>>

-----------------------------------------------------------------------------
(* What a sketch calls *)

\* FALSE, and nothing happens, when the buffer is full.
sendPacket ==
  /\ InSketch /\ Len(txBuf) < TxSize /\ accepted < MaxSend
  /\ accepted' = accepted + 1
  /\ txBuf' = Append(txBuf, accepted')
  /\ UNCHANGED <<txBusy, txUser, txHeld, requests, told, rxVars, stack, isAsleep>>

\* sleep: loops while the network layer is busy, then turns the radio off.  It
\* is called from the sketch's loop, as in the examples, and not from a callback.
Sleep ==
  /\ stack = <<>> /\ ~isAsleep
  /\ Enters("sleep")
  /\ UNCHANGED <<txVars, rxVars, isAsleep>>

SleepLoops ==
  /\ In("sleep") /\ NWK_Busy
  /\ Enters("sys")
  /\ UNCHANGED <<txVars, rxVars, isAsleep>>

\* Wrong on purpose: does not wait.
FallAsleepAtOnce ==
  /\ In("sleep") /\ Returns /\ isAsleep' = TRUE
  /\ UNCHANGED <<txVars, rxVars>>

FallAsleep ==
  /\ In("sleep") /\ ~NWK_Busy /\ Returns /\ isAsleep' = TRUE
  /\ UNCHANGED <<txVars, rxVars>>

wakeup ==
  /\ stack = <<>> /\ isAsleep /\ isAsleep' = FALSE
  /\ UNCHANGED <<txVars, rxVars, stack>>

-----------------------------------------------------------------------------

\* The constructor.
Init ==
  /\ txBuf = <<>> /\ txBusy = FALSE /\ txUser = NoPacket
  /\ txHeld = NoPacket /\ requests = 0
  /\ rxBuf = <<>> /\ foreign = "none"
  /\ stack = <<>> /\ isAsleep = FALSE
  /\ accepted = 0 /\ told = NoPacket /\ arrived = 0 /\ seen = 0

\* The steps that need nothing but the processor to go on.
Runs ==
  \/ SysReturn \/ Attend \/ AttendNothing \/ SendNow \/ SendNothing
  \/ ConfirmReturn \/ ReceiveReturn
  \/ SleepLoops \/ FallAsleep

Next ==
  \/ Loop \/ Runs
  \/ NwkReceive \/ NwkForward \/ NwkFrameEnds \/ NwkConfirm
  \/ \E secured \in BOOLEAN : NwkIndicate(secured)
  \/ sendPacket \/ Sleep \/ wakeup

Spec == Init /\ [][Next]_vars

\* Callbacks return, a sleeping sketch wakes up, and one that is awake does
\* not for ever go without Mesh.loop.  The network layer gets rid of every
\* frame and confirms every request if its task handler keeps being called
\* (FallsSilent and RequestsConfirmed of NwkNode).
Fairness ==
  /\ WF_vars(Runs) /\ SF_vars(ConfirmReturn) /\ SF_vars(ReceiveReturn)
  /\ SF_vars(Loop /\ stack = <<>>) /\ WF_vars(wakeup)
  /\ SF_vars(NwkForward \/ NwkFrameEnds) /\ SF_vars(NwkConfirm)

FairSpec == Spec /\ Fairness

-----------------------------------------------------------------------------
(* Invariants *)

\* Every variable has its type.
TypeOK ==
  /\ txBuf \in Seq(1..MaxSend) /\ Len(txBuf) <= TxSize
  /\ txBusy \in BOOLEAN /\ txUser \in TxPackets /\ txHeld \in TxPackets
  /\ requests \in Nat
  /\ rxBuf \in Seq(1..MaxRx) /\ Len(rxBuf) <= RxSize
  /\ foreign \in {"none", "received", "ending"}
  /\ stack \in Seq(Places)
  /\ isAsleep \in BOOLEAN
  /\ accepted \in TxPackets /\ told \in TxPackets
  /\ arrived \in 0..MaxRx /\ seen \in 0..MaxRx

\* The network layer owns the one bufPacket of sendNow at most once, so that
\* no request is overwritten while it is queued, and txBusy says whether it
\* does.  It holds for callbacks that enter Mesh.loop, too.
OneRequest == requests <= 1 /\ (txBusy <=> requests = 1)

\* The radio is off only while nothing is to be sent or awaited.
SleepsIdle == isAsleep => ~NWK_Busy /\ stack = <<>>

\* What was accepted and has not had its callback.
Untold == (IF requests > 0 THEN <<txHeld>> ELSE <<>>) \o txBuf

\* The receiving half is a queue, too.
Receiving == INSTANCE Fifo WITH
  Packets <- 0..MaxRx, Size <- RxSize, queue <- rxBuf, out <- seen

\* What Mesh has acknowledged to the sender it hands to the sketch once, and
\* in the order it came.
DeliveredInOrder == Receiving!Spec

\* The buffer of received packets empties: each is handed to the sketch,
\* once the network layer has a moment when it is not busy.
AllDelivered == rxBuf # <<>> ~> rxBuf = <<>>

=============================================================================
