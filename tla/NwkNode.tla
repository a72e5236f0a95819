------------------------------- MODULE NwkNode -------------------------------
(***************************************************************************)
(* One LwMesh node: the main loop over the receiving and the sending half, *)
(* its application, which submits requests, and its transceiver.           *)
(***************************************************************************)
EXTENDS NwkRx

Init ==
  /\ frames = [i \in Slots |-> FreeFrame]
  /\ queue = <<>>
  /\ reqs = [r \in Reqs |-> [state |-> "IDLE", status |-> "SUCCESS",
                             frame |-> NoSlot, opt |-> NoOptions]]
  /\ lock = 0 /\ seqNum = 0 /\ active = NoSlot
  /\ ackTimer = FALSE /\ delayTimer = FALSE
  /\ secCount = 0 /\ secActive = NoSlot /\ secEncrypt = FALSE /\ secLeft = 0
  /\ nextHop = [n \in Nodes |-> Bcast]
  /\ radio = [tx |-> "idle", trac |-> "SUCCESS", rx |-> NoFrame]
  /\ task = "phy" /\ cursor = 1
  /\ submitted = 0 /\ received = 0 /\ acked = {}

RxTask ==
  \/ \E i \in Slots :
       \/ RxIgnore(i) \/ RxOtherPan(i) \/ RxDuplicate(i) \/ RxAccept(i)
       \/ RxDecrypt(i)
       \/ RxIndicateData(i) \/ RxIndicateRouteError(i) \/ RxIndicateAck(i)
       \/ RxRoute(i) \/ RxRouteError(i)
       \/ RxFinish(i)
  \/ RxDone

TxTask ==
  \/ \E i \in Slots :
       \/ TxEncrypt(i) \/ TxDelay(i) \/ TxSend(i) \/ TxSent(i) \/ TxConfirm(i)
  \/ TxDone

\* The part of SYS_TaskHandler that needs nothing but to be called.
Loop == PhyTask \/ RxTask \/ TxTask \/ DataReqTask \/ SecurityTask \/ TimerDone

Timers == AckWaitTimerFires \/ DelayTimerFires

Application == \E r \in Reqs, opt \in ReqOptions : NWK_DataReq(r, opt)

Next == Loop \/ Timers \/ Application \/ RadioReceive \/ RadioTxEnd

Spec == Init /\ [][Next]_vars

\* The sketch calls Mesh.loop for ever, time passes, so that a started timer
\* gets to fire, and the transceiver always ends a transmission.  Nothing is
\* assumed of the application or of the other nodes.
Fairness ==
  /\ WF_vars(Loop)
  /\ SF_vars(AckWaitTimerFires) /\ SF_vars(DelayTimerFires)
  /\ WF_vars(RadioTxEnd)

FairSpec == Spec /\ Fairness

-----------------------------------------------------------------------------
(* Invariants *)

InUse == {i \in Slots : frames[i].st # "FREE"}
InState(S) == {i \in Slots : frames[i].st \in S}
One(b) == IF b THEN 1 ELSE 0

\* Every variable has its type.
TypeOK ==
  /\ frames \in [Slots -> FrameType]
  /\ queue \in Seq(Reqs)
  /\ reqs \in [Reqs -> ReqType]
  /\ lock \in Int /\ seqNum \in Seqs
  /\ active \in Slots \cup {NoSlot}
  /\ ackTimer \in BOOLEAN /\ delayTimer \in BOOLEAN
  /\ secCount \in Int /\ secActive \in Slots \cup {NoSlot}
  /\ secEncrypt \in BOOLEAN /\ secLeft \in 0..MaxBlocks
  /\ nextHop \in [Nodes -> Addrs]
  /\ radio \in [tx: {"idle", "busy", "done"}, trac: Tracs,
                rx: [on: BOOLEAN, hdr: Headers]]
  /\ task \in Tasks /\ cursor \in Nat
  /\ submitted \in 0..MaxSubmit /\ received \in 0..MaxRx
  /\ acked \subseteq Reqs

\* nwkIb.lock, what NWK_Busy looks at before the node sleeps or sends, counts
\* exactly the frames in use, the queued requests and the transmission under
\* way.  It is raised in three files and lowered in three others.
LockAccounting ==
  lock = Cardinality(InUse) + Len(queue) + One(active # NoSlot)

\* The transceiver transmits for one frame, and for the frame the driver will
\* confirm: PHY_DataConf never finds nwkTxPhyActiveFrame null.
OneTransmission ==
  /\ \A i \in Slots : frames[i].st = "WAIT_CONF" <=> active = i
  /\ radio.tx # "idle" <=> active # NoSlot
  /\ radio.rx.on => radio.tx = "idle"

\* A queued request that waits points at a frame in use that will confirm to
\* a request, no two at the same one, and every such frame has its request:
\* although a finished request keeps its pointer while its frame is reused,
\* nwkDataReqTxConf finds the right one.
RequestOwnsFrame ==
  /\ \A r \in Reqs : reqs[r].state = "WAIT_CONF" =>
       /\ reqs[r].frame # NoSlot
       /\ frames[reqs[r].frame].st # "FREE" /\ frames[reqs[r].frame].conf = "dataReq"
       /\ OwnerOf(reqs[r].frame) = {r}
  /\ \A i \in InUse : frames[i].conf = "dataReq" =>
       \E r \in Reqs : reqs[r].state = "WAIT_CONF" /\ reqs[r].frame = i

\* nwkDataReqQueue holds the requests the layer owns, each once: a request
\* linked twice would make the list a loop.
QueueIsOwned ==
  /\ \A r \in Reqs : reqs[r].state # "IDLE" <=> \E n \in DOMAIN queue : queue[n] = r
  /\ \A m, n \in DOMAIN queue : queue[m] = queue[n] => m = n

\* Requests and frames belong together, however they are reused and in
\* whatever order they end.
FramesAreOwned == RequestOwnsFrame /\ QueueIsOwned

\* The security module works on nwkSecurityActiveFrame and on no other frame,
\* and takes no block of it after the last.
SecurityHasWork ==
  \A i \in Slots :
    /\ frames[i].st \in {"SEC_PROCESS", "SEC_CONFIRM"} <=> secActive = i
    /\ frames[i].st = "SEC_PROCESS" => secLeft > 0

\* nwkSecurityActiveFrames counts the frames in the hands of the security
\* module; were it too low, they would wait for ever.
SecurityAccounting ==
  secCount = Cardinality(InState(SecStates)) /\ SecurityHasWork

\* A frame that waits for time to pass has its timer running.
WaitersHaveTimer ==
  \A i \in Slots :
    /\ frames[i].st = "WAIT_ACK" => ackTimer /\ frames[i].timeout > 0
    /\ frames[i].st = "WAIT_DELAY" => delayTimer /\ frames[i].timeout > 0

\* A request that asked for an acknowledgement succeeds only if one came.
SuccessIsAcked ==
  \A r \in Reqs :
    /\ reqs[r].state = "CONFIRM" /\ reqs[r].status = "SUCCESS"
    /\ reqs[r].opt.ackRequest
    => r \in acked

-----------------------------------------------------------------------------
(* Liveness and refinement *)

\* Every request NWK_DataReq accepts is confirmed.
RequestsConfirmed ==
  \A r \in Reqs : reqs[r].state # "IDLE" ~> reqs[r].state = "IDLE"

\* Once nothing more is asked of it the node falls silent: the wait of
\* Mesh.sleep for NWK_Busy to clear ends.
FallsSilent == lock > 0 ~> lock = 0

\* How the node looks to its application.
Service == INSTANCE NwkService WITH
  pending  <- {r \in Reqs : reqs[r].state # "IDLE"},
  wantsAck <- {r \in Reqs : reqs[r].opt.ackRequest},
  outcome  <- [r \in Reqs |-> IF reqs[r].state = "IDLE" THEN reqs[r].status
                              ELSE "WAITING"],
  busy     <- lock > 0

ServiceSafe == Service!Safe
\* The node implements the service it promises: NWK_DataReq's requests are
\* confirmed, once and in the end, and with success only after the
\* acknowledgement they asked for; meanwhile NWK_Busy holds.
ServiceSpec == Service!Spec

=============================================================================
