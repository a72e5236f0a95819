-------------------------------- MODULE NwkTx --------------------------------
(***************************************************************************)
(* The sending half of the LwMesh network layer: data requests             *)
(* (nwkDataReq.c), the life of an outgoing frame (nwkTx.c), encryption     *)
(* (nwkSecurity.c) and the transceiver driver that carries it (phy.c).     *)
(*                                                                         *)
(* An outgoing frame goes ENCRYPT -> DELAY -> SEND -> WAIT_CONF -> SENT ->  *)
(* WAIT_ACK -> CONFIRM, skipping what it does not need; the data request   *)
(* that owns it goes INITIAL -> WAIT_CONF -> CONFIRM.                      *)
(***************************************************************************)
EXTENDS NwkCore

-----------------------------------------------------------------------------
(* nwkDataReq.c *)

\* NWK_DataReq: the request goes on the head of the queue.  The application
\* calls it from its own loop or from a callback, hence between any two steps.
NWK_DataReq(r, opt) ==
  /\ submitted < MaxSubmit
  /\ reqs[r].state = "IDLE"
  /\ reqs' = [reqs EXCEPT ![r] = [state |-> "INITIAL", status |-> "SUCCESS",
                                  frame |-> NoSlot, opt |-> opt]]
  /\ queue' = Cons(r, queue)
  /\ lock' = lock + 1
  /\ acked' = acked \ {r}
  /\ submitted' = submitted + 1
  /\ UNCHANGED <<frames, seqNum, active, timers, secVars, nextHop, radio,
                 loopVars, received>>

\* The request nwkDataReqTaskHandler serves: the first of the queue that is
\* new or finished.
Serves(k) ==
  LET Ready == {n \in DOMAIN queue : reqs[queue[n]].state \in {"INITIAL", "CONFIRM"}}
  IN k \in Ready /\ \A n \in Ready : k <= n

\* The header nwkDataReqSendFrame fills in.
DataHeader(opt) ==
  [AnyHeader EXCEPT !.kind = "data", !.src = Me, !.dst = opt.dst, !.seq = NextSeq,
     !.ackRequest = opt.ackRequest, !.security = opt.security,
     !.linkLocal = opt.linkLocal, !.panBcast = opt.panBcast]

\* nwkDataReqSendFrame with a free frame ...
SendFrame(r) ==
  /\ reqs[r].state = "INITIAL"
  /\ \E i \in Slots, jitter \in Jitters :
       /\ FirstFree(i)
       /\ frames' = [frames EXCEPT ![i] =
                       TxFrame(DataHeader(reqs[r].opt), FALSE, "dataReq", jitter)]
       /\ reqs' = [reqs EXCEPT ![r].frame = i, ![r].state = "WAIT_CONF"]
  /\ lock' = lock + 1
  /\ seqNum' = NextSeq
  /\ UNCHANGED <<queue, acked>>

\* ... and without: the request fails at once.
SendFrameNoMemory(r) ==
  /\ reqs[r].state = "INITIAL"
  /\ FreeSlots = {}
  /\ reqs' = [reqs EXCEPT ![r].state = "CONFIRM", ![r].status = "OUT_OF_MEMORY"]
  /\ UNCHANGED <<poolVars, seqNum, queue, acked>>

\* Wrong on purpose: unlinks the head of the queue instead of the request.
ConfirmRequestPopsHead(k) ==
  /\ reqs[queue[k]].state = "CONFIRM"
  /\ reqs' = [reqs EXCEPT ![queue[k]].state = "IDLE", ![queue[k]].frame = NoSlot]
  /\ queue' = Tail(queue)
  /\ lock' = lock - 1
  /\ UNCHANGED <<frames, seqNum, acked>>

\* nwkDataReqConfirm: unlink the request, then call req->confirm.  From here
\* the object is the application's again.
ConfirmRequest(k) ==
  /\ reqs[queue[k]].state = "CONFIRM"
  /\ reqs' = [reqs EXCEPT ![queue[k]].state = "IDLE", ![queue[k]].frame = NoSlot]
  /\ queue' = RemoveAt(queue, k)
  /\ lock' = lock - 1
  /\ UNCHANGED <<frames, seqNum, acked>>

\* nwkDataReqTaskHandler serves at most one request per pass of the loop.
DataReqTask ==
  /\ task = "dataReq"
  /\ task' = "security" /\ cursor' = cursor
  /\ \/ \E k \in DOMAIN queue :
          /\ Serves(k)
          /\ \/ SendFrame(queue[k])
             \/ SendFrameNoMemory(queue[k])
             \/ ConfirmRequest(k)
     \/ /\ \A k \in DOMAIN queue : ~Serves(k)
        /\ UNCHANGED <<reqVars, poolVars, seqNum>>
  /\ UNCHANGED <<active, timers, secVars, nextHop, radio, bounds>>

\* nwkDataReqTxConf: the first request of the queue that points at the frame
\* takes its status.
OwnerOf(i) ==
  LET Owners == {n \in DOMAIN queue : reqs[queue[n]].frame = i}
  IN {queue[n] : n \in {m \in Owners : \A o \in Owners : m <= o}}

TxConf(i) ==
  reqs' = [r \in Reqs |->
             IF r \in OwnerOf(i)
             THEN [reqs[r] EXCEPT !.status = frames[i].status, !.state = "CONFIRM"]
             ELSE reqs[r]]

-----------------------------------------------------------------------------
(* nwkTx.c: the visit of one frame by nwkTxTaskHandler *)

VisitedByTx == {"ENCRYPT", "DELAY", "SEND", "SENT", "CONFIRM"}

TxVisit(i, state) ==
  /\ task = "tx" /\ Visits(i, VisitedByTx) /\ frames[i].st = state
  /\ task' = "tx" /\ cursor' = i + 1
  /\ UNCHANGED <<seqNum, bounds, queue, acked>>

SetState(i, st) == frames' = [frames EXCEPT ![i].st = st]

\* nwkSecurityProcess on the way out
TxEncrypt(i) ==
  /\ TxVisit(i, "ENCRYPT")
  /\ SetState(i, "ENCRYPT_PENDING")
  /\ secCount' = secCount + 1
  /\ UNCHANGED <<lock, reqs, active, timers, secActive, secEncrypt, secLeft, nextHop,
                 radio>>

TxDelay(i) ==
  /\ TxVisit(i, "DELAY")
  /\ IF frames[i].timeout > 0
     THEN SetState(i, "WAIT_DELAY") /\ delayTimer' = TRUE
     ELSE SetState(i, "SEND") /\ UNCHANGED delayTimer
  /\ UNCHANGED <<lock, reqs, active, ackTimer, secVars, nextHop, radio>>

\* PHY_DataReq puts the transceiver in TX_ARET_ON and clears its interrupts: a
\* frame it has received and the driver has not read yet is gone.
PHY_DataReq == radio' = [tx |-> "busy", trac |-> "SUCCESS", rx |-> NoFrame]

\* Wrong on purpose: does not look whether a transmission is under way.
TxSendOverlapping(i) ==
  /\ TxVisit(i, "SEND")
  /\ active' = i
  /\ SetState(i, "WAIT_CONF")
  /\ PHY_DataReq
  /\ lock' = lock + 1
  /\ UNCHANGED <<reqs, timers, secVars, nextHop>>

TxSend(i) ==
  /\ TxVisit(i, "SEND")
  /\ IF active = NoSlot
     THEN /\ active' = i
          /\ SetState(i, "WAIT_CONF")
          /\ PHY_DataReq
          /\ lock' = lock + 1
     ELSE UNCHANGED <<active, poolVars, radio>>
  /\ UNCHANGED <<reqs, timers, secVars, nextHop>>

\* Wrong on purpose: waits for the acknowledgement without a timer.
TxSentNoTimer(i) ==
  /\ TxVisit(i, "SENT")
  /\ IF /\ frames[i].status = "SUCCESS"
        /\ frames[i].hdr.src = Me /\ frames[i].hdr.ackRequest
     THEN frames' = [frames EXCEPT ![i].st = "WAIT_ACK", ![i].timeout = AckTicks]
     ELSE SetState(i, "CONFIRM")
  /\ UNCHANGED <<lock, reqs, active, timers, secVars, nextHop, radio>>

TxSent(i) ==
  /\ TxVisit(i, "SENT")
  /\ IF /\ frames[i].status = "SUCCESS"
        /\ frames[i].hdr.src = Me /\ frames[i].hdr.ackRequest
     THEN /\ frames' = [frames EXCEPT ![i].st = "WAIT_ACK", ![i].timeout = AckTicks]
          /\ ackTimer' = TRUE
     ELSE SetState(i, "CONFIRM") /\ UNCHANGED ackTimer
  /\ UNCHANGED <<lock, reqs, active, delayTimer, secVars, nextHop, radio>>

\* The frame is finished: its route ages, its owner is told, it is freed.
TxConfirm(i) ==
  /\ TxVisit(i, "CONFIRM")
  /\ AgesRoute(frames[i].hdr, frames[i].status)
  /\ IF frames[i].conf = "dataReq" THEN TxConf(i) ELSE UNCHANGED reqs
  /\ frames' = [frames EXCEPT ![i] = FreeFrame]
  /\ lock' = lock - 1
  /\ UNCHANGED <<active, timers, secVars, radio>>

TxDone ==
  /\ task = "tx" /\ Waiting(VisitedByTx) = {}
  /\ task' = "dataReq" /\ cursor' = 1
  /\ UNCHANGED <<poolVars, reqVars, seqNum, active, timers, secVars, nextHop,
                 radio, bounds>>

\* nwkTxAckReceived: the first frame that waits for this sequence number.
AwaitsAck(i, seq) == frames[i].st = "WAIT_ACK" /\ frames[i].hdr.seq = seq
AckMatches(i, seq) == AwaitsAck(i, seq) /\ \A j \in Slots : AwaitsAck(j, seq) => i <= j

\* The sequence number's owner, for the history variable: the request whose
\* frame has been transmitted under it, whatever the frame waits for.
AckedRequests(seq) ==
  {r \in Reqs : /\ reqs[r].state = "WAIT_CONF"
                /\ frames[reqs[r].frame].st \in {"SENT", "WAIT_ACK", "CONFIRM"}
                /\ frames[reqs[r].frame].hdr.seq = seq}

-----------------------------------------------------------------------------
(* The software timers of nwkTx.c, run by SYS_TimerTaskHandler.  Time is   *)
(* not measured: a started timer may fire in any pass, and more than once  *)
(* when the loop was slow.                                                 *)

\* Wrong on purpose: gives up without a status.
AckWaitTimerSilent ==
  /\ task = "timer" /\ ackTimer
  /\ LET Ws == {i \in Slots : frames[i].st = "WAIT_ACK"}
     IN /\ frames' = [i \in Slots |->
             IF i \notin Ws THEN frames[i]
             ELSE IF frames[i].timeout = 1
             THEN [frames[i] EXCEPT !.timeout = 0, !.st = "CONFIRM"]
             ELSE [frames[i] EXCEPT !.timeout = @ - 1]]
        /\ ackTimer' = (Ws # {})
  /\ UNCHANGED <<lock, reqVars, seqNum, active, delayTimer, secVars, nextHop,
                 radio, loopVars, bounds>>

\* nwkTxAckWaitTimerHandler
AckWaitTimerFires ==
  /\ task = "timer" /\ ackTimer
  /\ LET Ws == {i \in Slots : frames[i].st = "WAIT_ACK"}
     IN /\ frames' = [i \in Slots |->
             IF i \notin Ws THEN frames[i]
             ELSE IF frames[i].timeout = 1
             THEN [frames[i] EXCEPT !.timeout = 0, !.st = "CONFIRM", !.status = "NO_ACK"]
             ELSE [frames[i] EXCEPT !.timeout = @ - 1]]
        /\ ackTimer' = (Ws # {})
  /\ UNCHANGED <<lock, reqVars, seqNum, active, delayTimer, secVars, nextHop,
                 radio, loopVars, bounds>>

\* nwkTxDelayTimerHandler
DelayTimerFires ==
  /\ task = "timer" /\ delayTimer
  /\ LET Ws == {i \in Slots : frames[i].st = "WAIT_DELAY"}
     IN /\ frames' = [i \in Slots |->
             IF i \notin Ws THEN frames[i]
             ELSE IF frames[i].timeout = 1
             THEN [frames[i] EXCEPT !.timeout = 0, !.st = "SEND"]
             ELSE [frames[i] EXCEPT !.timeout = @ - 1]]
        /\ delayTimer' = (Ws # {})
  /\ UNCHANGED <<lock, reqVars, seqNum, active, ackTimer, secVars, nextHop,
                 radio, loopVars, bounds>>

TimerDone ==
  /\ task = "timer"
  /\ task' = "phy" /\ cursor' = 1
  /\ UNCHANGED <<poolVars, reqVars, seqNum, active, timers, secVars, nextHop,
                 radio, bounds>>

-----------------------------------------------------------------------------
(* nwkSecurity.c: one frame at a time, one cipher block per pass.          *)

PendingFrames == {i \in Slots : frames[i].st \in {"ENCRYPT_PENDING", "DECRYPT_PENDING"}}

\* nwkSecurityStart on the first pending frame
SecurityStart ==
  /\ secActive = NoSlot
  /\ \E i \in PendingFrames :
       /\ \A j \in PendingFrames : i <= j
       /\ secActive' = i
       /\ secEncrypt' = (frames[i].st = "ENCRYPT_PENDING")
       /\ SetState(i, "SEC_PROCESS")
  /\ secLeft' \in 1..MaxBlocks
  /\ UNCHANGED secCount

\* SYS_EncryptReq calls SYS_EncryptConf before it returns.
SecurityBlock ==
  /\ secActive # NoSlot /\ frames[secActive].st = "SEC_PROCESS"
  /\ secLeft' = secLeft - 1
  /\ SetState(secActive, IF secLeft > 1 THEN "SEC_PROCESS" ELSE "SEC_CONFIRM")
  /\ UNCHANGED <<secCount, secActive, secEncrypt>>

\* What becomes of a frame that is encrypted, and of one that is decrypted.
nwkTxEncryptConf == "DELAY"
nwkRxDecryptConf(mic) == IF mic THEN "INDICATE" ELSE "FINISH"

\* Wrong on purpose: the counter of frames in work is not lowered.
SecurityConfirmKeepsCount ==
  /\ secActive # NoSlot /\ frames[secActive].st = "SEC_CONFIRM"
  /\ SetState(secActive, IF secEncrypt THEN nwkTxEncryptConf
                         ELSE nwkRxDecryptConf(frames[secActive].hdr.mic))
  /\ secActive' = NoSlot
  /\ UNCHANGED <<secCount, secEncrypt, secLeft>>

\* The integrity code is written or compared.
SecurityConfirm ==
  /\ secActive # NoSlot /\ frames[secActive].st = "SEC_CONFIRM"
  /\ SetState(secActive, IF secEncrypt THEN nwkTxEncryptConf
                         ELSE nwkRxDecryptConf(frames[secActive].hdr.mic))
  /\ secActive' = NoSlot
  /\ secCount' = secCount - 1
  /\ UNCHANGED <<secEncrypt, secLeft>>

SecurityIdle ==
  /\ secCount = 0 \/ (secActive = NoSlot /\ PendingFrames = {})
  /\ UNCHANGED <<frames, secVars>>

\* nwkSecurityTaskHandler
SecurityTask ==
  /\ task = "security"
  /\ task' = "timer" /\ cursor' = 1
  /\ \/ secCount > 0 /\ (SecurityConfirm \/ SecurityBlock \/ SecurityStart)
     \/ SecurityIdle
  /\ UNCHANGED <<lock, reqVars, seqNum, active, timers, nextHop, radio, bounds>>

-----------------------------------------------------------------------------
(* phy.c and the end of a transmission *)

\* The transceiver ends a transmission with one of its outcomes.
RadioTxEnd ==
  /\ radio.tx = "busy"
  /\ \E s \in TracStatuses : radio' = [radio EXCEPT !.tx = "done", !.trac = s]
  /\ UNCHANGED <<poolVars, reqVars, seqNum, active, timers, secVars, nextHop,
                 loopVars, bounds>>

\* PHY_TaskHandler and nwkTxConvertPhyStatus, the status a transmission gets
PhyStatus(trac) ==
  CASE trac = "SUCCESS" -> "SUCCESS"
    [] trac = "CHANNEL_ACCESS_FAILURE" -> "PHY_CHANNEL_ACCESS_FAILURE"
    [] trac = "NO_ACK" -> "PHY_NO_ACK"
    [] OTHER -> "ERROR"

\* Wrong on purpose: the lock of the transmission is not released.
PHY_DataConfKeepsLock ==
  /\ frames' = [frames EXCEPT ![active].status = PhyStatus(radio.trac),
                              ![active].st = "SENT"]
  /\ active' = NoSlot
  /\ lock' = lock
  /\ radio' = [tx |-> "idle", trac |-> "SUCCESS", rx |-> NoFrame]

\* PHY_DataConf; phySetRxState has put the transceiver back to receiving.
PHY_DataConf ==
  /\ frames' = [frames EXCEPT ![active].status = PhyStatus(radio.trac),
                              ![active].st = "SENT"]
  /\ active' = NoSlot
  /\ lock' = lock - 1
  /\ radio' = [tx |-> "idle", trac |-> "SUCCESS", rx |-> NoFrame]

=============================================================================
