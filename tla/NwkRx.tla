-------------------------------- MODULE NwkRx --------------------------------
(***************************************************************************)
(* The receiving half of the LwMesh network layer (nwkRx.c): a frame read  *)
(* from the transceiver goes RECEIVED -> (DECRYPT ->) INDICATE -> FINISH,  *)
(* or RECEIVED -> ROUTE and back to the air (nwkRouteFrame), and on its    *)
(* way may allocate one more frame: an acknowledgement, a rebroadcast or a *)
(* route error.                                                            *)
(***************************************************************************)
EXTENDS NwkTx

-----------------------------------------------------------------------------
(* phy.c: the transceiver and PHY_TaskHandler *)

\* A frame arrives while the transceiver listens and its buffer is free
\* (rxSafeMode keeps the frame until the driver has read it).
RadioReceive ==
  /\ radio.tx = "idle" /\ ~radio.rx.on
  /\ received < MaxRx
  /\ \E h \in RxHeaders : radio' = [radio EXCEPT !.rx = [on |-> TRUE, hdr |-> h]]
  /\ received' = received + 1
  /\ UNCHANGED <<poolVars, reqVars, seqNum, active, timers, secVars, nextHop,
                 loopVars, submitted>>

\* Wrong on purpose: locks before it knows that the pool has a frame.
PHY_DataIndLocksFirst ==
  /\ \/ FreeSlots = {} /\ UNCHANGED frames
     \/ \E i \in Slots :
          /\ FirstFree(i)
          /\ frames' = [frames EXCEPT ![i] =
                          [FreeFrame EXCEPT !.st = "RECEIVED", !.hdr = radio.rx.hdr]]
  /\ lock' = lock + 1
  /\ radio' = [radio EXCEPT !.rx = NoFrame]
  /\ UNCHANGED active

\* PHY_DataInd: without a free frame the received one is dropped.
PHY_DataInd ==
  /\ \/ /\ FreeSlots = {}
        /\ UNCHANGED poolVars
     \/ /\ \E i \in Slots :
             /\ FirstFree(i)
             /\ frames' = [frames EXCEPT ![i] =
                             [FreeFrame EXCEPT !.st = "RECEIVED", !.hdr = radio.rx.hdr]]
        /\ lock' = lock + 1
  /\ radio' = [radio EXCEPT !.rx = NoFrame]
  /\ UNCHANGED active

\* PHY_TaskHandler: a received frame goes before the end of a transmission.
PhyTask ==
  /\ task = "phy"
  /\ task' = "rx" /\ cursor' = 1
  /\ \/ radio.rx.on /\ PHY_DataInd
     \/ ~radio.rx.on /\ radio.tx = "done" /\ PHY_DataConf
     \/ ~radio.rx.on /\ radio.tx # "done" /\ UNCHANGED <<poolVars, active, radio>>
  /\ UNCHANGED <<reqVars, seqNum, timers, secVars, nextHop, bounds>>

-----------------------------------------------------------------------------
(* nwkRx.c: the visit of one frame by nwkRxTaskHandler *)

VisitedByRx == {"RECEIVED", "DECRYPT", "INDICATE", "ROUTE", "FINISH"}

RxVisit(i, state) ==
  /\ task = "rx" /\ Visits(i, VisitedByRx) /\ frames[i].st = state
  /\ task' = "rx" /\ cursor' = i + 1
  /\ UNCHANGED <<radio, active, timers, bounds, queue, reqs>>

\* The frame leaves the visit in state st; one more frame is sent for it, when
\* the pool has a slot for it.
LeaveAndSend(i, st, new) ==
  IF FreeSlots = {}
  THEN SetState(i, st) /\ UNCHANGED lock
  ELSE \E j \in Slots : /\ FirstFree(j)
                        /\ frames' = [frames EXCEPT ![i].st = st, ![j] = new]
                        /\ lock' = lock + 1

Leave(i, st) == SetState(i, st) /\ UNCHANGED lock

ForUs(h) == h.dst \in {Me, Bcast}

\* Where an accepted frame goes next.
Accepted(h) ==
  IF ForUs(h) THEN IF h.security THEN "DECRYPT" ELSE "INDICATE"
  ELSE IF h.macDst = Me THEN "ROUTE" ELSE "FINISH"

\* nwkTxBroadcastFrame: the copy goes out as it came, with a jitter.
Rebroadcast(h, jitter) ==
  [st |-> "DELAY", hdr |-> [h EXCEPT !.macDst = Bcast, !.macSrc = Me],
   timeout |-> jitter, status |-> "SUCCESS", conf |-> "null"]

\* The frames nwkRxHandleReceivedFrame drops before it looks at their route.
Ignored(h) ==
  \/ h.kind = "multicast"
  \/ h.panBcast /\ ~ForUs(h)
  \/ ~h.panBcast /\ h.dst = Bcast /\ h.ackRequest
  \/ ~h.panBcast /\ h.src = Me

RxIgnore(i) ==
  /\ RxVisit(i, "RECEIVED") /\ Ignored(frames[i].hdr)
  /\ Leave(i, "FINISH")
  /\ UNCHANGED <<seqNum, nextHop, secVars, acked>>

\* A frame sent to the broadcast PAN is neither routed nor checked for
\* duplicates.
RxOtherPan(i) ==
  /\ RxVisit(i, "RECEIVED") /\ ~Ignored(frames[i].hdr) /\ frames[i].hdr.panBcast
  /\ Leave(i, Accepted(frames[i].hdr))
  /\ UNCHANGED <<seqNum, nextHop, secVars, acked>>

\* nwkRxRejectDuplicate rejects a frame it has seen, and drops the route it
\* came over when it was sent to us; and any frame of a further source while
\* its table is full.  The route to its source is learned all the same.
RxDuplicate(i) ==
  LET h == frames[i].hdr IN
  /\ RxVisit(i, "RECEIVED") /\ ~Ignored(h) /\ ~h.panBcast
  /\ Leave(i, "FINISH")
  /\ \E hops \in LearnedRoutes(h) :
       nextHop' \in {hops} \cup IF h.macDst = Me THEN {WithoutRoute(hops, h.dst)} ELSE {}
  /\ UNCHANGED <<seqNum, secVars, acked>>

RxAccept(i) ==
  LET h == frames[i].hdr IN
  /\ RxVisit(i, "RECEIVED") /\ ~Ignored(h) /\ ~h.panBcast
  /\ IF h.macDst = Bcast /\ h.dst # Me /\ ~h.linkLocal
     THEN \E jitter \in Jitters :
            LeaveAndSend(i, Accepted(h), Rebroadcast(h, jitter))
     ELSE Leave(i, Accepted(h))
  /\ nextHop' \in LearnedRoutes(h)
  /\ UNCHANGED <<seqNum, secVars, acked>>

\* nwkSecurityProcess on the way in
RxDecrypt(i) ==
  /\ RxVisit(i, "DECRYPT")
  /\ Leave(i, "DECRYPT_PENDING")
  /\ secCount' = secCount + 1
  /\ UNCHANGED <<seqNum, nextHop, secActive, secEncrypt, secLeft, acked>>

\* nwkRxHandleIndication: whether the frame is acknowledged, given what its
\* endpoint's handler returned.  A frame for us that was flooded is always.
SendsAck(h, result) ==
  /\ (h.ackRequest /\ result) \/ (h.macDst = Bcast /\ h.dst = Me)
  /\ ~h.panBcast

\* nwkRxSendAck: secured like the frame it answers.
AckFor(h) == CommandHeader("ack", h.src, h.seq, h.security)

\* The end of the visit
Finish(i, result) ==
  LET h == frames[i].hdr
      ack == AckFor(h)
  IN IF SendsAck(h, result)
     THEN /\ \E jitter \in Jitters :
               LeaveAndSend(i, "FINISH", TxFrame(ack, FALSE, "null", jitter))
          /\ seqNum' = IF FreeSlots = {} THEN seqNum ELSE NextSeq
     ELSE Leave(i, "FINISH") /\ UNCHANGED seqNum

\* A data frame: the handler of the application takes it or does not.
RxIndicateData(i) ==
  /\ RxVisit(i, "INDICATE") /\ frames[i].hdr.kind = "data"
  /\ \E result \in BOOLEAN : Finish(i, result)
  /\ UNCHANGED <<nextHop, secVars, acked>>

\* nwkRouteErrorReceived
RxIndicateRouteError(i) ==
  /\ RxVisit(i, "INDICATE") /\ frames[i].hdr.kind = "routeError"
  /\ nextHop' = WithoutRoute(nextHop, frames[i].hdr.arg)
  /\ Finish(i, TRUE)
  /\ UNCHANGED <<secVars, acked>>

\* nwkTxAckReceived, then the rest of the visit
RxIndicateAck(i) ==
  LET seq == frames[i].hdr.arg
      Matched == {j \in Slots : AckMatches(j, seq)}
      after == [j \in Slots |-> IF j \in Matched
                                THEN [frames[j] EXCEPT !.st = "CONFIRM"] ELSE frames[j]]
      h == frames[i].hdr
      ack == AckFor(h)
  IN
  /\ RxVisit(i, "INDICATE") /\ h.kind = "ack"
  /\ acked' = acked \cup AckedRequests(seq)
  /\ IF SendsAck(h, Matched # {}) /\ FreeSlots # {}
     THEN /\ \E j \in Slots, jitter \in Jitters :
               /\ FirstFree(j)
               /\ frames' = [after EXCEPT ![i].st = "FINISH",
                                          ![j] = TxFrame(ack, FALSE, "null", jitter)]
          /\ lock' = lock + 1 /\ seqNum' = NextSeq
     ELSE /\ frames' = [after EXCEPT ![i].st = "FINISH"]
          /\ UNCHANGED <<lock, seqNum>>
  /\ UNCHANGED <<nextHop, secVars>>

\* nwkRouteFrame: relay towards the destination ...
RxRoute(i) ==
  LET h == frames[i].hdr IN
  /\ RxVisit(i, "ROUTE") /\ NWK_RouteNextHop(h.dst) # Bcast
  /\ \E jitter \in Jitters :
       frames' = [frames EXCEPT ![i] = TxFrame(h, TRUE, "null", jitter)]
  /\ UNCHANGED <<lock, seqNum, nextHop, secVars, acked>>

\* ... or tell the source that there is no route, when a frame is left for it.
RxRouteError(i) ==
  LET h == frames[i].hdr
      error == CommandHeader("routeError", h.src, h.dst, FALSE)
  IN
  /\ RxVisit(i, "ROUTE") /\ NWK_RouteNextHop(h.dst) = Bcast
  /\ IF FreeSlots = {}
     THEN /\ frames' = [frames EXCEPT ![i] = FreeFrame]
          /\ lock' = lock - 1
          /\ UNCHANGED seqNum
     ELSE /\ \E j \in Slots, jitter \in Jitters :
               /\ FirstFree(j)
               /\ frames' = [frames EXCEPT ![i] = FreeFrame,
                                           ![j] = TxFrame(error, FALSE, "null", jitter)]
          /\ seqNum' = NextSeq
          /\ UNCHANGED lock
  /\ UNCHANGED <<nextHop, secVars, acked>>

RxFinish(i) ==
  /\ RxVisit(i, "FINISH")
  /\ frames' = [frames EXCEPT ![i] = FreeFrame]
  /\ lock' = lock - 1
  /\ UNCHANGED <<seqNum, nextHop, secVars, acked>>

RxDone ==
  /\ task = "rx" /\ Waiting(VisitedByRx) = {}
  /\ task' = "tx" /\ cursor' = 1
  /\ UNCHANGED <<poolVars, reqVars, seqNum, active, timers, secVars, nextHop,
                 radio, bounds>>

=============================================================================
