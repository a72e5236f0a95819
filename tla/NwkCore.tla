------------------------------- MODULE NwkCore -------------------------------
(***************************************************************************)
(* State and shared helpers of one LwMesh node: the pool of frames of      *)
(* nwkFrame.c, the request queue of nwkDataReq.c, the lock counter of      *)
(* nwk.c, the transceiver as phy.c sees it, and the position of the main   *)
(* loop (SYS_TaskHandler).                                                 *)
(*                                                                         *)
(* The program is one cooperative loop: SYS_TaskHandler polls the radio,   *)
(* runs the Rx, Tx, data request and security handlers, then the software  *)
(* timers.  "task" names the handler the loop is in and "cursor" is where  *)
(* its pass over the frames has got to (the argument of nwkFrameNext), so  *)
(* one action of the model is the visit of one frame by one handler.  Only *)
(* the radio moves on its own, between any two visits.                     *)
(*                                                                         *)
(* Abstracted: payloads, LQI and RSSI values, the MAC sequence number and  *)
(* the PAN id (a frame is of our PAN or sent to the broadcast PAN).  The   *)
(* routing table is its function from destination to next hop, with ageing *)
(* by score left free, and the verdict of the duplicate rejection table is *)
(* free: both tables have modules of their own.                            *)
(***************************************************************************)
EXTENDS Integers, FiniteSets, Sequences, SequencesExt

CONSTANTS
  Me,           \* nwkIb.addr, the short address of this node
  Nodes,        \* short addresses of other nodes this node hears of
  NonRouting,   \* those with the NWK_ROUTE_NON_ROUTING bit
  Bcast,        \* NWK_BROADCAST_ADDR = NWK_ROUTE_UNKNOWN = 0xffff
  NBuffers,     \* NWK_BUFFERS_AMOUNT
  Reqs,         \* the NWK_DataReq_t objects of the application
  ReqOptions,   \* the options and destinations it submits
  RxHeaders,    \* the frames other nodes may put on the air
  TracStatuses, \* outcomes of a transmission the transceiver reports
  SeqSpace,       \* nwkSeqNum counts modulo SeqSpace (256, a uint8_t)
  AckTicks,     \* NWK_ACK_WAIT_TIME / NWK_TX_ACK_WAIT_TIMER_INTERVAL + 1
  MaxJitter,    \* NWK_TX_DELAY_JITTER_MASK + 1
  MaxBlocks,    \* cipher blocks of the longest payload
  MaxSubmit,    \* bound: calls of NWK_DataReq
  MaxRx         \* bound: frames heard

Slots    == 1..NBuffers
NoSlot   == 0
Addrs    == Nodes \cup {Me, Bcast}
Seqs     == 0..(SeqSpace - 1)

TxStates  == {"ENCRYPT", "WAIT_DELAY", "DELAY", "SEND", "WAIT_CONF", "SENT",
              "WAIT_ACK", "CONFIRM"}
RxStates  == {"RECEIVED", "DECRYPT", "INDICATE", "ROUTE", "FINISH"}
SecStates == {"ENCRYPT_PENDING", "DECRYPT_PENDING", "SEC_PROCESS", "SEC_CONFIRM"}
FrameStates == {"FREE"} \cup TxStates \cup RxStates \cup SecStates

Status == {"SUCCESS", "OUT_OF_MEMORY", "NO_ACK", "PHY_CHANNEL_ACCESS_FAILURE",
           "PHY_NO_ACK", "ERROR"}
Tracs  == {"SUCCESS", "CHANNEL_ACCESS_FAILURE", "NO_ACK", "OTHER"}
Kinds  == {"data", "ack", "routeError", "multicast"}

\* NwkFrameHeader_t with the command an ACK or a route error carries: "arg"
\* is the acknowledged sequence number or the unreachable destination; "mic"
\* says whether a secured frame passes its integrity check here.
Headers ==
  [kind: Kinds, src: Addrs, dst: Addrs, macSrc: Addrs, macDst: Addrs,
   seq: Seqs, arg: Seqs \cup Addrs, ackRequest: BOOLEAN, security: BOOLEAN,
   linkLocal: BOOLEAN, panBcast: BOOLEAN, mic: BOOLEAN]

Options == [dst: Addrs, ackRequest: BOOLEAN, security: BOOLEAN,
            linkLocal: BOOLEAN, panBcast: BOOLEAN]

ASSUME NwkConstants ==
  /\ Me # Bcast /\ Me \notin Nodes /\ Bcast \notin Nodes
  /\ NonRouting \subseteq Nodes
  /\ NBuffers \in Nat \ {0}
  /\ SeqSpace \in Nat \ {0} /\ AckTicks \in Nat \ {0}
  /\ MaxJitter \in Nat \ {0} /\ MaxBlocks \in Nat \ {0}
  /\ MaxSubmit \in Nat /\ MaxRx \in Nat
  /\ ReqOptions \subseteq Options
  /\ RxHeaders \subseteq Headers
  /\ TracStatuses \subseteq Tracs
  /\ IsFiniteSet(Reqs)

VARIABLES
  frames,     \* nwkFrameFrames
  queue,      \* nwkDataReqQueue, head first
  reqs,       \* the NWK_DataReq_t objects
  lock,       \* nwkIb.lock
  seqNum,     \* nwkIb.nwkSeqNum
  active,     \* nwkTxPhyActiveFrame
  ackTimer,   \* nwkTxAckWaitTimer is started
  delayTimer, \* nwkTxDelayTimer is started
  secCount,   \* nwkSecurityActiveFrames
  secActive,  \* nwkSecurityActiveFrame
  secEncrypt, \* nwkSecurityEncrypt
  secLeft,    \* blocks left of it, for nwkSecuritySize
  nextHop,    \* next hop by destination, Bcast when unknown
  radio,      \* the transceiver: frame buffer, transmission, its outcome
  task,       \* handler the main loop is in
  cursor,     \* first frame its pass has not visited yet
  submitted,  \* calls of NWK_DataReq so far
  received,   \* frames heard so far
  acked       \* requests whose acknowledgement was handed over (history)

poolVars == <<frames, lock>>
reqVars  == <<queue, reqs, acked>>
secVars  == <<secCount, secActive, secEncrypt, secLeft>>
timers   == <<ackTimer, delayTimer>>
loopVars == <<task, cursor>>
bounds   == <<submitted, received>>
vars == <<poolVars, reqVars, seqNum, active, timers, secVars, nextHop, radio,
          loopVars, bounds>>

Tasks == {"phy", "rx", "tx", "dataReq", "security", "timer"}

AnyHeader == [kind |-> "data", src |-> Me, dst |-> Me, macSrc |-> Me,
              macDst |-> Me, seq |-> 0, arg |-> 0, ackRequest |-> FALSE,
              security |-> FALSE, linkLocal |-> FALSE, panBcast |-> FALSE,
              mic |-> FALSE]

\* What a freed frame holds is never read before nwkFrameAlloc clears it, so
\* the model clears it when it is freed.
FreeFrame == [st |-> "FREE", hdr |-> AnyHeader, timeout |-> 0,
              status |-> "SUCCESS", conf |-> "null"]

FrameType == [st: FrameStates, hdr: Headers, timeout: Nat, status: Status,
              conf: {"null", "dataReq"}]

ReqType == [state: {"IDLE", "INITIAL", "WAIT_CONF", "CONFIRM"}, status: Status,
            frame: Slots \cup {NoSlot}, opt: Options]

NoOptions == [dst |-> Me, ackRequest |-> FALSE, security |-> FALSE,
              linkLocal |-> FALSE, panBcast |-> FALSE]

NoFrame == [on |-> FALSE, hdr |-> AnyHeader]

-----------------------------------------------------------------------------
(* nwkFrame.c *)

FreeSlots == {i \in Slots : frames[i].st = "FREE"}

\* nwkFrameAlloc takes the first free slot.
FirstFree(i) == i \in FreeSlots /\ \A j \in FreeSlots : i <= j

\* nwkFrameNext: the next frame of the pass that its handler has a case for.
Waiting(states) == {i \in Slots : i >= cursor /\ frames[i].st \in states}
Visits(i, states) == i \in Waiting(states) /\ \A j \in Waiting(states) : i <= j

NextSeq == (seqNum + 1) % SeqSpace

\* nwkFrameCommandInit and the header its callers complete.
CommandHeader(kind, dst, arg, secured) ==
  [AnyHeader EXCEPT !.kind = kind, !.src = Me, !.dst = dst, !.arg = arg,
                    !.seq = NextSeq, !.security = secured]

-----------------------------------------------------------------------------
(* nwkRoute.c, as far as the other handlers see it *)

NWK_RouteNextHop(d) == IF d \in Nodes THEN nextHop[d] ELSE Bcast

\* nwkRouteRemove
WithoutRoute(hops, d) == [n \in Nodes |-> IF n = d THEN Bcast ELSE hops[n]]

\* nwkRouteFrameReceived: an unknown source is learned, and takes the entry of
\* another destination if the table is full; a known one changes its next hop
\* when the frame came with a better LQI, and always when the sender had no
\* route to us.  What a non-routing node relays teaches nothing.
LearnedRoutes(h) ==
  LET learned(hops) == [hops EXCEPT ![h.src] = h.macSrc]
  IN  IF h.src \notin Nodes \/ (h.macSrc \in NonRouting /\ h.macSrc # h.src) THEN {nextHop}
      ELSE IF nextHop[h.src] = Bcast
      THEN {learned(hops) : hops \in {nextHop} \cup {WithoutRoute(nextHop, d) : d \in Nodes}}
      ELSE IF h.macDst = Bcast /\ h.dst = Me THEN {learned(nextHop)}
      ELSE {learned(nextHop), nextHop}

\* nwkRouteFrameSent: a failed transmission may use up the score of the route.
AgesRoute(h, status) ==
  \/ nextHop' = nextHop
  \/ /\ status # "SUCCESS"
     /\ h.dst \in Nodes
     /\ nextHop' = [nextHop EXCEPT ![h.dst] = Bcast]

\* nwkRoutePrepareTx
MacDst(h) ==
  IF h.dst = Bcast THEN Bcast
  ELSE IF h.linkLocal THEN h.dst
  ELSE NWK_RouteNextHop(h.dst)

-----------------------------------------------------------------------------
(* nwkTx.c, the entry the other modules use *)

\* nwkTxFrame: the frame it leaves for nwkTxTaskHandler.  "routed" is
\* NWK_TX_CONTROL_ROUTING, panBcast NWK_TX_CONTROL_BROADCAST_PAN_ID; jitter
\* is the random delay of a frame sent to every neighbour.
TxFrame(h, routed, conf, jitter) ==
  LET md == IF h.panBcast THEN h.dst ELSE MacDst(h)
  IN [st |-> IF h.security /\ ~routed THEN "ENCRYPT" ELSE "DELAY",
      hdr |-> [h EXCEPT !.macDst = md, !.macSrc = Me],
      timeout |-> IF md = Bcast THEN jitter ELSE 0,
      status |-> "SUCCESS",
      conf |-> conf]

Jitters == 1..MaxJitter

=============================================================================
