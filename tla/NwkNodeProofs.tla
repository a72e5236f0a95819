---------------------------- MODULE NwkNodeProofs ----------------------------
(***************************************************************************)
(* Proofs about NwkNode, for every number of frames, requests, addresses   *)
(* and every choice of the other constants: the types, the accounting of   *)
(* the lock NWK_Busy looks at, and the agreement of the Tx module, the     *)
(* driver and the transceiver on the one transmission under way.           *)
(*                                                                         *)
(* Then of its requests: a request and the frame that carries it belong    *)
(* together from nwkDataReqSendFrame to nwkDataReqTxConf, however both are *)
(* reused; a request that asked for an acknowledgement succeeds only if    *)
(* one came; the count of frames in the hands of the security module is    *)
(* right; and so the node implements the safety part of the service        *)
(* NwkService.                                                             *)
(***************************************************************************)
EXTENDS NwkNode, FiniteSetTheorems, TLAPS

\* The inductive invariant.  The lock is only right because PHY_DataConf finds
\* the frame it confirms where nwkTxTaskHandler left it, and a timeout stays
\* a number because what waits for it has not reached zero; nor does the count
\* of blocks while the security module works on its one frame.
IInv ==
  TypeOK /\ WaitersHaveTimer /\ OneTransmission /\ SecurityHasWork /\ LockAccounting

-----------------------------------------------------------------------------
(* The frame pool *)

LEMMA SlotsFinite == IsFiniteSet(Slots)
  BY NwkConstants, FS_Interval DEF Slots

LEMMA SlotsNotNoSlot == NoSlot \notin Slots
  BY DEF Slots, NoSlot

LEMMA SomeSlot == 1 \in Slots
  BY NwkConstants DEF Slots

LEMMA InUseFinite == IsFiniteSet(InUse) /\ Cardinality(InUse) \in Nat
  <1>1. InUse \subseteq Slots
    BY DEF InUse
  <1> QED
    BY <1>1, SlotsFinite, FS_Subset, FS_CardinalityType

\* Every state of a frame has its place in FrameStates.
LEMMA StatesAreStates ==
  \A s \in {"FREE", "ENCRYPT", "WAIT_DELAY", "DELAY", "SEND", "WAIT_CONF", "SENT",
            "WAIT_ACK", "CONFIRM", "RECEIVED", "DECRYPT", "INDICATE", "ROUTE",
            "FINISH", "ENCRYPT_PENDING", "DECRYPT_PENDING", "SEC_PROCESS",
            "SEC_CONFIRM"} : s \in FrameStates
  BY DEF FrameStates, TxStates, RxStates, SecStates

\* A header and a frame that no one has filled in have their types.
LEMMA BlankTypes == AnyHeader \in Headers /\ FreeFrame \in FrameType
  <1>1. 0 \in Seqs /\ Me \in Addrs
    BY NwkConstants DEF Seqs, Addrs
  <1>2. AnyHeader \in Headers
    BY <1>1 DEF AnyHeader, Headers, Kinds
  <1> QED
    BY <1>2, StatesAreStates DEF FreeFrame, FrameType, Status

\* The headers the layer makes itself.
LEMMA DataHeaderType ==
  ASSUME NEW opt \in Options, NextSeq \in Seqs
  PROVE  DataHeader(opt) \in Headers
  <1>1. "data" \in Kinds /\ Me \in Addrs
    BY DEF Kinds, Addrs
  <1> QED
    BY <1>1, BlankTypes DEF DataHeader, Headers, Options

LEMMA CommandHeaderType ==
  ASSUME NEW kind \in Kinds, NEW dst \in Addrs, NEW arg \in Seqs \cup Addrs,
         NEW secured \in BOOLEAN, NextSeq \in Seqs
  PROVE  CommandHeader(kind, dst, arg, secured) \in Headers
  <1>1. Me \in Addrs
    BY DEF Addrs
  <1> QED
    BY <1>1, BlankTypes DEF CommandHeader, Headers

LEMMA NextSeqType ==
  ASSUME seqNum \in Seqs
  PROVE  NextSeq \in Seqs
  BY NwkConstants DEF NextSeq, Seqs

LEMMA AckHeaderType ==
  ASSUME NEW h \in Headers, NextSeq \in Seqs
  PROVE  AckFor(h) \in Headers
  <1>1. /\ "ack" \in Kinds /\ h.src \in Addrs /\ h.seq \in Seqs \cup Addrs
        /\ h.security \in BOOLEAN
    BY DEF Headers, Kinds
  <1> QED
    BY <1>1, CommandHeaderType DEF AckFor

LEMMA ErrorHeaderType ==
  ASSUME NEW h \in Headers, NextSeq \in Seqs
  PROVE  CommandHeader("routeError", h.src, h.dst, FALSE) \in Headers
  <1>1. "routeError" \in Kinds /\ h.src \in Addrs /\ h.dst \in Seqs \cup Addrs
    BY DEF Headers, Kinds
  <1> QED
    BY <1>1, CommandHeaderType

\* A request that takes the status of its frame is still a request.
LEMMA ConfirmedType ==
  ASSUME NEW q \in ReqType, NEW s \in Status
  PROVE  /\ [q EXCEPT !.status = s, !.state = "CONFIRM"] \in ReqType
         /\ [q EXCEPT !.state = "CONFIRM", !.status = s] \in ReqType
  BY DEF ReqType

\* So is one that gets a frame or is given back.
LEMMA RequestType ==
  ASSUME NEW q \in ReqType, NEW i \in Slots
  PROVE  /\ [q EXCEPT !.frame = i, !.state = "WAIT_CONF"] \in ReqType
         /\ [q EXCEPT !.state = "IDLE", !.frame = NoSlot] \in ReqType
  BY DEF ReqType

\* A frame that changes its state.
LEMMA SetStateType ==
  ASSUME NEW f \in FrameType, NEW st \in FrameStates
  PROVE  [f EXCEPT !.st = st] \in FrameType /\ [f EXCEPT !.st = st].st = st
  BY DEF FrameType

\* A frame that was read, and one that was sent.
LEMMA ReceivedType ==
  ASSUME NEW h \in Headers, NEW f \in FrameType
  PROVE  /\ [f EXCEPT !.st = "RECEIVED", !.hdr = h] \in FrameType
         /\ [f EXCEPT !.st = "RECEIVED", !.hdr = h].st = "RECEIVED"
  <1>1. [f EXCEPT !.st = "RECEIVED", !.hdr = h] \in FrameType
    BY StatesAreStates DEF FrameType
  <1>2. [f EXCEPT !.st = "RECEIVED", !.hdr = h].st = "RECEIVED"
    BY DEF FrameType
  <1> QED
    BY <1>1, <1>2

LEMMA SentType ==
  ASSUME NEW s \in Status, NEW f \in FrameType
  PROVE  /\ [f EXCEPT !.status = s, !.st = "SENT"] \in FrameType
         /\ [f EXCEPT !.status = s, !.st = "SENT"].st = "SENT"
  <1>1. [f EXCEPT !.status = s, !.st = "SENT"] \in FrameType
    BY StatesAreStates DEF FrameType
  <1>2. [f EXCEPT !.status = s, !.st = "SENT"].st = "SENT"
    BY DEF FrameType
  <1> QED
    BY <1>1, <1>2

\* What nwkTxFrame makes of a header is a frame, on its way out.
LEMMA TxFrameType ==
  ASSUME NEW h \in Headers, NEW routed \in BOOLEAN, NEW jitter \in Jitters,
         NEW conf \in {"null", "dataReq"}, nextHop \in [Nodes -> Addrs]
  PROVE  /\ TxFrame(h, routed, conf, jitter) \in FrameType
         /\ TxFrame(h, routed, conf, jitter).st \in {"ENCRYPT", "DELAY"}
  <1> DEFINE md == IF h.panBcast THEN h.dst ELSE MacDst(h)
             hdr == [h EXCEPT !.macDst = md, !.macSrc = Me]
  <1>1. md \in Addrs
    BY DEF Headers, MacDst, NWK_RouteNextHop, Addrs
  <1>2. hdr \in Headers
    <2>1. Me \in Addrs
      BY DEF Addrs
    <2> QED
      BY <1>1, <2>1 DEF Headers
  <1>3. jitter \in Nat
    BY NwkConstants DEF Jitters
  <1> QED
    BY <1>2, <1>3 DEF TxFrame, FrameType, FrameStates, TxStates, Status

LEMMA RebroadcastType ==
  ASSUME NEW h \in Headers, NEW jitter \in Jitters
  PROVE  Rebroadcast(h, jitter) \in FrameType /\ Rebroadcast(h, jitter).st = "DELAY"
  <1> DEFINE hdr == [h EXCEPT !.macDst = Bcast, !.macSrc = Me]
  <1>1. hdr \in Headers
    <2>1. Me \in Addrs /\ Bcast \in Addrs
      BY DEF Addrs
    <2> QED
      BY <2>1 DEF Headers
  <1>2. jitter \in Nat
    BY NwkConstants DEF Jitters
  <1> QED
    BY <1>1, <1>2 DEF Rebroadcast, FrameType, FrameStates, TxStates, Status

\* One frame changes: the others stay, and the count of frames in use follows.
LEMMA OneFrame ==
  ASSUME frames \in [Slots -> FrameType], NEW i \in Slots, NEW f \in FrameType,
         frames' = [frames EXCEPT ![i] = f]
  PROVE  /\ frames' \in [Slots -> FrameType]
         /\ \A j \in Slots : frames'[j] = IF j = i THEN f ELSE frames[j]
         /\ frames[i].st # "FREE" /\ f.st # "FREE" => Cardinality(InUse') = Cardinality(InUse)
         /\ frames[i].st = "FREE" /\ f.st # "FREE" => Cardinality(InUse') = Cardinality(InUse) + 1
         /\ frames[i].st # "FREE" /\ f.st = "FREE" => Cardinality(InUse') = Cardinality(InUse) - 1
  <1>1. /\ frames' \in [Slots -> FrameType]
        /\ \A j \in Slots : frames'[j] = IF j = i THEN f ELSE frames[j]
    OBVIOUS
  <1>2. ASSUME frames[i].st # "FREE", f.st # "FREE"
        PROVE  InUse' = InUse
    BY <1>1, <1>2 DEF InUse
  <1>3. ASSUME frames[i].st = "FREE", f.st # "FREE"
        PROVE  InUse' = InUse \cup {i} /\ i \notin InUse
    BY <1>1, <1>3 DEF InUse
  <1>4. ASSUME frames[i].st # "FREE", f.st = "FREE"
        PROVE  InUse' = InUse \ {i} /\ i \in InUse
    BY <1>1, <1>4 DEF InUse
  <1> QED
    BY <1>1, <1>2, <1>3, <1>4, InUseFinite, FS_AddElement, FS_RemoveElement

\* A visit sends one more frame: slot i leaves in a state, slot j is taken.
LEMMA TwoFrames ==
  ASSUME frames \in [Slots -> FrameType], NEW i \in Slots, NEW f \in FrameType,
         NEW j \in Slots, NEW g \in FrameType,
         frames[i].st # "FREE", frames[j].st = "FREE", g.st # "FREE",
         frames' = [frames EXCEPT ![i] = f, ![j] = g]
  PROVE  /\ i # j
         /\ frames' \in [Slots -> FrameType]
         /\ \A k \in Slots : frames'[k] = IF k = i THEN f ELSE IF k = j THEN g ELSE frames[k]
         /\ f.st # "FREE" => Cardinality(InUse') = Cardinality(InUse) + 1
         /\ f.st = "FREE" => Cardinality(InUse') = Cardinality(InUse)
  <1>1. /\ i # j
        /\ frames' \in [Slots -> FrameType]
        /\ \A k \in Slots : frames'[k] = IF k = i THEN f ELSE IF k = j THEN g ELSE frames[k]
    OBVIOUS
  <1>2. i \in InUse /\ j \notin InUse
    BY DEF InUse
  <1>3. ASSUME f.st # "FREE"
        PROVE  InUse' = InUse \cup {j}
    BY <1>1, <1>3 DEF InUse
  <1>4. ASSUME f.st = "FREE"
        PROVE  InUse' = (InUse \ {i}) \cup {j}
    BY <1>1, <1>4 DEF InUse
  <1>5. /\ Cardinality(InUse \cup {j}) = Cardinality(InUse) + 1
        /\ Cardinality(InUse \ {i}) = Cardinality(InUse) - 1
        /\ IsFiniteSet(InUse \ {i})
    BY <1>2, InUseFinite, FS_AddElement, FS_RemoveElement
  <1>6. Cardinality((InUse \ {i}) \cup {j}) = Cardinality(InUse)
    <2> DEFINE S == InUse \ {i}
    <2>1. IsFiniteSet(S) /\ j \notin S /\ Cardinality(S) = Cardinality(InUse) - 1
      BY <1>2, <1>5
    <2> HIDE DEF S
    <2>2. Cardinality(S \cup {j}) = Cardinality(S) + 1
      BY <2>1, FS_AddElement
    <2> QED
      BY <2>1, <2>2, InUseFinite DEF S
  <1> QED
    BY <1>1, <1>3, <1>4, <1>5, <1>6

\* Frames change without one being taken or freed.
LEMMA SameInUse ==
  ASSUME \A i \in Slots : frames[i].st = "FREE" <=> frames'[i].st = "FREE"
  PROVE  Cardinality(InUse') = Cardinality(InUse)
  <1>1. InUse' = InUse
    BY DEF InUse
  <1> QED
    BY <1>1

-----------------------------------------------------------------------------
(* nwkTxTaskHandler *)

LEMMA TxEncryptStep ==
  ASSUME IInv, NEW i \in Slots, TxEncrypt(i)
  PROVE  IInv'
  <1> DEFINE f == [frames[i] EXCEPT !.st = "ENCRYPT_PENDING"]
  <1>1. /\ f \in FrameType /\ f.st = "ENCRYPT_PENDING"
        /\ frames[i].st = "ENCRYPT"
        /\ frames' = [frames EXCEPT ![i] = f]
    BY StatesAreStates DEF IInv, TypeOK, FrameType, TxEncrypt, TxVisit, SetState
  <1> HIDE DEF f
  <1>2. /\ frames' \in [Slots -> FrameType]
        /\ \A j \in Slots : frames'[j] = IF j = i THEN f ELSE frames[j]
        /\ Cardinality(InUse') = Cardinality(InUse)
    BY <1>1, OneFrame DEF IInv, TypeOK
  <1>3. TypeOK'
    BY <1>2, SMT DEF IInv, TypeOK, TxEncrypt, TxVisit, timers, secVars, bounds, Tasks, Slots
  <1>4. WaitersHaveTimer' /\ OneTransmission' /\ SecurityHasWork'
    BY <1>1, <1>2 DEF IInv, WaitersHaveTimer, OneTransmission, SecurityHasWork,
       secVars, TxEncrypt, timers
  <1>5. LockAccounting'
    BY <1>2 DEF IInv, LockAccounting, TxEncrypt, TxVisit
  <1> QED
    BY <1>3, <1>4, <1>5 DEF IInv

LEMMA TxDelayStep ==
  ASSUME IInv, NEW i \in Slots, TxDelay(i)
  PROVE  IInv'
  <1> DEFINE f == [frames[i] EXCEPT !.st = IF frames[i].timeout > 0
                                           THEN "WAIT_DELAY" ELSE "SEND"]
  <1> DEFINE st == IF frames[i].timeout > 0 THEN "WAIT_DELAY" ELSE "SEND"
  <1>1. /\ f \in FrameType
        /\ f.st = IF f.timeout > 0 THEN "WAIT_DELAY" ELSE "SEND"
        /\ frames[i].st = "DELAY"
        /\ frames' = [frames EXCEPT ![i] = f]
        /\ f.st = "WAIT_DELAY" => delayTimer'
        /\ delayTimer => delayTimer'
        /\ delayTimer' \in BOOLEAN
    <2>1. frames[i] \in FrameType /\ delayTimer \in BOOLEAN
      BY DEF IInv, TypeOK
    <2>2. st \in FrameStates
      BY StatesAreStates
    <2>3. f \in FrameType /\ f.st = st /\ f.timeout = frames[i].timeout
      BY <2>1, <2>2 DEF FrameType
    <2>4. frames[i].st = "DELAY"
      BY DEF TxDelay, TxVisit
    <2>5. frames' = [frames EXCEPT ![i] = f]
      BY DEF TxDelay, SetState
    <2>6. delayTimer' = IF frames[i].timeout > 0 THEN TRUE ELSE delayTimer
      BY DEF TxDelay
    <2> HIDE DEF f
    <2> QED
      BY <2>1, <2>3, <2>4, <2>5, <2>6
  <1> HIDE DEF f
  <1>2. /\ frames' \in [Slots -> FrameType]
        /\ \A j \in Slots : frames'[j] = IF j = i THEN f ELSE frames[j]
        /\ Cardinality(InUse') = Cardinality(InUse)
    BY <1>1, OneFrame DEF IInv, TypeOK
  <1>3. TypeOK'
    BY <1>1, <1>2 DEF IInv, TypeOK, TxDelay, TxVisit, secVars, bounds, Tasks, Slots
  <1>4. WaitersHaveTimer' /\ OneTransmission' /\ SecurityHasWork'
    BY <1>1, <1>2 DEF IInv, WaitersHaveTimer, OneTransmission, SecurityHasWork,
       secVars, TxDelay
  <1>5. LockAccounting'
    BY <1>2 DEF IInv, LockAccounting, TxDelay, TxVisit
  <1> QED
    BY <1>3, <1>4, <1>5 DEF IInv

LEMMA TxSendStep ==
  ASSUME IInv, NEW i \in Slots, TxSend(i)
  PROVE  IInv'
  <1> DEFINE f == [frames[i] EXCEPT !.st = "WAIT_CONF"]
  <1>1. /\ f \in FrameType /\ f.st = "WAIT_CONF"
        /\ frames[i].st = "SEND"
    BY StatesAreStates DEF IInv, TypeOK, FrameType, TxSend, TxVisit
  <1>2. CASE active # NoSlot
    BY <1>2 DEF IInv, TypeOK, WaitersHaveTimer, OneTransmission, SecurityHasWork,
       LockAccounting, InUse, TxSend, TxVisit, poolVars, timers, secVars, bounds, Tasks, Slots
  <1>3. CASE active = NoSlot
    <2>1. frames' = [frames EXCEPT ![i] = f] /\ active' = i /\ lock' = lock + 1
      BY <1>3 DEF TxSend, SetState
    <2> HIDE DEF f
    <2>2. /\ frames' \in [Slots -> FrameType]
          /\ \A j \in Slots : frames'[j] = IF j = i THEN f ELSE frames[j]
          /\ Cardinality(InUse') = Cardinality(InUse)
      BY <1>1, <2>1, OneFrame DEF IInv, TypeOK
    <2>3. radio' = [tx |-> "busy", trac |-> "SUCCESS", rx |-> NoFrame]
      BY <1>3 DEF TxSend, PHY_DataReq
    <2>4. TypeOK'
      <3>1. radio' \in [tx: {"idle", "busy", "done"}, trac: Tracs,
                        rx: [on: BOOLEAN, hdr: Headers]]
        BY <2>3, BlankTypes DEF NoFrame, Tracs
      <3> QED
        BY <2>1, <2>2, <3>1 DEF IInv, TypeOK, TxSend, TxVisit, timers, secVars,
           bounds, Tasks, Slots
    <2>5. WaitersHaveTimer'
      BY <1>1, <2>2 DEF IInv, WaitersHaveTimer, TxSend, timers
    <2>6. OneTransmission'
      BY <1>1, <1>3, <2>1, <2>2, <2>3, SlotsNotNoSlot DEF IInv, OneTransmission, NoFrame
    <2>8. SecurityHasWork'
      BY <1>1, <2>2 DEF IInv, SecurityHasWork, TxSend, secVars
    <2>7. LockAccounting'
      BY <1>3, <2>1, <2>2, InUseFinite, SlotsNotNoSlot
         DEF IInv, TypeOK, LockAccounting, One, TxSend, TxVisit
    <2> QED
      BY <2>4, <2>5, <2>6, <2>7, <2>8 DEF IInv
  <1> QED
    BY <1>2, <1>3

LEMMA TxSentStep ==
  ASSUME IInv, NEW i \in Slots, TxSent(i)
  PROVE  IInv'
  <1>1. PICK f \in FrameType :
          /\ f.st \in {"WAIT_ACK", "CONFIRM"}
          /\ f.st = "WAIT_ACK" => f.timeout > 0 /\ ackTimer'
          /\ frames[i].st = "SENT"
          /\ frames' = [frames EXCEPT ![i] = f]
          /\ ackTimer => ackTimer'
          /\ ackTimer' \in BOOLEAN
    <2>1. frames[i] \in FrameType /\ frames[i].st = "SENT" /\ ackTimer \in BOOLEAN
      BY DEF IInv, TypeOK, TxSent, TxVisit
    <2> DEFINE w == [frames[i] EXCEPT !.st = "WAIT_ACK", !.timeout = AckTicks]
               c == [frames[i] EXCEPT !.st = "CONFIRM"]
    <2>2. /\ w \in FrameType /\ w.st = "WAIT_ACK" /\ w.timeout > 0
          /\ c \in FrameType /\ c.st = "CONFIRM"
      <3>1. AckTicks \in Nat /\ AckTicks > 0
        BY NwkConstants
      <3>2. w \in FrameType /\ c \in FrameType
        BY <2>1, <3>1, StatesAreStates DEF FrameType
      <3>3. w.st = "WAIT_ACK" /\ c.st = "CONFIRM"
        BY <2>1 DEF FrameType
      <3>4. w.timeout = AckTicks
        BY <2>1 DEF FrameType
      <3> QED
        BY <3>1, <3>2, <3>3, <3>4
    <2>3. \/ frames' = [frames EXCEPT ![i] = w] /\ ackTimer' = TRUE
          \/ frames' = [frames EXCEPT ![i] = c] /\ ackTimer' = ackTimer
      BY DEF TxSent, SetState, IInv, TypeOK
    <2> HIDE DEF w, c
    <2> QED
      BY <2>1, <2>2, <2>3
  <1>2. /\ frames' \in [Slots -> FrameType]
        /\ \A j \in Slots : frames'[j] = IF j = i THEN f ELSE frames[j]
        /\ Cardinality(InUse') = Cardinality(InUse)
    BY <1>1, OneFrame DEF IInv, TypeOK
  <1>3. TypeOK'
    BY <1>1, <1>2 DEF IInv, TypeOK, TxSent, TxVisit, secVars, bounds, Tasks, Slots
  <1>4. WaitersHaveTimer' /\ OneTransmission' /\ SecurityHasWork'
    BY <1>1, <1>2 DEF IInv, WaitersHaveTimer, OneTransmission, SecurityHasWork,
       secVars, TxSent
  <1>5. LockAccounting'
    BY <1>2 DEF IInv, LockAccounting, TxSent, TxVisit
  <1> QED
    BY <1>3, <1>4, <1>5 DEF IInv

LEMMA TxConfirmStep ==
  ASSUME IInv, NEW i \in Slots, TxConfirm(i)
  PROVE  IInv'
  <1>1. /\ frames[i].st = "CONFIRM"
        /\ frames' = [frames EXCEPT ![i] = FreeFrame]
        /\ FreeFrame.st = "FREE"
    BY DEF TxConfirm, TxVisit, FreeFrame
  <1>2. /\ frames' \in [Slots -> FrameType]
        /\ \A j \in Slots : frames'[j] = IF j = i THEN FreeFrame ELSE frames[j]
        /\ Cardinality(InUse') = Cardinality(InUse) - 1
    BY <1>1, OneFrame, BlankTypes DEF IInv, TypeOK
  <1>3. nextHop' \in [Nodes -> Addrs]
    <2>1. Bcast \in Addrs
      BY DEF Addrs
    <2> QED
      BY <2>1 DEF IInv, TypeOK, TxConfirm, AgesRoute
  <1>4. reqs' \in [Reqs -> ReqType]
    <2>1. CASE frames[i].conf = "dataReq"
      <3>1. reqs' = [r \in Reqs |->
                       IF r \in OwnerOf(i)
                       THEN [reqs[r] EXCEPT !.status = frames[i].status, !.state = "CONFIRM"]
                       ELSE reqs[r]]
        BY <2>1 DEF TxConfirm, TxConf
      <3>2. frames[i].status \in Status
        BY DEF IInv, TypeOK, FrameType
      <3>3. ASSUME NEW r \in Reqs
            PROVE  [reqs[r] EXCEPT !.status = frames[i].status, !.state = "CONFIRM"] \in ReqType
        BY <3>2, ConfirmedType DEF IInv, TypeOK
      <3> QED
        BY <3>1, <3>3 DEF IInv, TypeOK
    <2>2. CASE frames[i].conf # "dataReq"
      BY <2>2 DEF IInv, TypeOK, TxConfirm
    <2> QED
      BY <2>1, <2>2
  <1>5. TypeOK'
    BY <1>2, <1>3, <1>4 DEF IInv, TypeOK, TxConfirm, TxVisit, timers, secVars, bounds,
       Tasks, Slots
  <1>6. WaitersHaveTimer' /\ OneTransmission' /\ SecurityHasWork'
    BY <1>1, <1>2 DEF IInv, WaitersHaveTimer, OneTransmission, SecurityHasWork,
       secVars, TxConfirm, timers
  <1>7. LockAccounting'
    BY <1>2, InUseFinite, SMTT(30) DEF IInv, TypeOK, LockAccounting, One, TxConfirm, TxVisit
  <1> QED
    BY <1>5, <1>6, <1>7 DEF IInv

\* The ends of the passes touch nothing but the place of the loop.
LEMMA DoneStep ==
  ASSUME IInv, RxDone \/ TxDone \/ TimerDone
  PROVE  IInv'
  <1>1. TypeOK'
    BY DEF IInv, TypeOK, RxDone, TxDone, TimerDone, poolVars, reqVars, timers, secVars,
       bounds, Tasks
  <1>2. WaitersHaveTimer' /\ OneTransmission' /\ SecurityHasWork'
    BY DEF IInv, WaitersHaveTimer, OneTransmission, SecurityHasWork,
       secVars, RxDone, TxDone, TimerDone, poolVars,
       timers
  <1>3. InUse' = InUse
    BY DEF InUse, RxDone, TxDone, TimerDone, poolVars
  <1>4. LockAccounting'
    BY <1>3 DEF IInv, LockAccounting, RxDone, TxDone, TimerDone, poolVars, reqVars
  <1> QED
    BY <1>1, <1>2, <1>4 DEF IInv

\* A frame that waits is counted down, and leaves at the last tick.
LEMMA TickTypes ==
  ASSUME NEW h \in FrameType, h.timeout > 0
  PROVE  /\ [h EXCEPT !.timeout = 0, !.st = "CONFIRM", !.status = "NO_ACK"] \in FrameType
         /\ [h EXCEPT !.timeout = 0, !.st = "CONFIRM", !.status = "NO_ACK"].st = "CONFIRM"
         /\ [h EXCEPT !.timeout = 0, !.st = "SEND"] \in FrameType
         /\ [h EXCEPT !.timeout = 0, !.st = "SEND"].st = "SEND"
         /\ [h EXCEPT !.timeout = @ - 1] \in FrameType
         /\ [h EXCEPT !.timeout = @ - 1].st = h.st
         /\ h.timeout # 1 => [h EXCEPT !.timeout = @ - 1].timeout > 0
  <1>1. h.timeout \in Nat /\ h.timeout - 1 \in Nat
    BY DEF FrameType
  <1>2. "NO_ACK" \in Status /\ "CONFIRM" \in FrameStates /\ "SEND" \in FrameStates
    BY StatesAreStates DEF Status
  <1>3. [h EXCEPT !.timeout = 0, !.st = "CONFIRM", !.status = "NO_ACK"] \in FrameType
    BY <1>2 DEF FrameType
  <1>4. [h EXCEPT !.timeout = 0, !.st = "CONFIRM", !.status = "NO_ACK"].st = "CONFIRM"
    BY DEF FrameType
  <1>5. [h EXCEPT !.timeout = 0, !.st = "SEND"] \in FrameType
    BY <1>2 DEF FrameType
  <1>6. [h EXCEPT !.timeout = 0, !.st = "SEND"].st = "SEND"
    BY DEF FrameType
  <1>7. /\ [h EXCEPT !.timeout = @ - 1] \in FrameType
        /\ [h EXCEPT !.timeout = @ - 1].st = h.st
        /\ h.timeout # 1 => [h EXCEPT !.timeout = @ - 1].timeout > 0
    BY <1>1 DEF FrameType
  <1> QED
    BY <1>3, <1>4, <1>5, <1>6, <1>7

LEMMA AckWaitTimerStep ==
  ASSUME IInv, AckWaitTimerFires
  PROVE  IInv'
  <1>1. frames' = [i \in Slots |->
             IF frames[i].st # "WAIT_ACK" THEN frames[i]
             ELSE IF frames[i].timeout = 1
             THEN [frames[i] EXCEPT !.timeout = 0, !.st = "CONFIRM", !.status = "NO_ACK"]
             ELSE [frames[i] EXCEPT !.timeout = @ - 1]]
    BY DEF AckWaitTimerFires
  <1>2. ackTimer' = ({i \in Slots : frames[i].st = "WAIT_ACK"} # {})
    BY DEF AckWaitTimerFires
  <1>3. \A i \in Slots :
          /\ frames[i] \in FrameType
          /\ frames'[i] \in FrameType
          /\ frames[i].st # "WAIT_ACK" => frames'[i] = frames[i]
          /\ frames[i].st = "WAIT_ACK" =>
               \/ frames'[i].st = "CONFIRM"
               \/ frames'[i].st = "WAIT_ACK" /\ frames'[i].timeout > 0
    <2> TAKE i \in Slots
    <2>1. frames[i] \in FrameType
      BY DEF IInv, TypeOK
    <2>2. CASE frames[i].st # "WAIT_ACK"
      BY <1>1, <2>1, <2>2
    <2>3. CASE frames[i].st = "WAIT_ACK" /\ frames[i].timeout = 1
      <3>1. frames'[i] =
              [frames[i] EXCEPT !.timeout = 0, !.st = "CONFIRM", !.status = "NO_ACK"]
        BY <1>1, <2>3, Zenon
      <3>2. frames[i].timeout > 0
        BY <2>3
      <3> QED
        BY <2>1, <2>3, <3>1, <3>2, TickTypes, ZenonT(30)
    <2>4. CASE frames[i].st = "WAIT_ACK" /\ frames[i].timeout # 1
      <3>1. frames'[i] = [frames[i] EXCEPT !.timeout = @ - 1]
        BY <1>1, <2>4, Zenon
      <3>2. frames[i].timeout > 0
        BY <2>4 DEF IInv, WaitersHaveTimer
      <3> QED
        BY <2>1, <2>4, <3>1, <3>2, TickTypes
    <2> QED
      BY <2>2, <2>3, <2>4
  <1>4. frames' \in [Slots -> FrameType]
    BY <1>1, <1>3
  <1>5. TypeOK'
    BY <1>2, <1>4 DEF IInv, TypeOK, AckWaitTimerFires, reqVars, secVars, loopVars, bounds
  <1>6. WaitersHaveTimer' /\ OneTransmission' /\ SecurityHasWork'
    BY <1>2, <1>3 DEF IInv, WaitersHaveTimer, OneTransmission, SecurityHasWork,
       secVars, AckWaitTimerFires
  <1>7. Cardinality(InUse') = Cardinality(InUse)
    BY <1>3, SameInUse
  <1>8. LockAccounting'
    BY <1>7 DEF IInv, LockAccounting, AckWaitTimerFires, reqVars
  <1> QED
    BY <1>5, <1>6, <1>8 DEF IInv

LEMMA DelayTimerStep ==
  ASSUME IInv, DelayTimerFires
  PROVE  IInv'
  <1>1. frames' = [i \in Slots |->
             IF frames[i].st # "WAIT_DELAY" THEN frames[i]
             ELSE IF frames[i].timeout = 1
             THEN [frames[i] EXCEPT !.timeout = 0, !.st = "SEND"]
             ELSE [frames[i] EXCEPT !.timeout = @ - 1]]
    BY DEF DelayTimerFires
  <1>2. delayTimer' = ({i \in Slots : frames[i].st = "WAIT_DELAY"} # {})
    BY DEF DelayTimerFires
  <1>3. \A i \in Slots :
          /\ frames[i] \in FrameType
          /\ frames'[i] \in FrameType
          /\ frames[i].st # "WAIT_DELAY" => frames'[i] = frames[i]
          /\ frames[i].st = "WAIT_DELAY" =>
               \/ frames'[i].st = "SEND"
               \/ frames'[i].st = "WAIT_DELAY" /\ frames'[i].timeout > 0
    <2> TAKE i \in Slots
    <2>1. frames[i] \in FrameType
      BY DEF IInv, TypeOK
    <2>2. CASE frames[i].st # "WAIT_DELAY"
      BY <1>1, <2>1, <2>2
    <2>3. CASE frames[i].st = "WAIT_DELAY" /\ frames[i].timeout = 1
      <3>1. frames'[i] = [frames[i] EXCEPT !.timeout = 0, !.st = "SEND"]
        BY <1>1, <2>3, Zenon
      <3>2. frames[i].timeout > 0
        BY <2>3
      <3> QED
        BY <2>1, <2>3, <3>1, <3>2, TickTypes, ZenonT(30)
    <2>4. CASE frames[i].st = "WAIT_DELAY" /\ frames[i].timeout # 1
      <3>1. frames'[i] = [frames[i] EXCEPT !.timeout = @ - 1]
        BY <1>1, <2>4, Zenon
      <3>2. frames[i].timeout > 0
        BY <2>4 DEF IInv, WaitersHaveTimer
      <3> QED
        BY <2>1, <2>4, <3>1, <3>2, TickTypes
    <2> QED
      BY <2>2, <2>3, <2>4
  <1>4. frames' \in [Slots -> FrameType]
    BY <1>1, <1>3
  <1>5. TypeOK'
    BY <1>2, <1>4 DEF IInv, TypeOK, DelayTimerFires, reqVars, secVars, loopVars, bounds
  <1>6. WaitersHaveTimer' /\ OneTransmission' /\ SecurityHasWork'
    BY <1>2, <1>3 DEF IInv, WaitersHaveTimer, OneTransmission, SecurityHasWork,
       secVars, DelayTimerFires
  <1>7. Cardinality(InUse') = Cardinality(InUse)
    BY <1>3, SameInUse
  <1>8. LockAccounting'
    BY <1>7 DEF IInv, LockAccounting, DelayTimerFires, reqVars
  <1> QED
    BY <1>5, <1>6, <1>8 DEF IInv

-----------------------------------------------------------------------------
(* NWK_DataReq and nwkDataReqTaskHandler *)

LEMMA DataReqSubmitStep ==
  ASSUME IInv, NEW r \in Reqs, NEW opt \in ReqOptions, NWK_DataReq(r, opt)
  PROVE  IInv'
  <1>1. queue' \in Seq(Reqs) /\ Len(queue') = Len(queue) + 1
    BY DEF IInv, TypeOK, NWK_DataReq, Cons
  <1>2. reqs' \in [Reqs -> ReqType]
    <2>1. [state |-> "INITIAL", status |-> "SUCCESS", frame |-> NoSlot, opt |-> opt] \in ReqType
      BY NwkConstants DEF ReqType, Status
    <2> QED
      BY <2>1 DEF IInv, TypeOK, NWK_DataReq
  <1>3. submitted' \in 0..MaxSubmit
    BY NwkConstants DEF IInv, TypeOK, NWK_DataReq
  <1>4. TypeOK'
    BY <1>1, <1>2, <1>3 DEF IInv, TypeOK, NWK_DataReq, timers, secVars, loopVars
  <1>5. WaitersHaveTimer' /\ OneTransmission' /\ SecurityHasWork'
    BY DEF IInv, WaitersHaveTimer, OneTransmission, SecurityHasWork,
       secVars, NWK_DataReq, timers
  <1>6. InUse' = InUse
    BY DEF InUse, NWK_DataReq
  <1>7. LockAccounting'
    BY <1>1, <1>6, InUseFinite DEF IInv, TypeOK, LockAccounting, One, NWK_DataReq
  <1> QED
    BY <1>4, <1>5, <1>7 DEF IInv

\* What nwkDataReqTaskHandler leaves alone.
DataReqFrame ==
  /\ task' = "security" /\ cursor' = cursor
  /\ UNCHANGED <<active, timers, secVars, nextHop, radio, bounds>>

LEMMA SendFrameStep ==
  ASSUME IInv, NEW r \in Reqs, DataReqFrame, SendFrame(r)
  PROVE  IInv'
  <1>1. PICK i \in Slots, jitter \in Jitters :
          /\ FirstFree(i)
          /\ frames' = [frames EXCEPT ![i] =
                          TxFrame(DataHeader(reqs[r].opt), FALSE, "dataReq", jitter)]
          /\ reqs' = [reqs EXCEPT ![r].frame = i, ![r].state = "WAIT_CONF"]
    BY DEF SendFrame
  <1> DEFINE f == TxFrame(DataHeader(reqs[r].opt), FALSE, "dataReq", jitter)
  <1>2. f \in FrameType /\ f.st \in {"ENCRYPT", "DELAY"}
    <2>1. reqs[r].opt \in Options
      BY DEF IInv, TypeOK, ReqType
    <2>2. DataHeader(reqs[r].opt) \in Headers
      BY <2>1, DataHeaderType, NextSeqType DEF IInv, TypeOK
    <2> QED
      BY <2>2, TxFrameType DEF IInv, TypeOK
  <1>3. frames[i].st = "FREE" /\ frames' = [frames EXCEPT ![i] = f]
    BY <1>1 DEF FirstFree, FreeSlots
  <1> HIDE DEF f
  <1>4. /\ frames' \in [Slots -> FrameType]
        /\ \A j \in Slots : frames'[j] = IF j = i THEN f ELSE frames[j]
        /\ Cardinality(InUse') = Cardinality(InUse) + 1
    BY <1>2, <1>3, OneFrame DEF IInv, TypeOK
  <1>5. reqs' \in [Reqs -> ReqType]
    <2>1. [reqs[r] EXCEPT !.frame = i, !.state = "WAIT_CONF"] \in ReqType
      BY RequestType DEF IInv, TypeOK
    <2>2. reqs' = [reqs EXCEPT ![r] = [reqs[r] EXCEPT !.frame = i, !.state = "WAIT_CONF"]]
      BY <1>1 DEF IInv, TypeOK
    <2> QED
      BY <2>1, <2>2 DEF IInv, TypeOK
  <1>6. TypeOK'
    <2>1. lock' \in Int /\ seqNum' \in Seqs
      BY NextSeqType DEF IInv, TypeOK, SendFrame
    <2> QED
      BY <1>4, <1>5, <2>1 DEF IInv, TypeOK, SendFrame, DataReqFrame, timers, secVars,
         bounds, Tasks
  <1>7. WaitersHaveTimer' /\ OneTransmission' /\ SecurityHasWork'
    BY <1>2, <1>3, <1>4 DEF IInv, WaitersHaveTimer, OneTransmission, SecurityHasWork,
       secVars, DataReqFrame, timers
  <1>8. LockAccounting'
    BY <1>4, InUseFinite DEF IInv, TypeOK, LockAccounting, One, SendFrame, DataReqFrame
  <1> QED
    BY <1>6, <1>7, <1>8 DEF IInv

LEMMA SendFrameNoMemoryStep ==
  ASSUME IInv, NEW r \in Reqs, DataReqFrame, SendFrameNoMemory(r)
  PROVE  IInv'
  <1>1. reqs' \in [Reqs -> ReqType]
    <2>1. [reqs[r] EXCEPT !.state = "CONFIRM", !.status = "OUT_OF_MEMORY"] \in ReqType
      BY ConfirmedType DEF IInv, TypeOK, Status
    <2>2. reqs' = [reqs EXCEPT ![r] = [reqs[r] EXCEPT !.state = "CONFIRM",
                                                      !.status = "OUT_OF_MEMORY"]]
      BY DEF IInv, TypeOK, SendFrameNoMemory
    <2> QED
      BY <2>1, <2>2 DEF IInv, TypeOK
  <1>2. TypeOK'
    BY <1>1 DEF IInv, TypeOK, SendFrameNoMemory, DataReqFrame, poolVars, timers, secVars,
       bounds, Tasks
  <1>3. WaitersHaveTimer' /\ OneTransmission' /\ SecurityHasWork'
    BY DEF IInv, WaitersHaveTimer, OneTransmission, SecurityHasWork,
       secVars, SendFrameNoMemory, DataReqFrame,
       poolVars, timers
  <1>4. InUse' = InUse
    BY DEF InUse, SendFrameNoMemory, poolVars
  <1>5. LockAccounting'
    BY <1>4 DEF IInv, LockAccounting, SendFrameNoMemory, DataReqFrame, poolVars
  <1> QED
    BY <1>2, <1>3, <1>5 DEF IInv

LEMMA ConfirmRequestStep ==
  ASSUME IInv, NEW k \in DOMAIN queue, DataReqFrame, ConfirmRequest(k)
  PROVE  IInv'
  <1>1. queue \in Seq(Reqs) /\ k \in 1..Len(queue) /\ queue[k] \in Reqs
    BY DEF IInv, TypeOK
  <1>2. queue' \in Seq(Reqs) /\ Len(queue') = Len(queue) - 1
    <2>1. queue' = SubSeq(queue, 1, k - 1) \o SubSeq(queue, k + 1, Len(queue))
      BY DEF ConfirmRequest, RemoveAt
    <2> DEFINE A == SubSeq(queue, 1, k - 1)
               B == SubSeq(queue, k + 1, Len(queue))
    <2>2. A \in Seq(Reqs) /\ Len(A) = k - 1
      BY <1>1
    <2>3. B \in Seq(Reqs) /\ Len(B) = Len(queue) - k
      BY <1>1
    <2>4. queue' = A \o B
      BY <2>1
    <2> HIDE DEF A, B
    <2>5. A \o B \in Seq(Reqs) /\ Len(A \o B) = Len(A) + Len(B)
      BY <2>2, <2>3
    <2>6. Len(queue) \in Nat /\ k \in Int
      BY <1>1
    <2> QED
      BY <2>2, <2>3, <2>4, <2>5, <2>6
  <1>3. reqs' \in [Reqs -> ReqType]
    <2>1. [reqs[queue[k]] EXCEPT !.state = "IDLE", !.frame = NoSlot] \in ReqType
      BY <1>1, SomeSlot, RequestType DEF IInv, TypeOK
    <2>2. reqs' = [reqs EXCEPT ![queue[k]] = [reqs[queue[k]] EXCEPT !.state = "IDLE",
                                                                    !.frame = NoSlot]]
      BY <1>1 DEF IInv, TypeOK, ConfirmRequest
    <2> QED
      BY <1>1, <2>1, <2>2 DEF IInv, TypeOK
  <1>4. TypeOK'
    BY <1>2, <1>3 DEF IInv, TypeOK, ConfirmRequest, DataReqFrame, timers, secVars,
       bounds, Tasks
  <1>5. WaitersHaveTimer' /\ OneTransmission' /\ SecurityHasWork'
    BY DEF IInv, WaitersHaveTimer, OneTransmission, SecurityHasWork,
       secVars, ConfirmRequest, DataReqFrame, timers
  <1>6. InUse' = InUse
    BY DEF InUse, ConfirmRequest
  <1>7. LockAccounting'
    BY <1>1, <1>2, <1>6, InUseFinite, SMTT(30)
       DEF IInv, TypeOK, LockAccounting, One, ConfirmRequest, DataReqFrame
  <1> QED
    BY <1>4, <1>5, <1>7 DEF IInv

LEMMA DataReqTaskStep ==
  ASSUME IInv, DataReqTask
  PROVE  IInv'
  <1>1. DataReqFrame
    BY DEF DataReqTask, DataReqFrame
  <1>2. CASE \E k \in DOMAIN queue :
               SendFrame(queue[k]) \/ SendFrameNoMemory(queue[k]) \/ ConfirmRequest(k)
    <2>1. PICK k \in DOMAIN queue :
               SendFrame(queue[k]) \/ SendFrameNoMemory(queue[k]) \/ ConfirmRequest(k)
      BY <1>2
    <2>2. queue[k] \in Reqs
      BY DEF IInv, TypeOK
    <2> QED
      BY <1>1, <2>1, <2>2, SendFrameStep, SendFrameNoMemoryStep, ConfirmRequestStep
  <1>3. CASE UNCHANGED <<reqVars, poolVars, seqNum>>
    <2>1. TypeOK'
      BY <1>1, <1>3 DEF IInv, TypeOK, DataReqFrame, reqVars, poolVars, timers, secVars,
         bounds, Tasks
    <2>2. WaitersHaveTimer' /\ OneTransmission' /\ SecurityHasWork'
      BY <1>1, <1>3 DEF IInv, WaitersHaveTimer, OneTransmission, SecurityHasWork,
       secVars, DataReqFrame, poolVars,
         timers
    <2>3. InUse' = InUse
      BY <1>3 DEF InUse, poolVars
    <2>4. LockAccounting'
      BY <1>1, <1>3, <2>3 DEF IInv, LockAccounting, DataReqFrame, reqVars, poolVars
    <2> QED
      BY <2>1, <2>2, <2>4 DEF IInv
  <1> QED
    BY <1>2, <1>3 DEF DataReqTask

-----------------------------------------------------------------------------
(* nwkSecurityTaskHandler, the transceiver and PHY_TaskHandler *)

\* Whatever the security module does, one frame at most changes its state,
\* and it is one that neither waits nor is free.
LEMMA SecurityMoves ==
  ASSUME IInv, SecurityTask
  PROVE  \/ frames' = frames /\ UNCHANGED secVars
         \/ /\ \E i \in Slots, st \in {"DELAY", "INDICATE", "FINISH", "SEC_PROCESS",
                                      "SEC_CONFIRM"} :
                 /\ frames[i].st \in SecStates
                 /\ frames' = [frames EXCEPT ![i].st = st]
                 /\ secActive' = IF st \in {"SEC_PROCESS", "SEC_CONFIRM"} THEN i ELSE NoSlot
                 /\ secActive \in {i, NoSlot}
                 /\ st = "SEC_PROCESS" => secLeft' > 0
            /\ secCount' \in Int /\ secEncrypt' \in BOOLEAN /\ secLeft' \in 0..MaxBlocks
  <1>1. CASE SecurityConfirm
    <2>1. secActive \in Slots
      BY <1>1 DEF SecurityConfirm, IInv, TypeOK
    <2>2. PICK st \in {"DELAY", "INDICATE", "FINISH"} :
             frames' = [frames EXCEPT ![secActive].st = st]
      BY <1>1 DEF SecurityConfirm, nwkTxEncryptConf, nwkRxDecryptConf, SetState
    <2>3. /\ frames[secActive].st \in SecStates /\ secActive' = NoSlot
          /\ secCount' \in Int /\ secEncrypt' \in BOOLEAN /\ secLeft' \in 0..MaxBlocks
      BY <1>1 DEF SecurityConfirm, IInv, TypeOK, SecStates
    <2> QED
      BY <2>1, <2>2, <2>3
  <1>2. CASE SecurityBlock
    <2>1. secActive \in Slots
      BY <1>2 DEF SecurityBlock, IInv, TypeOK
    <2>2. PICK st \in {"SEC_PROCESS", "SEC_CONFIRM"} :
             /\ frames' = [frames EXCEPT ![secActive].st = st]
             /\ st = "SEC_PROCESS" => secLeft > 1
      BY <1>2 DEF SecurityBlock, SetState
    <2>3. secLeft \in 1..MaxBlocks /\ secLeft' = secLeft - 1
      BY <1>2, <2>1, NwkConstants DEF SecurityBlock, IInv, TypeOK, SecurityHasWork
    <2>4. secLeft' \in 0..MaxBlocks /\ (st = "SEC_PROCESS" => secLeft' > 0)
      BY <2>2, <2>3, NwkConstants
    <2> QED
      BY <1>2, <2>1, <2>2, <2>4 DEF SecurityBlock, IInv, TypeOK, SecStates
  <1>3. CASE SecurityStart
    <2>1. PICK i \in PendingFrames :
             /\ secActive' = i
             /\ secEncrypt' = (frames[i].st = "ENCRYPT_PENDING")
             /\ frames' = [frames EXCEPT ![i].st = "SEC_PROCESS"]
      BY <1>3 DEF SecurityStart, SetState
    <2>2. secLeft' \in 0..MaxBlocks /\ secLeft' > 0
      BY <1>3, NwkConstants DEF SecurityStart
    <2> QED
      BY <1>3, <2>1, <2>2 DEF SecurityStart, PendingFrames, IInv, TypeOK, SecStates
  <1>4. CASE SecurityIdle
    BY <1>4 DEF SecurityIdle
  <1> QED
    BY <1>1, <1>2, <1>3, <1>4 DEF SecurityTask

LEMMA SecurityTaskStep ==
  ASSUME IInv, SecurityTask
  PROVE  IInv'
  <1>1. /\ UNCHANGED <<lock, queue, reqs, acked, seqNum, active, ackTimer, delayTimer,
                       nextHop, radio, submitted, received>>
        /\ task' \in Tasks /\ cursor' \in Nat
    BY DEF SecurityTask, reqVars, timers, bounds, Tasks
  <1>2. CASE frames' = frames /\ UNCHANGED secVars
    <2>1. TypeOK'
      BY <1>1, <1>2 DEF IInv, TypeOK, secVars
    <2>2. WaitersHaveTimer' /\ OneTransmission' /\ SecurityHasWork'
      BY <1>1, <1>2 DEF IInv, WaitersHaveTimer, OneTransmission, SecurityHasWork, secVars
    <2>3. InUse' = InUse
      BY <1>2 DEF InUse
    <2>4. LockAccounting'
      BY <1>1, <2>3 DEF IInv, LockAccounting
    <2> QED
      BY <2>1, <2>2, <2>4 DEF IInv
  <1>3. ASSUME NEW i \in Slots,
               NEW st \in {"DELAY", "INDICATE", "FINISH", "SEC_PROCESS", "SEC_CONFIRM"},
               frames[i].st \in SecStates,
               frames' = [frames EXCEPT ![i].st = st],
               secActive' = IF st \in {"SEC_PROCESS", "SEC_CONFIRM"} THEN i ELSE NoSlot,
               secActive \in {i, NoSlot},
               st = "SEC_PROCESS" => secLeft' > 0,
               secCount' \in Int, secEncrypt' \in BOOLEAN, secLeft' \in 0..MaxBlocks
        PROVE  IInv'
    <2> DEFINE f == [frames[i] EXCEPT !.st = st]
    <2>1. f \in FrameType /\ f.st = st /\ frames' = [frames EXCEPT ![i] = f]
      <3>1. st \in FrameStates /\ frames[i] \in FrameType
        BY <1>3, StatesAreStates DEF IInv, TypeOK
      <3> QED
        BY <1>3, <3>1, SetStateType
    <2> HIDE DEF f
    <2>2. /\ frames' \in [Slots -> FrameType]
          /\ \A j \in Slots : frames'[j] = IF j = i THEN f ELSE frames[j]
          /\ Cardinality(InUse') = Cardinality(InUse)
      <3>1. frames \in [Slots -> FrameType]
        BY DEF IInv, TypeOK
      <3>2. frames[i].st # "FREE" /\ f.st # "FREE"
        BY <1>3, <2>1 DEF SecStates
      <3> QED
        BY <2>1, <3>1, <3>2, OneFrame, ZenonT(30)
    <2>3. TypeOK'
      BY <1>1, <1>3, <2>2 DEF IInv, TypeOK
    <2>4. WaitersHaveTimer' /\ OneTransmission'
      BY <1>1, <1>3, <2>1, <2>2 DEF IInv, WaitersHaveTimer, OneTransmission, SecStates
    <2>5. SecurityHasWork'
      BY <1>3, <2>1, <2>2, SlotsNotNoSlot DEF IInv, SecurityHasWork
    <2>6. LockAccounting'
      BY <1>1, <2>2 DEF IInv, LockAccounting
    <2> QED
      BY <2>3, <2>4, <2>5, <2>6 DEF IInv
  <1> QED
    BY <1>2, <1>3, SecurityMoves

LEMMA RadioStep ==
  ASSUME IInv, RadioReceive \/ RadioTxEnd
  PROVE  IInv'
  <1>1. UNCHANGED <<frames, lock, queue, reqs, acked, seqNum, active, ackTimer,
                    delayTimer, secCount, secActive, secEncrypt, secLeft, nextHop, task,
                    cursor, submitted>>
    BY DEF RadioReceive, RadioTxEnd, poolVars, reqVars, timers, secVars, loopVars, bounds
  <1>2. /\ radio' \in [tx: {"idle", "busy", "done"}, trac: Tracs,
                        rx: [on: BOOLEAN, hdr: Headers]]
        /\ radio'.tx # "idle" <=> radio.tx # "idle"
        /\ radio'.rx.on => radio'.tx = "idle"
        /\ received' \in 0..MaxRx
    <2>1. CASE RadioReceive
      <3>1. PICK h \in RxHeaders : radio' = [radio EXCEPT !.rx = [on |-> TRUE, hdr |-> h]]
        BY <2>1 DEF RadioReceive
      <3>2. h \in Headers
        BY NwkConstants
      <3>3. /\ radio' \in [tx: {"idle", "busy", "done"}, trac: Tracs,
                            rx: [on: BOOLEAN, hdr: Headers]]
            /\ radio'.tx = radio.tx
        BY <3>1, <3>2 DEF IInv, TypeOK
      <3>4. radio.tx = "idle" /\ received' \in 0..MaxRx
        BY <2>1, NwkConstants, SMTT(30) DEF RadioReceive, IInv, TypeOK
      <3> QED
        BY <3>3, <3>4
    <2>2. CASE RadioTxEnd
      <3>1. PICK s \in TracStatuses : radio' = [radio EXCEPT !.tx = "done", !.trac = s]
        BY <2>2 DEF RadioTxEnd
      <3>2. s \in Tracs
        BY NwkConstants
      <3>3. /\ radio' \in [tx: {"idle", "busy", "done"}, trac: Tracs,
                            rx: [on: BOOLEAN, hdr: Headers]]
            /\ radio'.tx = "done" /\ radio'.rx = radio.rx
        BY <3>1, <3>2 DEF IInv, TypeOK
      <3> QED
        BY <2>2, <3>3 DEF RadioTxEnd, IInv, TypeOK, OneTransmission, bounds
    <2> QED
      BY <2>1, <2>2
  <1>3. TypeOK'
    BY <1>1, <1>2 DEF IInv, TypeOK
  <1>4. WaitersHaveTimer' /\ OneTransmission' /\ SecurityHasWork'
    BY <1>1, <1>2 DEF IInv, WaitersHaveTimer, OneTransmission, SecurityHasWork
  <1>5. InUse' = InUse
    BY <1>1 DEF InUse
  <1>6. LockAccounting'
    BY <1>1, <1>5 DEF IInv, LockAccounting
  <1> QED
    BY <1>3, <1>4, <1>6 DEF IInv

LEMMA PhyTaskStep ==
  ASSUME IInv, PhyTask
  PROVE  IInv'
  <1>1. /\ UNCHANGED <<queue, reqs, acked, seqNum, ackTimer, delayTimer, secCount,
                       secActive, secEncrypt, secLeft, nextHop, submitted, received>>
        /\ task' \in Tasks /\ cursor' \in Nat
    BY DEF PhyTask, reqVars, timers, secVars, bounds, Tasks
  <1>2. CASE UNCHANGED <<poolVars, active, radio>>
    <2>1. TypeOK'
      BY <1>1, <1>2 DEF IInv, TypeOK, poolVars
    <2>2. WaitersHaveTimer' /\ OneTransmission' /\ SecurityHasWork'
      BY <1>1, <1>2 DEF IInv, WaitersHaveTimer, OneTransmission, SecurityHasWork, poolVars
    <2>3. InUse' = InUse
      BY <1>2 DEF InUse, poolVars
    <2>4. LockAccounting'
      BY <1>1, <1>2, <2>3 DEF IInv, LockAccounting, poolVars
    <2> QED
      BY <2>1, <2>2, <2>4 DEF IInv
  <1>3. CASE radio.rx.on /\ PHY_DataInd
    <2>1. /\ active' = active
          /\ radio' \in [tx: {"idle", "busy", "done"}, trac: Tracs,
                         rx: [on: BOOLEAN, hdr: Headers]]
          /\ radio'.tx = radio.tx /\ ~radio'.rx.on
      <3>1. NoFrame \in [on: BOOLEAN, hdr: Headers] /\ ~NoFrame.on
        BY BlankTypes DEF NoFrame
      <3>2. radio' = [radio EXCEPT !.rx = NoFrame] /\ active' = active
        BY <1>3 DEF PHY_DataInd
      <3> HIDE DEF NoFrame
      <3> QED
        BY <3>1, <3>2 DEF IInv, TypeOK
    <2>2. CASE UNCHANGED poolVars
      <3>1. TypeOK'
        BY <1>1, <2>1, <2>2 DEF IInv, TypeOK, poolVars
      <3>2. WaitersHaveTimer' /\ OneTransmission' /\ SecurityHasWork'
        BY <1>1, <2>1, <2>2 DEF IInv, WaitersHaveTimer, OneTransmission, SecurityHasWork,
           poolVars
      <3>3. InUse' = InUse
        BY <2>2 DEF InUse, poolVars
      <3>4. LockAccounting'
        BY <1>1, <2>1, <2>2, <3>3 DEF IInv, LockAccounting, poolVars
      <3> QED
        BY <3>1, <3>2, <3>4 DEF IInv
    <2>3. CASE ~UNCHANGED poolVars
      <3>1. PICK i \in Slots :
              /\ FirstFree(i)
              /\ frames' = [frames EXCEPT ![i] =
                             [FreeFrame EXCEPT !.st = "RECEIVED", !.hdr = radio.rx.hdr]]
        BY <1>3, <2>3 DEF PHY_DataInd
      <3>2. lock' = lock + 1
        BY <1>3, <2>3 DEF PHY_DataInd
      <3> DEFINE f == [FreeFrame EXCEPT !.st = "RECEIVED", !.hdr = radio.rx.hdr]
      <3>3. f \in FrameType /\ f.st = "RECEIVED"
        <4>1. radio.rx.hdr \in Headers
          BY DEF IInv, TypeOK
        <4> QED
          BY <4>1, BlankTypes, ReceivedType
      <3>4. frames[i].st = "FREE" /\ frames' = [frames EXCEPT ![i] = f]
        BY <3>1 DEF FirstFree, FreeSlots
      <3> HIDE DEF f
      <3>5. /\ frames' \in [Slots -> FrameType]
            /\ \A j \in Slots : frames'[j] = IF j = i THEN f ELSE frames[j]
            /\ Cardinality(InUse') = Cardinality(InUse) + 1
        BY <3>3, <3>4, OneFrame DEF IInv, TypeOK
      <3>6. TypeOK'
        BY <1>1, <2>1, <3>2, <3>5 DEF IInv, TypeOK
      <3>7. WaitersHaveTimer' /\ OneTransmission' /\ SecurityHasWork'
        BY <1>1, <2>1, <3>3, <3>4, <3>5
           DEF IInv, WaitersHaveTimer, OneTransmission, SecurityHasWork
      <3>8. LockAccounting'
        BY <1>1, <2>1, <3>2, <3>5, InUseFinite DEF IInv, TypeOK, LockAccounting, One
      <3> QED
        BY <3>6, <3>7, <3>8 DEF IInv
    <2> QED
      BY <2>2, <2>3
  <1>4. CASE radio.tx = "done" /\ PHY_DataConf
    <2>1. active \in Slots /\ frames[active].st = "WAIT_CONF"
      BY <1>4 DEF IInv, TypeOK, OneTransmission
    <2> DEFINE f == [frames[active] EXCEPT !.status = PhyStatus(radio.trac), !.st = "SENT"]
    <2>2. f \in FrameType /\ f.st = "SENT"
      <3>1. PhyStatus(radio.trac) \in Status
        BY DEF PhyStatus, Status
      <3> QED
        BY <2>1, <3>1, SentType DEF IInv, TypeOK
    <2>3. /\ frames' = [frames EXCEPT ![active] = f]
          /\ active' = NoSlot /\ lock' = lock - 1
      BY <1>4, <2>1 DEF PHY_DataConf, IInv, TypeOK
    <2> HIDE DEF f
    <2>4. /\ frames' \in [Slots -> FrameType]
          /\ \A j \in Slots : frames'[j] = IF j = active THEN f ELSE frames[j]
          /\ Cardinality(InUse') = Cardinality(InUse)
      BY <2>1, <2>2, <2>3, OneFrame DEF IInv, TypeOK
    <2>5. /\ radio' \in [tx: {"idle", "busy", "done"}, trac: Tracs,
                         rx: [on: BOOLEAN, hdr: Headers]]
          /\ radio'.tx = "idle" /\ ~radio'.rx.on
      BY <1>4, BlankTypes DEF PHY_DataConf, NoFrame, Tracs
    <2>6. TypeOK'
      BY <1>1, <2>3, <2>4, <2>5 DEF IInv, TypeOK
    <2>7. WaitersHaveTimer' /\ OneTransmission' /\ SecurityHasWork'
      BY <1>1, <2>1, <2>2, <2>3, <2>4, <2>5, SlotsNotNoSlot
         DEF IInv, WaitersHaveTimer, OneTransmission, SecurityHasWork
    <2>8. LockAccounting'
      BY <1>1, <2>1, <2>3, <2>4, InUseFinite, SlotsNotNoSlot
         DEF IInv, TypeOK, LockAccounting, One
    <2> QED
      BY <2>6, <2>7, <2>8 DEF IInv
  <1> QED
    BY <1>2, <1>3, <1>4 DEF PhyTask

-----------------------------------------------------------------------------
(* nwkRxTaskHandler *)

\* What every visit of the Rx module does to the variables but the frames, and
\* its effect on the lock.
RxQuietly ==
  /\ UNCHANGED <<radio, active, timers, bounds, queue, reqs, secActive, secEncrypt,
                 secLeft>>
  /\ seqNum' \in Seqs /\ nextHop' \in [Nodes -> Addrs]
  /\ secCount' \in Int /\ acked' \subseteq Reqs
  /\ task' \in Tasks /\ cursor' \in Nat

\* The states nobody but the loop itself waits for.
Idle == {"ENCRYPT", "DELAY", "SEND", "CONFIRM", "RECEIVED", "DECRYPT", "INDICATE",
         "ROUTE", "FINISH", "ENCRYPT_PENDING", "DECRYPT_PENDING", "FREE"}

\* A visit changes frames from and to such states, or answers a frame that
\* waits for its acknowledgement, and the lock follows the pool.
LEMMA RxStep ==
  ASSUME IInv, RxQuietly, frames' \in [Slots -> FrameType],
         \A k \in Slots : \/ frames'[k] = frames[k]
                          \/ /\ frames[k].st \in Idle \cup {"WAIT_ACK"}
                             /\ frames'[k].st \in Idle,
         lock' = lock + Cardinality(InUse') - Cardinality(InUse),
         Cardinality(InUse') \in Nat
  PROVE  IInv'
  <1>1. TypeOK'
    BY InUseFinite DEF IInv, TypeOK, RxQuietly, timers, bounds
  <1>2. WaitersHaveTimer' /\ OneTransmission' /\ SecurityHasWork'
    BY DEF IInv, WaitersHaveTimer, OneTransmission, SecurityHasWork, RxQuietly, timers,
       Idle
  <1>3. LockAccounting'
    BY InUseFinite, SMTT(30) DEF IInv, TypeOK, LockAccounting, One, RxQuietly
  <1> QED
    BY <1>1, <1>2, <1>3 DEF IInv

LEMMA RxOneFrame ==
  ASSUME IInv, RxQuietly, NEW i \in Slots, NEW f \in FrameType,
         frames[i].st \in VisitedByRx, f.st \in Idle,
         frames' = [frames EXCEPT ![i] = f],
         lock' = IF f.st = "FREE" THEN lock - 1 ELSE lock
  PROVE  IInv'
  <1>1. /\ frames' \in [Slots -> FrameType]
        /\ \A j \in Slots : frames'[j] = IF j = i THEN f ELSE frames[j]
        /\ Cardinality(InUse') =
             IF f.st = "FREE" THEN Cardinality(InUse) - 1 ELSE Cardinality(InUse)
    BY OneFrame DEF IInv, TypeOK, VisitedByRx
  <1>2. Cardinality(InUse') \in Nat
    <2>1. i \in InUse
      BY DEF InUse, VisitedByRx
    <2>2. Cardinality(InUse) # 0
      BY <2>1, InUseFinite, FS_EmptySet
    <2> QED
      BY <1>1, <2>2, InUseFinite
  <1>3. lock' = lock + Cardinality(InUse') - Cardinality(InUse)
    BY <1>1, InUseFinite DEF IInv, TypeOK
  <1> QED
    BY <1>1, <1>2, <1>3, RxStep DEF VisitedByRx, Idle

LEMMA RxTwoFrames ==
  ASSUME IInv, RxQuietly, NEW i \in Slots, NEW f \in FrameType, NEW j \in Slots,
         NEW g \in FrameType, FirstFree(j),
         frames[i].st \in VisitedByRx, f.st \in Idle, g.st \in Idle \ {"FREE"},
         frames' = [frames EXCEPT ![i] = f, ![j] = g],
         lock' = IF f.st = "FREE" THEN lock ELSE lock + 1
  PROVE  IInv'
  <1>1. frames[j].st = "FREE"
    BY DEF FirstFree, FreeSlots
  <1>2. /\ frames' \in [Slots -> FrameType]
        /\ \A k \in Slots : frames'[k] = IF k = i THEN f ELSE IF k = j THEN g ELSE frames[k]
        /\ Cardinality(InUse') =
             IF f.st = "FREE" THEN Cardinality(InUse) ELSE Cardinality(InUse) + 1
    <2>1. frames \in [Slots -> FrameType]
      BY DEF IInv, TypeOK
    <2>2. frames[i].st # "FREE" /\ g.st # "FREE"
      BY DEF VisitedByRx
    <2> QED
      <3>1. /\ frames' \in [Slots -> FrameType]
            /\ \A k \in Slots :
                 frames'[k] = IF k = i THEN f ELSE IF k = j THEN g ELSE frames[k]
            /\ f.st # "FREE" => Cardinality(InUse') = Cardinality(InUse) + 1
            /\ f.st = "FREE" => Cardinality(InUse') = Cardinality(InUse)
        BY <1>1, <2>1, <2>2, TwoFrames, ZenonT(30)
      <3> QED
        BY <3>1
  <1>3. Cardinality(InUse') \in Nat
    BY <1>2, InUseFinite
  <1>4. lock' = lock + Cardinality(InUse') - Cardinality(InUse)
    BY <1>2, InUseFinite DEF IInv, TypeOK
  <1> QED
    BY <1>1, <1>2, <1>3, <1>4, RxStep DEF VisitedByRx, Idle

LEMMA RouteTypes ==
  ASSUME nextHop \in [Nodes -> Addrs]
  PROVE  /\ \A h \in Headers : LearnedRoutes(h) \subseteq [Nodes -> Addrs]
         /\ \A hops \in [Nodes -> Addrs] : \A d : WithoutRoute(hops, d) \in [Nodes -> Addrs]
  <1>1. ASSUME NEW hops \in [Nodes -> Addrs], NEW d
        PROVE  WithoutRoute(hops, d) \in [Nodes -> Addrs]
    <2>1. Bcast \in Addrs
      BY DEF Addrs
    <2> QED
      BY <2>1 DEF WithoutRoute
  <1>2. ASSUME NEW h \in Headers
        PROVE  LearnedRoutes(h) \subseteq [Nodes -> Addrs]
    <2>1. h.macSrc \in Addrs
      BY DEF Headers
    <2>2. \A hops \in [Nodes -> Addrs] : [hops EXCEPT ![h.src] = h.macSrc] \in [Nodes -> Addrs]
      BY <2>1
    <2>3. {nextHop} \cup {WithoutRoute(nextHop, d) : d \in Nodes} \subseteq [Nodes -> Addrs]
      BY <1>1
    <2> QED
      BY <2>2, <2>3 DEF LearnedRoutes
  <1> QED
    BY <1>1, <1>2

\* A visit leaves its frame in a state, and sends another one or does not.
LEMMA LeaveStep ==
  ASSUME IInv, RxQuietly, NEW i \in Slots, frames[i].st \in VisitedByRx,
         NEW st \in Idle \ {"FREE"},
         \/ Leave(i, st)
         \/ \E new \in FrameType : new.st \in Idle \ {"FREE"} /\ LeaveAndSend(i, st, new)
  PROVE  IInv'
  <1> DEFINE f == [frames[i] EXCEPT !.st = st]
  <1>1. f \in FrameType /\ f.st = st
    <2>1. st \in FrameStates
      BY StatesAreStates DEF Idle
    <2> QED
      BY <2>1, SetStateType DEF IInv, TypeOK
  <1>2. CASE frames' = [frames EXCEPT ![i].st = st] /\ lock' = lock
    <2>1. frames' = [frames EXCEPT ![i] = f]
      BY <1>2
    <2> HIDE DEF f
    <2> QED
      BY <1>1, <1>2, <2>1, RxOneFrame
  <1>3. ASSUME NEW new \in FrameType, new.st \in Idle \ {"FREE"}, NEW j \in Slots,
               FirstFree(j),
               frames' = [frames EXCEPT ![i].st = st, ![j] = new], lock' = lock + 1
        PROVE  IInv'
    <2>1. frames' = [frames EXCEPT ![i] = f, ![j] = new]
      BY <1>3
    <2> HIDE DEF f
    <2> QED
      BY <1>1, <1>3, <2>1, RxTwoFrames
  <1> QED
    BY <1>2, <1>3 DEF Leave, LeaveAndSend, SetState

\* What the actions of nwkRxTaskHandler share.
LEMMA VisitFacts ==
  ASSUME IInv, NEW i \in Slots, NEW state \in VisitedByRx, RxVisit(i, state)
  PROVE  /\ frames[i] \in FrameType /\ frames[i].hdr \in Headers
         /\ frames[i].st = state
         /\ task' \in Tasks /\ cursor' \in Nat
         /\ UNCHANGED <<radio, active, timers, bounds, queue, reqs>>
         /\ seqNum \in Seqs /\ NextSeq \in Seqs
         /\ secCount \in Int /\ acked \subseteq Reqs
         /\ nextHop \in [Nodes -> Addrs]
  <1>1. frames[i] \in FrameType /\ frames[i].hdr \in Headers
    BY DEF IInv, TypeOK, FrameType
  <1>2. /\ frames[i].st = state
        /\ task' \in Tasks /\ cursor' \in Nat
        /\ UNCHANGED <<radio, active, timers, bounds, queue, reqs>>
    BY DEF RxVisit, Tasks, Slots
  <1>3. /\ seqNum \in Seqs /\ secCount \in Int /\ acked \subseteq Reqs
        /\ nextHop \in [Nodes -> Addrs]
    BY DEF IInv, TypeOK
  <1> QED
    BY <1>1, <1>2, <1>3, NextSeqType

LEMMA AcceptedIdle ==
  ASSUME NEW h
  PROVE  Accepted(h) \in Idle \ {"FREE"}
  BY DEF Accepted, Idle

LEMMA RxReceivedStep ==
  ASSUME IInv, NEW i \in Slots, RxIgnore(i) \/ RxOtherPan(i) \/ RxDuplicate(i)
  PROVE  IInv'
  <1>1. RxVisit(i, "RECEIVED") /\ "RECEIVED" \in VisitedByRx
    BY DEF RxIgnore, RxOtherPan, RxDuplicate, VisitedByRx
  <1>2. nextHop' \in [Nodes -> Addrs]
    BY <1>1, VisitFacts, RouteTypes DEF RxIgnore, RxOtherPan, RxDuplicate
  <1>3. RxQuietly
    BY <1>1, <1>2, VisitFacts DEF RxQuietly, RxIgnore, RxOtherPan, RxDuplicate, secVars
  <1>4. Leave(i, "FINISH") \/ Leave(i, Accepted(frames[i].hdr))
    BY DEF RxIgnore, RxOtherPan, RxDuplicate
  <1>5. "FINISH" \in Idle \ {"FREE"}
    BY DEF Idle
  <1> QED
    BY <1>1, <1>3, <1>4, <1>5, VisitFacts, AcceptedIdle, LeaveStep

LEMMA RxAcceptStep ==
  ASSUME IInv, NEW i \in Slots, RxAccept(i)
  PROVE  IInv'
  <1> DEFINE h == frames[i].hdr
  <1>1. RxVisit(i, "RECEIVED") /\ "RECEIVED" \in VisitedByRx
    BY DEF RxAccept, VisitedByRx
  <1>2. h \in Headers /\ nextHop' \in [Nodes -> Addrs]
    BY <1>1, VisitFacts, RouteTypes DEF RxAccept
  <1>3. RxQuietly
    BY <1>1, <1>2, VisitFacts DEF RxQuietly, RxAccept, secVars
  <1>4. \/ Leave(i, Accepted(h))
        \/ \E jitter \in Jitters : LeaveAndSend(i, Accepted(h), Rebroadcast(h, jitter))
    BY DEF RxAccept
  <1>5. \A jitter \in Jitters :
          Rebroadcast(h, jitter) \in FrameType /\ Rebroadcast(h, jitter).st = "DELAY"
    BY <1>2, RebroadcastType
  <1>6. "DELAY" \in Idle \ {"FREE"}
    BY DEF Idle
  <1> HIDE DEF h
  <1> QED
    BY <1>1, <1>3, <1>4, <1>5, <1>6, VisitFacts, AcceptedIdle, LeaveStep

LEMMA RxDecryptStep ==
  ASSUME IInv, NEW i \in Slots, RxDecrypt(i)
  PROVE  IInv'
  <1>1. RxVisit(i, "DECRYPT") /\ "DECRYPT" \in VisitedByRx
    BY DEF RxDecrypt, VisitedByRx
  <1>2. RxQuietly
    BY <1>1, VisitFacts DEF RxQuietly, RxDecrypt
  <1>3. Leave(i, "DECRYPT_PENDING") /\ "DECRYPT_PENDING" \in Idle \ {"FREE"}
    BY DEF RxDecrypt, Idle
  <1> QED
    BY <1>1, <1>2, <1>3, VisitFacts, LeaveStep

\* The end of the visit of a frame that was delivered.
LEMMA FinishStep ==
  ASSUME IInv, NEW i \in Slots, NEW result \in BOOLEAN, RxVisit(i, "INDICATE"),
         Finish(i, result), nextHop' \in [Nodes -> Addrs], UNCHANGED <<secVars, acked>>
  PROVE  IInv'
  <1> DEFINE h == frames[i].hdr
             ack == AckFor(h)
  <1>1. "INDICATE" \in VisitedByRx /\ "FINISH" \in Idle \ {"FREE"}
    BY DEF VisitedByRx, Idle
  <1>2. RxQuietly
    <2>1. seqNum' \in Seqs
      BY <1>1, VisitFacts DEF Finish
    <2> QED
      BY <1>1, <2>1, VisitFacts DEF RxQuietly, secVars
  <1>3. \/ Leave(i, "FINISH")
        \/ \E jitter \in Jitters :
             LeaveAndSend(i, "FINISH", TxFrame(ack, FALSE, "null", jitter))
    BY DEF Finish
  <1>4. ack \in Headers
    BY <1>1, VisitFacts, AckHeaderType
  <1> HIDE DEF ack
  <1>5. \A jitter \in Jitters :
          /\ TxFrame(ack, FALSE, "null", jitter) \in FrameType
          /\ TxFrame(ack, FALSE, "null", jitter).st \in Idle \ {"FREE"}
    BY <1>1, <1>4, VisitFacts, TxFrameType DEF Idle
  <1> QED
    BY <1>1, <1>2, <1>3, <1>5, VisitFacts, LeaveStep

LEMMA RxIndicateStep ==
  ASSUME IInv, NEW i \in Slots, RxIndicateData(i) \/ RxIndicateRouteError(i)
  PROVE  IInv'
  <1>1. RxVisit(i, "INDICATE") /\ "INDICATE" \in VisitedByRx
    BY DEF RxIndicateData, RxIndicateRouteError, VisitedByRx
  <1>2. nextHop' \in [Nodes -> Addrs]
    BY <1>1, VisitFacts, RouteTypes DEF RxIndicateData, RxIndicateRouteError
  <1> QED
    BY <1>1, <1>2, FinishStep DEF RxIndicateData, RxIndicateRouteError

\* An acknowledgement finishes the frame it answers, which is another frame,
\* and its own visit ends; it may be acknowledged itself.
LEMMA RxIndicateAckStep ==
  ASSUME IInv, NEW i \in Slots, RxIndicateAck(i)
  PROVE  IInv'
  <1> DEFINE h == frames[i].hdr
             ack == AckFor(h)
             after == [j \in Slots |-> IF AckMatches(j, h.arg)
                                      THEN [frames[j] EXCEPT !.st = "CONFIRM"] ELSE frames[j]]
  <1>1. /\ RxVisit(i, "INDICATE") /\ "INDICATE" \in VisitedByRx
        /\ "FINISH" \in FrameStates /\ "CONFIRM" \in FrameStates
    BY StatesAreStates DEF RxIndicateAck, VisitedByRx
  <1>2. /\ frames[i].st = "INDICATE" /\ frames[i] \in FrameType /\ h \in Headers
        /\ frames \in [Slots -> FrameType]
    BY <1>1, VisitFacts DEF IInv, TypeOK
  <1>3. RxQuietly
    <2>1. seqNum' \in Seqs /\ acked' \subseteq Reqs
      BY <1>1, VisitFacts DEF RxIndicateAck, AckedRequests
    <2> QED
      BY <1>1, <2>1, VisitFacts DEF RxQuietly, RxIndicateAck, secVars
  <1>4. /\ after \in [Slots -> FrameType]
        /\ after[i] = frames[i]
        /\ \A j \in Slots : \/ after[j] = frames[j]
                            \/ frames[j].st = "WAIT_ACK" /\ after[j].st = "CONFIRM"
    <2>1. ASSUME NEW j \in Slots
          PROVE  /\ after[j] \in FrameType
                 /\ j = i => after[j] = frames[j]
                 /\ \/ after[j] = frames[j]
                    \/ frames[j].st = "WAIT_ACK" /\ after[j].st = "CONFIRM"
      <3>1. CASE ~AckMatches(j, h.arg)
        BY <1>2, <3>1
      <3>2. CASE AckMatches(j, h.arg)
        <4>1. frames[j].st = "WAIT_ACK" /\ j # i
          BY <1>2, <3>2 DEF AckMatches, AwaitsAck
        <4>2. after[j] = [frames[j] EXCEPT !.st = "CONFIRM"]
          BY <3>2
        <4> HIDE DEF after
        <4>3. after[j] \in FrameType /\ after[j].st = "CONFIRM"
          BY <1>1, <1>2, <4>2 DEF FrameType
        <4> QED
          BY <4>1, <4>3
      <3> QED
        BY <3>1, <3>2
    <2>2. after = [j \in Slots |-> after[j]]
      OBVIOUS
    <2> HIDE DEF after
    <2>3. after \in [Slots -> FrameType]
      BY <2>1, <2>2
    <2> QED
      BY <2>1, <2>3
  <1>5. \/ frames' = [after EXCEPT ![i].st = "FINISH"] /\ UNCHANGED lock
        \/ \E j \in Slots, jitter \in Jitters :
             /\ FirstFree(j)
             /\ frames' = [after EXCEPT ![i].st = "FINISH",
                                        ![j] = TxFrame(ack, FALSE, "null", jitter)]
             /\ lock' = lock + 1
    BY DEF RxIndicateAck
  <1>6. ack \in Headers
    BY <1>1, VisitFacts, AckHeaderType
  <1> DEFINE f == [frames[i] EXCEPT !.st = "FINISH"]
  <1>7. f \in FrameType /\ f.st = "FINISH"
    BY <1>1, <1>2 DEF FrameType
  <1> HIDE DEF after, ack, h
  <1>8. CASE frames' = [after EXCEPT ![i].st = "FINISH"] /\ UNCHANGED lock
    <2>1. frames' = [after EXCEPT ![i] = f]
      BY <1>4, <1>8
    <2> HIDE DEF f
    <2>2. /\ frames' \in [Slots -> FrameType]
          /\ \A k \in Slots : frames'[k] = IF k = i THEN f ELSE after[k]
      BY <1>4, <1>7, <2>1
    <2>3. Cardinality(InUse') = Cardinality(InUse)
      <3>1. \A k \in Slots : frames[k].st = "FREE" <=> frames'[k].st = "FREE"
        BY <1>2, <1>4, <1>7, <2>2
      <3> QED
        BY <3>1, SameInUse
    <2>4. \A k \in Slots : \/ frames'[k] = frames[k]
                           \/ /\ frames[k].st \in Idle \cup {"WAIT_ACK"}
                              /\ frames'[k].st \in Idle
      BY <1>2, <1>4, <1>7, <2>2 DEF Idle
    <2>5. lock' = lock + Cardinality(InUse') - Cardinality(InUse)
      BY <1>8, <2>3, InUseFinite DEF IInv, TypeOK
    <2>6. Cardinality(InUse') \in Nat
      BY <2>3, InUseFinite
    <2> QED
      BY <1>3, <2>2, <2>4, <2>5, <2>6, RxStep
  <1>9. ASSUME NEW j \in Slots, NEW jitter \in Jitters, FirstFree(j),
               frames' = [after EXCEPT ![i].st = "FINISH",
                                       ![j] = TxFrame(ack, FALSE, "null", jitter)],
               lock' = lock + 1
        PROVE  IInv'
    <2> DEFINE g == TxFrame(ack, FALSE, "null", jitter)
    <2>1. g \in FrameType /\ g.st \in {"ENCRYPT", "DELAY"}
      BY <1>1, <1>6, VisitFacts, TxFrameType
    <2>2. frames[j].st = "FREE" /\ j # i
      BY <1>2, <1>9 DEF FirstFree, FreeSlots
    <2>3. frames' = [after EXCEPT ![i] = f, ![j] = g]
      BY <1>4, <1>9
    <2> HIDE DEF f, g
    <2>4. /\ frames' \in [Slots -> FrameType]
          /\ \A k \in Slots : frames'[k] = IF k = j THEN g ELSE IF k = i THEN f ELSE after[k]
      BY <1>4, <1>7, <2>1, <2>3
    <2>5. Cardinality(InUse') = Cardinality(InUse) + 1
      <3>1. InUse' = InUse \cup {j} /\ j \notin InUse
        BY <1>2, <1>4, <1>7, <2>1, <2>2, <2>4 DEF InUse
      <3> QED
        BY <3>1, InUseFinite, FS_AddElement
    <2>6. \A k \in Slots : \/ frames'[k] = frames[k]
                           \/ /\ frames[k].st \in Idle \cup {"WAIT_ACK"}
                              /\ frames'[k].st \in Idle
      BY <1>2, <1>4, <1>7, <2>1, <2>2, <2>4 DEF Idle
    <2>7. lock' = lock + Cardinality(InUse') - Cardinality(InUse)
      BY <1>9, <2>5, InUseFinite DEF IInv, TypeOK
    <2>8. Cardinality(InUse') \in Nat
      BY <2>5, InUseFinite
    <2> QED
      BY <1>3, <2>4, <2>6, <2>7, <2>8, RxStep
  <1> QED
    BY <1>5, <1>8, <1>9

LEMMA RxRouteStep ==
  ASSUME IInv, NEW i \in Slots, RxRoute(i)
  PROVE  IInv'
  <1>1. RxVisit(i, "ROUTE") /\ "ROUTE" \in VisitedByRx
    BY DEF RxRoute, VisitedByRx
  <1>2. PICK jitter \in Jitters :
          frames' = [frames EXCEPT ![i] = TxFrame(frames[i].hdr, TRUE, "null", jitter)]
    BY DEF RxRoute
  <1> DEFINE f == TxFrame(frames[i].hdr, TRUE, "null", jitter)
  <1>3. f \in FrameType /\ f.st \in {"ENCRYPT", "DELAY"}
    BY <1>1, VisitFacts, TxFrameType
  <1>4. frames' = [frames EXCEPT ![i] = f]
    BY <1>2
  <1>5. RxQuietly /\ lock' = lock
    BY <1>1, VisitFacts DEF RxQuietly, RxRoute, secVars
  <1> HIDE DEF f
  <1> QED
    BY <1>1, <1>3, <1>4, <1>5, VisitFacts, RxOneFrame DEF Idle

LEMMA RxFreesStep ==
  ASSUME IInv, NEW i \in Slots, RxRouteError(i) \/ RxFinish(i)
  PROVE  IInv'
  <1> DEFINE h == frames[i].hdr
             error == CommandHeader("routeError", h.src, h.dst, FALSE)
  <1>1. PICK state \in {"ROUTE", "FINISH"} : RxVisit(i, state)
    BY DEF RxRouteError, RxFinish
  <1>2. state \in VisitedByRx /\ FreeFrame.st = "FREE" /\ "FREE" \in Idle
    BY DEF VisitedByRx, FreeFrame, Idle
  <1>3. RxQuietly
    <2>1. seqNum' \in Seqs
      BY <1>1, <1>2, VisitFacts DEF RxRouteError, RxFinish
    <2> QED
      BY <1>1, <1>2, <2>1, VisitFacts DEF RxQuietly, RxRouteError, RxFinish, secVars
  <1>4. CASE frames' = [frames EXCEPT ![i] = FreeFrame] /\ lock' = lock - 1
    BY <1>1, <1>2, <1>3, <1>4, VisitFacts, BlankTypes, RxOneFrame
  <1>5. ASSUME NEW j \in Slots, NEW jitter \in Jitters, FirstFree(j),
               frames' = [frames EXCEPT ![i] = FreeFrame,
                                        ![j] = TxFrame(error, FALSE, "null", jitter)],
               lock' = lock
        PROVE  IInv'
    <2> DEFINE g == TxFrame(error, FALSE, "null", jitter)
    <2>1. error \in Headers
      BY <1>1, <1>2, VisitFacts, ErrorHeaderType
    <2> HIDE DEF error
    <2>2. g \in FrameType /\ g.st \in {"ENCRYPT", "DELAY"}
      BY <1>1, <1>2, <2>1, VisitFacts, TxFrameType
    <2>3. g.st \in Idle \ {"FREE"}
      BY <2>2 DEF Idle
    <2>4. frames' = [frames EXCEPT ![i] = FreeFrame, ![j] = g]
      BY <1>5
    <2>5. lock' = IF FreeFrame.st = "FREE" THEN lock ELSE lock + 1
      BY <1>2, <1>5
    <2>6. frames[i].st \in VisitedByRx /\ FreeFrame \in FrameType /\ FreeFrame.st \in Idle
      BY <1>1, <1>2, VisitFacts, BlankTypes
    <2> HIDE DEF g
    <2> QED
      BY <1>3, <1>5, <2>2, <2>3, <2>4, <2>5, <2>6, RxTwoFrames
  <1> QED
    BY <1>4, <1>5 DEF RxRouteError, RxFinish

-----------------------------------------------------------------------------
(* The invariant *)

LEMMA InitIInv == Init => IInv
  <1> SUFFICES ASSUME Init PROVE IInv
    OBVIOUS
  <1>1. TypeOK
    <2>1. /\ radio \in [tx: {"idle", "busy", "done"}, trac: Tracs,
                        rx: [on: BOOLEAN, hdr: Headers]]
          /\ nextHop \in [Nodes -> Addrs]
      BY BlankTypes DEF Init, NoFrame, Tracs, Addrs
    <2>2. reqs \in [Reqs -> ReqType]
      BY DEF Init, ReqType, Status, NoOptions, Options, Addrs
    <2>3. seqNum \in Seqs
      BY NwkConstants DEF Init, Seqs
    <2>4. secLeft \in 0..MaxBlocks /\ submitted \in 0..MaxSubmit /\ received \in 0..MaxRx
      BY NwkConstants DEF Init
    <2>5. frames \in [Slots -> FrameType] /\ queue \in Seq(Reqs) /\ task \in Tasks
      BY BlankTypes DEF Init, Tasks
    <2>6. lock \in Int /\ secCount \in Int /\ cursor \in Nat
      BY DEF Init
    <2>7. /\ active \in Slots \cup {NoSlot} /\ secActive \in Slots \cup {NoSlot}
          /\ ackTimer \in BOOLEAN /\ delayTimer \in BOOLEAN /\ secEncrypt \in BOOLEAN
          /\ acked \subseteq Reqs
      BY Zenon DEF Init
    <2> QED
      BY <2>1, <2>2, <2>3, <2>4, <2>5, <2>6, <2>7 DEF TypeOK
  <1>2. WaitersHaveTimer /\ OneTransmission /\ SecurityHasWork
    BY SlotsNotNoSlot
       DEF Init, WaitersHaveTimer, OneTransmission, SecurityHasWork, FreeFrame, NoFrame
  <1>3. LockAccounting
    <2>1. InUse = {}
      BY DEF Init, InUse, FreeFrame
    <2> QED
      BY <2>1, FS_EmptySet DEF Init, LockAccounting, One
  <1> QED
    BY <1>1, <1>2, <1>3 DEF IInv

LEMMA StepIInv == IInv /\ [Next]_vars => IInv'
  <1> SUFFICES ASSUME IInv, [Next]_vars PROVE IInv'
    OBVIOUS
  <1>1. CASE Loop
    <2>1. CASE RxTask
      <3>1. CASE RxDone
        BY <3>1, DoneStep
      <3>2. ASSUME NEW i \in Slots,
                   \/ RxIgnore(i) \/ RxOtherPan(i) \/ RxDuplicate(i) \/ RxAccept(i)
                   \/ RxDecrypt(i)
                   \/ RxIndicateData(i) \/ RxIndicateRouteError(i) \/ RxIndicateAck(i)
                   \/ RxRoute(i) \/ RxRouteError(i)
                   \/ RxFinish(i)
            PROVE  IInv'
        BY <3>2, RxReceivedStep, RxAcceptStep, RxDecryptStep, RxIndicateStep,
           RxIndicateAckStep, RxRouteStep, RxFreesStep
      <3> QED
        BY <2>1, <3>1, <3>2 DEF RxTask
    <2>2. CASE TxTask
      BY <2>2, TxEncryptStep, TxDelayStep, TxSendStep, TxSentStep, TxConfirmStep, DoneStep
         DEF TxTask
    <2> QED
      BY <1>1, <2>1, <2>2, PhyTaskStep, DataReqTaskStep, SecurityTaskStep, DoneStep DEF Loop
  <1>2. CASE Timers
    BY <1>2, AckWaitTimerStep, DelayTimerStep DEF Timers
  <1>3. CASE Application
    BY <1>3, DataReqSubmitStep DEF Application
  <1>4. CASE RadioReceive \/ RadioTxEnd
    BY <1>4, RadioStep
  <1>5. CASE UNCHANGED vars
    <2>1. TypeOK'
      BY <1>5 DEF vars, IInv, TypeOK, poolVars, reqVars, timers, secVars, loopVars, bounds
    <2>2. WaitersHaveTimer' /\ OneTransmission' /\ SecurityHasWork'
      BY <1>5 DEF vars, IInv, WaitersHaveTimer, OneTransmission, SecurityHasWork, poolVars,
         timers, secVars
    <2>3. InUse' = InUse
      BY <1>5 DEF vars, InUse, poolVars
    <2>4. LockAccounting'
      BY <1>5, <2>3 DEF vars, IInv, LockAccounting, poolVars, reqVars
    <2> QED
      BY <2>1, <2>2, <2>4 DEF IInv
  <1> QED
    BY <1>1, <1>2, <1>3, <1>4, <1>5 DEF Next

LEMMA Invariance == Spec => []IInv
  BY InitIInv, StepIInv, PTL DEF Spec

\* Every variable of the node keeps its type.
THEOREM TypeCorrect == Spec => []TypeOK
  <1>1. IInv => TypeOK
    BY DEF IInv
  <1> QED
    BY <1>1, Invariance, PTL

\* nwkIb.lock counts the frames in use, the queued requests and the
\* transmission under way, whatever the node has been through: NWK_Busy is
\* never stuck and never says too early that the node may sleep.
THEOREM LockCounts == Spec => []LockAccounting
  <1>1. IInv => LockAccounting
    BY DEF IInv
  <1> QED
    BY <1>1, Invariance, PTL

\* nwkTxPhyActiveFrame is the one frame that is being transmitted, and the
\* transceiver transmits when and only when there is one.
THEOREM TransmitsOne == Spec => []OneTransmission
  <1>1. IInv => OneTransmission
    BY DEF IInv
  <1> QED
    BY <1>1, Invariance, PTL

\* No frame waits for an acknowledgement or a delay without its timer.
THEOREM WaitsEnd == Spec => []WaitersHaveTimer
  <1>1. IInv => WaitersHaveTimer
    BY DEF IInv
  <1> QED
    BY <1>1, Invariance, PTL

-----------------------------------------------------------------------------
(* Requests and their frames *)

\* Where a frame that carries a request may be.
OutStates == TxStates \cup {"ENCRYPT_PENDING", "SEC_PROCESS", "SEC_CONFIRM"}

Waits(r) == reqs[r].state = "WAIT_CONF"

-----------------------------------------------------------------------------
(* The invariant *)

\* A frame that carries a request is on its way out: it will come to
\* nwkTxConfirm, and what the receiving half frees is nobody's.
CarriersGoOut ==
  \A i \in Slots : frames[i].conf = "dataReq" =>
    /\ frames[i].st \in OutStates
    /\ frames[i].st \in {"SEC_PROCESS", "SEC_CONFIRM"} => secEncrypt

\* A request that waits has its frame, with the header it asked for.
WaitersHaveFrame ==
  \A r \in Reqs : Waits(r) =>
    /\ reqs[r].frame \in Slots
    /\ frames[reqs[r].frame].conf = "dataReq"
    /\ frames[reqs[r].frame].hdr.src = Me
    /\ frames[reqs[r].frame].hdr.ackRequest = reqs[r].opt.ackRequest

FramesAreApart ==
  \A r, s \in Reqs : Waits(r) /\ Waits(s) /\ reqs[r].frame = reqs[s].frame => r = s

CarriersHaveOwner ==
  \A i \in Slots : frames[i].conf = "dataReq" => \E r \in Reqs : Waits(r) /\ reqs[r].frame = i

NewHaveNoFrame == \A r \in Reqs : reqs[r].state = "INITIAL" => reqs[r].frame = NoSlot

\* A finished request that still points at the frame is queued behind the one
\* that waits for it, since nwkDataReqTaskHandler serves the queue in order.
StalePointersBehind ==
  \A m, n \in DOMAIN queue :
    /\ Waits(queue[n]) /\ reqs[queue[m]].frame = reqs[queue[n]].frame
    => n <= m

\* A frame that asks for an acknowledgement is done with success only if one
\* came for its request.
AckedBeforeSuccess ==
  \A r \in Reqs :
    /\ Waits(r) /\ reqs[r].opt.ackRequest
    /\ frames[reqs[r].frame].st = "CONFIRM" /\ frames[reqs[r].frame].status = "SUCCESS"
    => r \in acked

OwnInv ==
  /\ CarriersGoOut /\ WaitersHaveFrame /\ FramesAreApart /\ CarriersHaveOwner
  /\ NewHaveNoFrame /\ StalePointersBehind /\ QueueIsOwned
  /\ AckedBeforeSuccess /\ SuccessIsAcked

-----------------------------------------------------------------------------
(* What follows from it *)

LEMMA ConfIs ==
  ASSUME TypeOK, NEW i \in Slots
  PROVE  frames[i].conf \in {"null", "dataReq"} /\ frames[i] \in FrameType
  BY DEF TypeOK, FrameType

\* The request that waits for a frame is the one nwkDataReqTxConf finds.
LEMMA OwnerFound ==
  ASSUME TypeOK, OwnInv, NEW r \in Reqs, Waits(r)
  PROVE  OwnerOf(reqs[r].frame) = {r}
<1> DEFINE Owners == {n \in DOMAIN queue : reqs[queue[n]].frame = reqs[r].frame}
<1>1. PICK n \in DOMAIN queue : queue[n] = r
  BY DEF OwnInv, QueueIsOwned, Waits
<1>2. n \in Owners /\ DOMAIN queue \subseteq Nat
  BY <1>1 DEF TypeOK
<1>3. \A m \in Owners : n <= m
  BY <1>1 DEF OwnInv, StalePointersBehind
<1>4. {m \in Owners : \A o \in Owners : m <= o} = {n}
  BY <1>2, <1>3
<1>5. OwnerOf(reqs[r].frame) = {queue[m] : m \in {n}}
  BY <1>4, Zenon DEF OwnerOf
<1> QED
  BY <1>1, <1>5

LEMMA OwnInvOwns ==
  ASSUME TypeOK, OwnInv
  PROVE  FramesAreOwned /\ SuccessIsAcked
<1>1. ASSUME NEW r \in Reqs, reqs[r].state = "WAIT_CONF"
      PROVE  /\ reqs[r].frame # NoSlot
             /\ frames[reqs[r].frame].st # "FREE" /\ frames[reqs[r].frame].conf = "dataReq"
             /\ OwnerOf(reqs[r].frame) = {r}
  <2>1. reqs[r].frame \in Slots /\ frames[reqs[r].frame].conf = "dataReq"
    BY <1>1 DEF OwnInv, WaitersHaveFrame, Waits
  <2>2. frames[reqs[r].frame].st # "FREE"
    BY <2>1 DEF OwnInv, CarriersGoOut, OutStates, TxStates
  <2> QED
    BY <1>1, <2>1, <2>2, OwnerFound, SlotsNotNoSlot DEF Waits
<1>2. RequestOwnsFrame
  BY <1>1 DEF RequestOwnsFrame, OwnInv, CarriersHaveOwner, Waits, InUse
<1> QED
  BY <1>2 DEF FramesAreOwned, OwnInv

-----------------------------------------------------------------------------
(* Steps that do not touch the requests *)

\* A frame stays, or is no request's before and after, or goes on with its
\* request.
Steady(i) ==
  \/ frames'[i] = frames[i]
  \/ frames[i].conf = "null" /\ frames'[i].conf = "null"
  \/ /\ frames[i].conf = "dataReq" /\ frames'[i].conf = "dataReq"
     /\ frames'[i].hdr = frames[i].hdr /\ frames'[i].st \in OutStates
     /\ /\ frames'[i].st = "CONFIRM" /\ frames'[i].status = "SUCCESS"
        /\ frames[i].hdr.src = Me /\ frames[i].hdr.ackRequest
        => \A r \in Reqs : Waits(r) /\ reqs[r].frame = i => r \in acked'

SteadyStep == UNCHANGED <<queue, reqs>> /\ acked \subseteq acked' /\ \A i \in Slots : Steady(i)

\* No frame is handed to the security module to be worked on.
NoneStarts ==
  /\ secEncrypt' = secEncrypt
  /\ \A i \in Slots :
       frames'[i] = frames[i] \/ frames'[i].st \notin {"SEC_PROCESS", "SEC_CONFIRM"}

EncryptsCarriers ==
  \A i \in Slots :
    frames[i].conf = "dataReq" /\ frames[i].st \in {"SEC_PROCESS", "SEC_CONFIRM"} => secEncrypt

LEMMA NoneStartsEncrypts ==
  ASSUME OwnInv, SteadyStep, NoneStarts
  PROVE  EncryptsCarriers'
  BY DEF OwnInv, CarriersGoOut, NoneStarts, EncryptsCarriers

LEMMA SteadyKeeps ==
  ASSUME TypeOK, OwnInv, SteadyStep, EncryptsCarriers'
  PROVE  OwnInv'
<1>1. /\ UNCHANGED <<queue, reqs>> /\ acked \subseteq acked'
      /\ \A r \in Reqs : Waits(r)' <=> Waits(r)
  BY DEF SteadyStep, Waits
<1>2. \A i \in Slots : frames'[i].conf = frames[i].conf
  BY ConfIs DEF SteadyStep, Steady
<1>3. \A i \in Slots : frames[i].conf = "dataReq" =>
        /\ frames'[i].hdr = frames[i].hdr
        /\ frames'[i].st \in OutStates
  BY DEF SteadyStep, Steady, OwnInv, CarriersGoOut
<1>4. CarriersGoOut'
  BY <1>2, <1>3 DEF CarriersGoOut, EncryptsCarriers
<1>5. WaitersHaveFrame'
  BY <1>1, <1>2, <1>3 DEF OwnInv, WaitersHaveFrame
<1>6. FramesAreApart' /\ NewHaveNoFrame' /\ StalePointersBehind' /\ QueueIsOwned'
  BY <1>1 DEF OwnInv, FramesAreApart, NewHaveNoFrame, StalePointersBehind, QueueIsOwned, Waits
<1>7. CarriersHaveOwner'
  BY <1>1, <1>2 DEF OwnInv, CarriersHaveOwner
<1>8. AckedBeforeSuccess'
  <2> SUFFICES ASSUME NEW r \in Reqs, Waits(r), reqs[r].opt.ackRequest,
                      frames'[reqs[r].frame].st = "CONFIRM",
                      frames'[reqs[r].frame].status = "SUCCESS"
               PROVE  r \in acked'
    BY <1>1 DEF AckedBeforeSuccess
  <2>1. /\ reqs[r].frame \in Slots /\ frames[reqs[r].frame].conf = "dataReq"
        /\ frames[reqs[r].frame].hdr.src = Me /\ frames[reqs[r].frame].hdr.ackRequest
    BY DEF OwnInv, WaitersHaveFrame
  <2>2. Steady(reqs[r].frame)
    BY <2>1 DEF SteadyStep
  <2>3. CASE frames'[reqs[r].frame] = frames[reqs[r].frame]
    BY <1>1, <2>3 DEF OwnInv, AckedBeforeSuccess
  <2>4. CASE frames'[reqs[r].frame] # frames[reqs[r].frame]
    BY <2>1, <2>2, <2>4 DEF Steady
  <2> QED
    BY <2>3, <2>4
<1>9. SuccessIsAcked'
  BY <1>1 DEF OwnInv, SuccessIsAcked
<1> QED
  BY <1>4, <1>5, <1>6, <1>7, <1>8, <1>9 DEF OwnInv

\* A frame that changes its state only.
LEMMA StateSet ==
  ASSUME TypeOK, NEW i \in Slots, NEW st, SetState(i, st)
  PROVE  /\ \A j \in Slots \ {i} : frames'[j] = frames[j]
         /\ frames'[i].st = st /\ frames'[i].conf = frames[i].conf
         /\ frames'[i].hdr = frames[i].hdr /\ frames'[i].status = frames[i].status
<1>1. frames \in [Slots -> FrameType] /\ frames[i] \in FrameType
  BY DEF TypeOK
<1>2. frames'[i] = [frames[i] EXCEPT !.st = st] /\ \A j \in Slots \ {i} : frames'[j] = frames[j]
  BY <1>1 DEF SetState
<1> QED
  BY <1>1, <1>2 DEF FrameType

\* A frame that goes on, and stays with its request if it has one.
LEMMA OnwardSteady ==
  ASSUME TypeOK, NEW i \in Slots, NEW st, SetState(i, st),
         frames[i].conf = "null" \/ st \in OutStates \ {"CONFIRM"}
  PROVE  \A j \in Slots : Steady(j)
  BY StateSet, ConfIs DEF Steady

-----------------------------------------------------------------------------
(* The count of frames the security module has *)

SameCount ==
  /\ secCount' = secCount
  /\ \A i \in Slots : frames'[i].st \in SecStates <=> frames[i].st \in SecStates

Enters(i) ==
  /\ secCount' = secCount + 1
  /\ frames[i].st \notin SecStates /\ frames'[i].st \in SecStates
  /\ \A j \in Slots \ {i} : frames'[j].st \in SecStates <=> frames[j].st \in SecStates

Leaves(i) ==
  /\ secCount' = secCount - 1
  /\ frames[i].st \in SecStates /\ frames'[i].st \notin SecStates
  /\ \A j \in Slots \ {i} : frames'[j].st \in SecStates <=> frames[j].st \in SecStates

Counted == SameCount \/ \E i \in Slots : Enters(i) \/ Leaves(i)

CountInv == secCount = Cardinality(InState(SecStates))

LEMMA CountedKeeps ==
  ASSUME CountInv, Counted
  PROVE  CountInv'
<1> DEFINE S == InState(SecStates)
<1>1. IsFiniteSet(S) /\ Cardinality(S) \in Nat
  <2>1. S \subseteq Slots
    BY DEF InState
  <2> QED
    BY <2>1, SlotsFinite, FS_Subset, FS_CardinalityType
<1>2. CASE SameCount
  <2>1. S' = S
    BY <1>2 DEF SameCount, InState
  <2> QED
    BY <1>2, <2>1 DEF SameCount, CountInv
<1>3. ASSUME NEW i \in Slots, Enters(i)
      PROVE  CountInv'
  <2>1. S' = S \cup {i} /\ i \notin S
    BY <1>3 DEF Enters, InState
  <2> HIDE DEF S
  <2>2. Cardinality(S') = Cardinality(S) + 1
    BY <1>1, <2>1, FS_AddElement
  <2> QED
    BY <1>3, <2>2 DEF Enters, CountInv, S
<1>4. ASSUME NEW i \in Slots, Leaves(i)
      PROVE  CountInv'
  <2>1. S' = S \ {i} /\ i \in S
    BY <1>4 DEF Leaves, InState
  <2> HIDE DEF S
  <2>2. Cardinality(S') = Cardinality(S) - 1
    BY <1>1, <2>1, FS_RemoveElement
  <2> QED
    BY <1>4, <2>2 DEF Leaves, CountInv, S
<1> QED
  BY <1>2, <1>3, <1>4 DEF Counted

-----------------------------------------------------------------------------
(* The steps of the loop that leave the requests alone *)

Silent == SteadyStep /\ EncryptsCarriers' /\ acked' = acked /\ Counted

\* Nothing happens to the frames.
LEMMA FramesStay ==
  ASSUME OwnInv, UNCHANGED <<frames, queue, reqs, acked, secCount, secEncrypt>>
  PROVE  Silent
<1>1. SteadyStep
  BY DEF SteadyStep, Steady
<1>2. NoneStarts /\ Counted
  BY DEF NoneStarts, Counted, SameCount
<1> QED
  BY <1>1, <1>2, NoneStartsEncrypts DEF Silent

\* A frame goes on outside of the security module.
LEMMA GoesOn ==
  ASSUME TypeOK, OwnInv, NEW i \in Slots, NEW st, SetState(i, st),
         UNCHANGED <<queue, reqs, acked, secCount, secEncrypt>>,
         frames[i].st \notin SecStates, st \notin SecStates,
         frames[i].conf = "null" \/ st \in OutStates \ {"CONFIRM"}
  PROVE  Silent
<1>1. SteadyStep
  BY OnwardSteady DEF SteadyStep
<1>2. /\ \A j \in Slots \ {i} : frames'[j] = frames[j]
      /\ frames'[i].st = st
  BY StateSet
<1>3. NoneStarts /\ Counted
  BY <1>2 DEF NoneStarts, Counted, SameCount, SecStates
<1> QED
  BY <1>1, <1>3, NoneStartsEncrypts DEF Silent

LEMMA TxEncryptSilent ==
  ASSUME IInv, OwnInv, NEW i \in Slots, TxEncrypt(i)
  PROVE  Silent
<1>1. /\ SetState(i, "ENCRYPT_PENDING") /\ frames[i].st = "ENCRYPT"
      /\ UNCHANGED <<queue, reqs, acked, secEncrypt>> /\ secCount' = secCount + 1
  BY DEF TxEncrypt, TxVisit
<1>2. SteadyStep
  BY <1>1, OnwardSteady DEF SteadyStep, IInv, OutStates
<1>3. /\ \A j \in Slots \ {i} : frames'[j] = frames[j]
      /\ frames'[i].st = "ENCRYPT_PENDING"
  BY <1>1, StateSet DEF IInv
<1>4. NoneStarts
  BY <1>1, <1>3 DEF NoneStarts
<1>5. Enters(i)
  BY <1>1, <1>3 DEF Enters, SecStates
<1> QED
  BY <1>1, <1>2, <1>4, <1>5, NoneStartsEncrypts DEF Silent, Counted

LEMMA TxDelaySilent ==
  ASSUME IInv, OwnInv, NEW i \in Slots, TxDelay(i)
  PROVE  Silent
<1>1. /\ SetState(i, "WAIT_DELAY") \/ SetState(i, "SEND")
      /\ frames[i].st = "DELAY"
      /\ UNCHANGED <<queue, reqs, acked, secCount, secEncrypt>>
  BY DEF TxDelay, TxVisit, secVars
<1> QED
  BY <1>1, GoesOn DEF IInv, OutStates, TxStates, SecStates

LEMMA TxSendSilent ==
  ASSUME IInv, OwnInv, NEW i \in Slots, TxSend(i)
  PROVE  Silent
<1>1. /\ SetState(i, "WAIT_CONF") \/ UNCHANGED frames
      /\ frames[i].st = "SEND"
      /\ UNCHANGED <<queue, reqs, acked, secCount, secEncrypt>>
  BY DEF TxSend, TxVisit, secVars, poolVars
<1> QED
  BY <1>1, GoesOn, FramesStay DEF IInv, OutStates, TxStates, SecStates

\* A frame of ours that asked for an acknowledgement and was sent waits for it.
LEMMA TxSentSilent ==
  ASSUME IInv, OwnInv, NEW i \in Slots, TxSent(i)
  PROVE  Silent
<1>1. /\ frames[i].st = "SENT" /\ frames[i] \in FrameType
      /\ frames \in [Slots -> FrameType]
      /\ UNCHANGED <<queue, reqs, acked, secCount, secEncrypt>>
  BY DEF TxSent, TxVisit, secVars, IInv, TypeOK
<1>2. /\ \A j \in Slots \ {i} : frames'[j] = frames[j]
      /\ frames'[i].conf = frames[i].conf /\ frames'[i].hdr = frames[i].hdr
      /\ frames'[i].status = frames[i].status
      /\ \/ frames'[i].st = "WAIT_ACK"
         \/ /\ frames'[i].st = "CONFIRM"
            /\ ~ (/\ frames[i].status = "SUCCESS"
                  /\ frames[i].hdr.src = Me /\ frames[i].hdr.ackRequest)
  <2>1. CASE frames' = [frames EXCEPT ![i].st = "WAIT_ACK", ![i].timeout = AckTicks]
    BY <1>1, <2>1 DEF FrameType
  <2>2. CASE /\ frames' = [frames EXCEPT ![i].st = "CONFIRM"]
             /\ ~ (/\ frames[i].status = "SUCCESS"
                   /\ frames[i].hdr.src = Me /\ frames[i].hdr.ackRequest)
    BY <1>1, <2>2 DEF FrameType
  <2> QED
    BY <2>1, <2>2 DEF TxSent, SetState
<1>3. \A j \in Slots : Steady(j)
  BY <1>2, ConfIs DEF Steady, IInv, OutStates, TxStates
<1>4. SteadyStep
  BY <1>1, <1>3 DEF SteadyStep
<1>5. NoneStarts /\ Counted
  BY <1>1, <1>2 DEF NoneStarts, Counted, SameCount, SecStates
<1> QED
  BY <1>1, <1>4, <1>5, NoneStartsEncrypts DEF Silent

\* A timer gives up on a frame without a success, or only counts it down.
LEMMA TimerSilent ==
  ASSUME IInv, OwnInv, AckWaitTimerFires \/ DelayTimerFires
  PROVE  Silent
<1>1. UNCHANGED <<queue, reqs, acked, secCount, secEncrypt>>
  BY DEF AckWaitTimerFires, DelayTimerFires, secVars, reqVars
<1>2. ASSUME NEW i \in Slots, frames'[i] # frames[i]
      PROVE  /\ frames[i].st \in {"WAIT_ACK", "WAIT_DELAY"}
             /\ frames'[i].conf = frames[i].conf /\ frames'[i].hdr = frames[i].hdr
             /\ \/ frames'[i].st = "CONFIRM" /\ frames'[i].status = "NO_ACK"
                \/ frames'[i].st \in {"WAIT_ACK", "WAIT_DELAY", "SEND"}
  <2>1. frames[i] \in FrameType
    BY DEF IInv, TypeOK
  <2>2. /\ frames[i].st \in {"WAIT_ACK", "WAIT_DELAY"}
        /\ \/ frames'[i] = [frames[i] EXCEPT !.timeout = 0, !.st = "CONFIRM",
                                             !.status = "NO_ACK"]
           \/ frames'[i] = [frames[i] EXCEPT !.timeout = 0, !.st = "SEND"]
           \/ frames'[i] = [frames[i] EXCEPT !.timeout = @ - 1]
    <3>1. CASE AckWaitTimerFires
      BY <1>2, <3>1, Zenon DEF AckWaitTimerFires
    <3>2. CASE DelayTimerFires
      BY <1>2, <3>2, Zenon DEF DelayTimerFires
    <3> QED
      BY <3>1, <3>2
  <2> QED
    BY <2>1, <2>2 DEF FrameType
<1>3. \A i \in Slots : Steady(i)
  BY <1>2, ConfIs DEF Steady, IInv, OutStates, TxStates
<1>4. SteadyStep
  BY <1>1, <1>3 DEF SteadyStep
<1>5. NoneStarts /\ Counted
  <2>1. \A i \in Slots : frames'[i] = frames[i] \/ frames'[i].st \notin SecStates
    BY <1>2 DEF SecStates
  <2>2. \A i \in Slots : frames'[i] = frames[i] \/ frames[i].st \notin SecStates
    BY <1>2 DEF SecStates
  <2> QED
    BY <1>1, <2>1, <2>2 DEF NoneStarts, Counted, SameCount, SecStates
<1> QED
  BY <1>1, <1>4, <1>5, NoneStartsEncrypts DEF Silent

\* The ends of the passes, the transceiver, and doing nothing.
LEMMA DoneSilent ==
  ASSUME OwnInv,
         RxDone \/ TxDone \/ TimerDone \/ RadioReceive \/ RadioTxEnd \/ UNCHANGED vars
  PROVE  Silent
<1>1. UNCHANGED <<frames, queue, reqs, acked, secCount, secEncrypt>>
  BY DEF RxDone, TxDone, TimerDone, RadioReceive, RadioTxEnd, vars, poolVars, reqVars,
     secVars
<1> QED
  BY <1>1, FramesStay

\* Frames nobody waits for come, go on and are freed.
LEMMA NobodysFrames ==
  ASSUME TypeOK, OwnInv,
         UNCHANGED <<queue, reqs, acked, secCount, secEncrypt>>,
         \A k \in Slots : \/ frames'[k] = frames[k]
                          \/ /\ frames[k].st \in VisitedByRx \cup {"FREE"}
                             /\ frames'[k].st \notin SecStates
                             /\ frames'[k].conf = "null"
  PROVE  Silent
<1>1. \A k \in Slots : frames[k].st \in VisitedByRx \cup {"FREE"} => frames[k].conf = "null"
  <2>1. \A k \in Slots :
          frames[k].st \in VisitedByRx \cup {"FREE"} => frames[k].st \notin OutStates
    BY DEF VisitedByRx, OutStates, TxStates
  <2> QED
    BY <2>1, ConfIs DEF OwnInv, CarriersGoOut
<1>2. SteadyStep
  BY <1>1 DEF SteadyStep, Steady
<1>3. NoneStarts /\ Counted
  BY DEF NoneStarts, Counted, SameCount, SecStates, VisitedByRx
<1> QED
  BY <1>2, <1>3, NoneStartsEncrypts DEF Silent

LEMMA PhyTaskSilent ==
  ASSUME IInv, OwnInv, PhyTask
  PROVE  Silent
<1>1. UNCHANGED <<queue, reqs, acked, secCount, secEncrypt>>
  BY DEF PhyTask, reqVars, secVars
<1>2. CASE frames' = frames
  BY <1>1, <1>2, FramesStay
<1>3. ASSUME NEW i \in Slots, FirstFree(i),
             frames' = [frames EXCEPT ![i] =
                          [FreeFrame EXCEPT !.st = "RECEIVED", !.hdr = radio.rx.hdr]]
      PROVE  Silent
  <2> DEFINE f == [FreeFrame EXCEPT !.st = "RECEIVED", !.hdr = radio.rx.hdr]
  <2>1. f.st = "RECEIVED" /\ f.conf = "null"
    BY DEF FreeFrame
  <2> HIDE DEF f
  <2>2. \A k \in Slots : frames'[k] = IF k = i THEN f ELSE frames[k]
    BY <1>3 DEF IInv, TypeOK, f
  <2>3. frames[i].st = "FREE"
    BY <1>3 DEF FirstFree, FreeSlots
  <2>4. \A k \in Slots : \/ frames'[k] = frames[k]
                         \/ /\ frames[k].st \in VisitedByRx \cup {"FREE"}
                            /\ frames'[k].st \notin SecStates
                            /\ frames'[k].conf = "null"
    BY <2>1, <2>2, <2>3 DEF SecStates
  <2> QED
    BY <1>1, <2>4, NobodysFrames DEF IInv
<1>4. CASE radio.tx = "done" /\ PHY_DataConf
  <2>1. active \in Slots /\ frames[active].st = "WAIT_CONF" /\ frames[active] \in FrameType
        /\ frames \in [Slots -> FrameType]
    BY <1>4 DEF IInv, TypeOK, OneTransmission
  <2>2. frames' = [frames EXCEPT ![active].status = PhyStatus(radio.trac),
                                 ![active].st = "SENT"]
    BY <1>4 DEF PHY_DataConf
  <2>3. /\ \A j \in Slots \ {active} : frames'[j] = frames[j]
        /\ frames'[active].st = "SENT" /\ frames'[active].conf = frames[active].conf
        /\ frames'[active].hdr = frames[active].hdr
    BY <2>1, <2>2 DEF FrameType
  <2>4. \A j \in Slots : Steady(j)
    BY <2>1, <2>3, ConfIs DEF Steady, IInv, OutStates, TxStates
  <2>5. SteadyStep
    BY <1>1, <2>4 DEF SteadyStep
  <2>6. NoneStarts /\ Counted
    BY <1>1, <2>1, <2>3 DEF NoneStarts, Counted, SameCount, SecStates
  <2> QED
    BY <1>1, <2>5, <2>6, NoneStartsEncrypts DEF Silent
<1> QED
  BY <1>2, <1>3, <1>4 DEF PhyTask, PHY_DataInd, poolVars

\* What a visit of the Rx module leaves in a frame.
LEMMA VisitedIsNobodys ==
  ASSUME TypeOK, OwnInv, NEW i \in Slots, frames[i].st \in VisitedByRx \cup {"FREE"}
  PROVE  frames[i].conf = "null" /\ frames[i].st \notin SecStates
<1>1. frames[i].st \notin OutStates /\ frames[i].st \notin SecStates
  BY DEF VisitedByRx, OutStates, TxStates, SecStates
<1> QED
  BY <1>1, ConfIs DEF OwnInv, CarriersGoOut

LEMMA LeaveSilent ==
  ASSUME TypeOK, OwnInv, NEW i \in Slots, frames[i].st \in VisitedByRx,
         UNCHANGED <<queue, reqs, acked, secCount, secEncrypt>>,
         NEW st \in {"DECRYPT", "INDICATE", "ROUTE", "FINISH"},
         \/ Leave(i, st)
         \/ \E new : /\ new.st \notin SecStates /\ new.conf = "null"
                     /\ LeaveAndSend(i, st, new)
  PROVE  Silent
<1>1. st \notin SecStates
  BY DEF SecStates
<1>2. frames \in [Slots -> FrameType] /\ frames[i] \in FrameType /\ frames[i].conf = "null"
  BY VisitedIsNobodys DEF TypeOK
<1>3. CASE SetState(i, st)
  <2>1. /\ \A j \in Slots \ {i} : frames'[j] = frames[j]
        /\ frames'[i].st = st /\ frames'[i].conf = "null"
    BY <1>2, <1>3, StateSet
  <2> QED
    BY <1>1, <2>1, NobodysFrames
<1>4. ASSUME NEW new, new.st \notin SecStates, new.conf = "null", NEW j \in Slots,
             FirstFree(j), frames' = [frames EXCEPT ![i].st = st, ![j] = new]
      PROVE  Silent
  <2>1. frames[j].st = "FREE" /\ i # j
    BY <1>4 DEF FirstFree, FreeSlots, VisitedByRx
  <2>2. /\ \A k \in Slots \ {i, j} : frames'[k] = frames[k]
        /\ frames'[i] = [frames[i] EXCEPT !.st = st] /\ frames'[j] = new
    BY <1>2, <1>4, <2>1
  <2>3. frames'[i].st = st /\ frames'[i].conf = "null"
    BY <1>2, <2>2 DEF FrameType
  <2> QED
    BY <1>1, <1>4, <2>1, <2>2, <2>3, NobodysFrames
<1> QED
  BY <1>3, <1>4 DEF Leave, LeaveAndSend

\* A frame made by nwkTxFrame or a rebroadcast for nobody.
LEMMA SentForNobody ==
  ASSUME NEW h, NEW routed, NEW jitter
  PROVE  /\ TxFrame(h, routed, "null", jitter).conf = "null"
         /\ TxFrame(h, routed, "null", jitter).st \notin SecStates
         /\ Rebroadcast(h, jitter).conf = "null"
         /\ Rebroadcast(h, jitter).st \notin SecStates
  BY DEF TxFrame, Rebroadcast, SecStates

LEMMA RxReceivedSilent ==
  ASSUME IInv, OwnInv, NEW i \in Slots,
         RxIgnore(i) \/ RxOtherPan(i) \/ RxDuplicate(i) \/ RxAccept(i)
  PROVE  Silent
<1> DEFINE h == frames[i].hdr
<1>1. /\ frames[i].st \in VisitedByRx
      /\ UNCHANGED <<queue, reqs, acked, secCount, secEncrypt>>
  BY DEF RxIgnore, RxOtherPan, RxDuplicate, RxAccept, RxVisit, VisitedByRx, secVars
<1>2. Accepted(h) \in {"DECRYPT", "INDICATE", "ROUTE", "FINISH"}
  BY DEF Accepted
<1>3. \/ Leave(i, "FINISH") \/ Leave(i, Accepted(h))
      \/ \E jitter \in Jitters : LeaveAndSend(i, Accepted(h), Rebroadcast(h, jitter))
  BY DEF RxIgnore, RxOtherPan, RxDuplicate, RxAccept
<1> HIDE DEF h
<1> QED
  BY <1>1, <1>2, <1>3, LeaveSilent, SentForNobody DEF IInv

LEMMA RxIndicateSilent ==
  ASSUME IInv, OwnInv, NEW i \in Slots, RxIndicateData(i) \/ RxIndicateRouteError(i)
  PROVE  Silent
<1> DEFINE ack == AckFor(frames[i].hdr)
<1>1. /\ frames[i].st \in VisitedByRx
      /\ UNCHANGED <<queue, reqs, acked, secCount, secEncrypt>>
  BY DEF RxIndicateData, RxIndicateRouteError, RxVisit, VisitedByRx, secVars
<1>2. \/ Leave(i, "FINISH")
      \/ \E jitter \in Jitters :
           LeaveAndSend(i, "FINISH", TxFrame(ack, FALSE, "null", jitter))
  BY DEF RxIndicateData, RxIndicateRouteError, Finish
<1> HIDE DEF ack
<1> QED
  BY <1>1, <1>2, LeaveSilent, SentForNobody DEF IInv

LEMMA RxDecryptSilent ==
  ASSUME IInv, OwnInv, NEW i \in Slots, RxDecrypt(i)
  PROVE  Silent
<1>1. /\ SetState(i, "DECRYPT_PENDING") /\ frames[i].st = "DECRYPT"
      /\ UNCHANGED <<queue, reqs, acked, secEncrypt>> /\ secCount' = secCount + 1
  BY DEF RxDecrypt, RxVisit, Leave
<1>2. frames[i].conf = "null"
  BY <1>1, VisitedIsNobodys DEF IInv, VisitedByRx
<1>3. SteadyStep
  BY <1>1, <1>2, OnwardSteady DEF SteadyStep, IInv
<1>4. /\ \A j \in Slots \ {i} : frames'[j] = frames[j]
      /\ frames'[i].st = "DECRYPT_PENDING"
  BY <1>1, StateSet DEF IInv
<1>5. NoneStarts /\ Enters(i)
  BY <1>1, <1>4 DEF NoneStarts, Enters, SecStates
<1> QED
  BY <1>1, <1>3, <1>5, NoneStartsEncrypts DEF Silent, Counted

LEMMA RxRouteSilent ==
  ASSUME IInv, OwnInv, NEW i \in Slots, RxRoute(i) \/ RxRouteError(i) \/ RxFinish(i)
  PROVE  Silent
<1> DEFINE error == CommandHeader("routeError", frames[i].hdr.src, frames[i].hdr.dst, FALSE)
<1>1. /\ frames[i].st \in VisitedByRx /\ frames \in [Slots -> FrameType]
      /\ UNCHANGED <<queue, reqs, acked, secCount, secEncrypt>>
  BY DEF RxRoute, RxRouteError, RxFinish, RxVisit, VisitedByRx, secVars, IInv, TypeOK
<1>2. FreeFrame.conf = "null" /\ FreeFrame.st \notin SecStates
  BY DEF FreeFrame, SecStates
<1>3. \/ frames' = [frames EXCEPT ![i] = FreeFrame]
      \/ \E jitter \in Jitters :
           frames' = [frames EXCEPT ![i] = TxFrame(frames[i].hdr, TRUE, "null", jitter)]
      \/ \E j \in Slots, jitter \in Jitters :
           /\ FirstFree(j)
           /\ frames' = [frames EXCEPT ![i] = FreeFrame,
                                       ![j] = TxFrame(error, FALSE, "null", jitter)]
  BY DEF RxRoute, RxRouteError, RxFinish
<1> HIDE DEF error
<1>4. ASSUME NEW f, f.conf = "null", f.st \notin SecStates,
             frames' = [frames EXCEPT ![i] = f]
      PROVE  Silent
  <2>1. \A k \in Slots : frames'[k] = IF k = i THEN f ELSE frames[k]
    BY <1>1, <1>4
  <2> QED
    BY <1>1, <1>4, <2>1, NobodysFrames DEF IInv
<1>5. ASSUME NEW j \in Slots, FirstFree(j), NEW g, g.conf = "null", g.st \notin SecStates,
             frames' = [frames EXCEPT ![i] = FreeFrame, ![j] = g]
      PROVE  Silent
  <2>1. frames[j].st = "FREE"
    BY <1>5 DEF FirstFree, FreeSlots
  <2>2. \A k \in Slots :
          frames'[k] = IF k = j THEN g ELSE IF k = i THEN FreeFrame ELSE frames[k]
    BY <1>1, <1>5
  <2> HIDE DEF FreeFrame
  <2> QED
    BY <1>1, <1>2, <1>5, <2>1, <2>2, NobodysFrames DEF IInv
<1>6. CASE \E jitter \in Jitters :
             frames' = [frames EXCEPT ![i] = TxFrame(frames[i].hdr, TRUE, "null", jitter)]
  <2>1. PICK jitter \in Jitters :
          frames' = [frames EXCEPT ![i] = TxFrame(frames[i].hdr, TRUE, "null", jitter)]
    BY <1>6
  <2> DEFINE f == TxFrame(frames[i].hdr, TRUE, "null", jitter)
  <2>2. f.conf = "null" /\ f.st \notin SecStates /\ frames' = [frames EXCEPT ![i] = f]
    BY <2>1, SentForNobody
  <2> HIDE DEF f
  <2> QED
    BY <1>4, <2>2
<1>7. CASE \E j \in Slots, jitter \in Jitters :
             /\ FirstFree(j)
             /\ frames' = [frames EXCEPT ![i] = FreeFrame,
                                         ![j] = TxFrame(error, FALSE, "null", jitter)]
  <2>1. PICK j \in Slots, jitter \in Jitters :
             /\ FirstFree(j)
             /\ frames' = [frames EXCEPT ![i] = FreeFrame,
                                         ![j] = TxFrame(error, FALSE, "null", jitter)]
    BY <1>7
  <2> DEFINE g == TxFrame(error, FALSE, "null", jitter)
  <2>2. /\ g.conf = "null" /\ g.st \notin SecStates /\ FirstFree(j)
        /\ frames' = [frames EXCEPT ![i] = FreeFrame, ![j] = g]
    BY <2>1, SentForNobody
  <2> HIDE DEF g
  <2> QED
    BY <1>5, <2>2
<1> QED
  BY <1>2, <1>3, <1>4, <1>6, <1>7

\* The security module gives an encrypted frame back to be sent, and only
\* what nobody waits for to the receiving half.
LEMMA SecurityTaskSilent ==
  ASSUME IInv, OwnInv, SecurityTask
  PROVE  Silent
<1>1. UNCHANGED <<queue, reqs, acked>>
  BY DEF SecurityTask, reqVars
<1>2. CASE SecurityIdle
  BY <1>1, <1>2, FramesStay DEF SecurityIdle, secVars
<1>3. CASE SecurityConfirm
  <2>1. secActive \in Slots /\ frames[secActive].st = "SEC_CONFIRM" /\ secCount' = secCount - 1
        /\ secEncrypt' = secEncrypt
    BY <1>3 DEF SecurityConfirm, IInv, TypeOK
  <2>2. PICK st \in {"DELAY", "INDICATE", "FINISH"} :
          SetState(secActive, st) /\ (secEncrypt => st = "DELAY")
    BY <1>3 DEF SecurityConfirm, nwkTxEncryptConf, nwkRxDecryptConf
  <2>3. frames[secActive].conf = "null" \/ st \in OutStates \ {"CONFIRM"}
    BY <2>1, <2>2, ConfIs DEF IInv, OwnInv, CarriersGoOut, OutStates, TxStates
  <2>4. SteadyStep
    BY <1>1, <2>1, <2>2, <2>3, OnwardSteady DEF SteadyStep, IInv
  <2>5. /\ \A j \in Slots \ {secActive} : frames'[j] = frames[j]
        /\ frames'[secActive].st = st
    BY <2>1, <2>2, StateSet DEF IInv
  <2>6. NoneStarts /\ Leaves(secActive)
    BY <2>1, <2>5 DEF NoneStarts, Leaves, SecStates
  <2> QED
    BY <1>1, <2>1, <2>4, <2>6, NoneStartsEncrypts DEF Silent, Counted
<1>4. ASSUME NEW i \in Slots, NEW st \in {"SEC_PROCESS", "SEC_CONFIRM"},
             SetState(i, st), secCount' = secCount, frames[i].st \in SecStates,
             frames[i].conf = "dataReq" => secEncrypt',
             \A j \in Slots \ {i} : frames[j].st \notin {"SEC_PROCESS", "SEC_CONFIRM"}
      PROVE  Silent
  <2>1. SteadyStep
    BY <1>1, <1>4, OnwardSteady DEF SteadyStep, IInv, OutStates
  <2>2. /\ \A j \in Slots \ {i} : frames'[j] = frames[j]
        /\ frames'[i].st = st /\ frames'[i].conf = frames[i].conf
    BY <1>4, StateSet DEF IInv
  <2>3. EncryptsCarriers'
    BY <1>4, <2>2 DEF EncryptsCarriers
  <2>4. Counted
    BY <1>4, <2>2 DEF Counted, SameCount, SecStates
  <2> QED
    BY <1>1, <2>1, <2>3, <2>4 DEF Silent
<1>5. CASE SecurityBlock
  <2>1. /\ secActive \in Slots /\ frames[secActive].st = "SEC_PROCESS"
        /\ secCount' = secCount /\ secEncrypt' = secEncrypt
    BY <1>5 DEF SecurityBlock, IInv, TypeOK
  <2>2. PICK st \in {"SEC_PROCESS", "SEC_CONFIRM"} : SetState(secActive, st)
    BY <1>5 DEF SecurityBlock
  <2>3. frames[secActive].conf = "dataReq" => secEncrypt'
    BY <2>1 DEF OwnInv, CarriersGoOut
  <2>4. \A j \in Slots \ {secActive} : frames[j].st \notin {"SEC_PROCESS", "SEC_CONFIRM"}
    BY <2>1 DEF IInv, SecurityHasWork
  <2>5. frames[secActive].st \in SecStates
    BY <2>1 DEF SecStates
  <2> QED
    BY <1>4, <2>1, <2>2, <2>3, <2>4, <2>5
<1>6. CASE SecurityStart
  <2>1. PICK i \in PendingFrames :
          /\ secEncrypt' = (frames[i].st = "ENCRYPT_PENDING")
          /\ SetState(i, "SEC_PROCESS")
    BY <1>6 DEF SecurityStart
  <2>2. /\ i \in Slots /\ frames[i].st \in {"ENCRYPT_PENDING", "DECRYPT_PENDING"}
        /\ secCount' = secCount /\ secActive = NoSlot
    BY <1>6 DEF SecurityStart, PendingFrames
  <2>3. frames[i].conf = "dataReq" => secEncrypt'
    BY <2>1, <2>2 DEF OwnInv, CarriersGoOut, OutStates, TxStates
  <2>4. \A j \in Slots : frames[j].st \notin {"SEC_PROCESS", "SEC_CONFIRM"}
    BY <2>2, SlotsNotNoSlot DEF IInv, SecurityHasWork
  <2>5. frames[i].st \in SecStates
    BY <2>2 DEF SecStates
  <2> QED
    BY <1>4, <2>1, <2>2, <2>3, <2>4, <2>5
<1> QED
  BY <1>2, <1>3, <1>5, <1>6 DEF SecurityTask

\* An acknowledgement finishes the frame it answers, and is remembered for
\* its request.
LEMMA RxIndicateAckSteady ==
  ASSUME IInv, OwnInv, NEW i \in Slots, RxIndicateAck(i)
  PROVE  SteadyStep /\ EncryptsCarriers' /\ Counted
<1> DEFINE h == frames[i].hdr
           seq == h.arg
           ack == AckFor(h)
           after == [j \in Slots |-> IF AckMatches(j, h.arg)
                                     THEN [frames[j] EXCEPT !.st = "CONFIRM"] ELSE frames[j]]
<1>1. /\ frames[i].st = "INDICATE" /\ frames[i].conf = "null"
      /\ UNCHANGED <<queue, reqs, secCount, secEncrypt>>
      /\ acked' = acked \cup AckedRequests(seq)
  <2>1. /\ frames[i].st = "INDICATE"
        /\ UNCHANGED <<queue, reqs, secCount, secEncrypt>>
        /\ acked' = acked \cup AckedRequests(seq)
    BY DEF RxIndicateAck, RxVisit, secVars
  <2> QED
    BY <2>1, VisitedIsNobodys DEF IInv, VisitedByRx
<1>2. \A j \in Slots : frames[j] \in FrameType
  BY DEF IInv, TypeOK
<1>3. \A j \in Slots :
        \/ after[j] = frames[j]
        \/ /\ frames[j].st = "WAIT_ACK" /\ frames[j].hdr.seq = seq
           /\ after[j] = [frames[j] EXCEPT !.st = "CONFIRM"]
  BY DEF AckMatches, AwaitsAck
<1>4. \/ frames' = [after EXCEPT ![i].st = "FINISH"]
      \/ \E j \in Slots, jitter \in Jitters :
           /\ FirstFree(j)
           /\ frames' = [after EXCEPT ![i].st = "FINISH",
                                      ![j] = TxFrame(ack, FALSE, "null", jitter)]
  <2>1. \/ frames' = [after EXCEPT ![i].st = "FINISH"] /\ UNCHANGED lock
        \/ \E j \in Slots, jitter \in Jitters :
             /\ FirstFree(j)
             /\ frames' = [after EXCEPT ![i].st = "FINISH",
                                        ![j] = TxFrame(ack, FALSE, "null", jitter)]
             /\ lock' = lock + 1
    BY DEF RxIndicateAck
  <2> QED
    BY <2>1
<1>5. after = [j \in Slots |-> after[j]]
  OBVIOUS
<1> HIDE DEF after, ack, seq, h
<1>6. after[i] = frames[i]
  BY <1>1, <1>3
<1>7. ASSUME NEW k \in Slots
      PROVE  \/ frames'[k] = frames[k]
             \/ /\ frames[k].st \in {"INDICATE", "FREE"}
                /\ frames'[k].st \notin SecStates /\ frames'[k].conf = "null"
             \/ /\ frames[k].st = "WAIT_ACK" /\ frames[k].hdr.seq = seq
                /\ frames'[k] = [frames[k] EXCEPT !.st = "CONFIRM"]
  <2>1. [frames[i] EXCEPT !.st = "FINISH"].st = "FINISH"
        /\ [frames[i] EXCEPT !.st = "FINISH"].conf = "null"
    BY <1>1, <1>2 DEF FrameType
  <2>2. CASE frames' = [after EXCEPT ![i].st = "FINISH"]
    <3>1. frames'[k] = IF k = i THEN [frames[i] EXCEPT !.st = "FINISH"] ELSE after[k]
      BY <1>5, <1>6, <2>2
    <3> QED
      BY <1>1, <1>3, <2>1, <3>1 DEF SecStates
  <2>3. ASSUME NEW j \in Slots, NEW jitter, FirstFree(j),
               frames' = [after EXCEPT ![i].st = "FINISH",
                                       ![j] = TxFrame(ack, FALSE, "null", jitter)]
        PROVE  \/ frames'[k] = frames[k]
               \/ /\ frames[k].st \in {"INDICATE", "FREE"}
                  /\ frames'[k].st \notin SecStates /\ frames'[k].conf = "null"
               \/ /\ frames[k].st = "WAIT_ACK" /\ frames[k].hdr.seq = seq
                  /\ frames'[k] = [frames[k] EXCEPT !.st = "CONFIRM"]
    <3> DEFINE g == TxFrame(ack, FALSE, "null", jitter)
    <3>1. frames[j].st = "FREE" /\ g.conf = "null" /\ g.st \notin SecStates
      BY <2>3, SentForNobody DEF FirstFree, FreeSlots
    <3>2. frames' = [after EXCEPT ![i].st = "FINISH", ![j] = g]
      BY <2>3
    <3> HIDE DEF g
    <3>3. frames'[k] = IF k = j THEN g
                       ELSE IF k = i THEN [frames[i] EXCEPT !.st = "FINISH"] ELSE after[k]
      BY <1>1, <1>5, <1>6, <3>1, <3>2
    <3> QED
      BY <1>1, <1>3, <2>1, <3>1, <3>3 DEF SecStates
  <2> QED
    BY <1>4, <2>2, <2>3
<1>8. \A k \in Slots : Steady(k)
  <2> TAKE k \in Slots
  <2>1. CASE frames[k].st \in {"INDICATE", "FREE"}
    BY <1>7, <2>1, VisitedIsNobodys DEF Steady, IInv, VisitedByRx
  <2>2. CASE /\ frames[k].st = "WAIT_ACK" /\ frames[k].hdr.seq = seq
             /\ frames'[k] = [frames[k] EXCEPT !.st = "CONFIRM"]
    <3>1. /\ frames'[k].st = "CONFIRM" /\ frames'[k].conf = frames[k].conf
          /\ frames'[k].hdr = frames[k].hdr
      BY <1>2, <2>2 DEF FrameType
    <3>2. \A r \in Reqs : Waits(r) /\ reqs[r].frame = k => r \in acked'
      BY <1>1, <2>2 DEF AckedRequests, Waits
    <3> QED
      BY <3>1, <3>2, ConfIs DEF Steady, IInv, OutStates, TxStates
  <2> QED
    BY <1>7, <2>1, <2>2 DEF Steady
<1>9. SteadyStep
  BY <1>1, <1>8 DEF SteadyStep
<1>10. NoneStarts /\ Counted
  <2>1. \A k \in Slots : \/ frames'[k] = frames[k]
                         \/ frames[k].st \notin SecStates /\ frames'[k].st \notin SecStates
    <3> TAKE k \in Slots
    <3>1. CASE frames[k].st \in {"INDICATE", "FREE"}
      BY <1>7, <3>1 DEF SecStates
    <3>2. CASE /\ frames[k].st = "WAIT_ACK"
               /\ frames'[k] = [frames[k] EXCEPT !.st = "CONFIRM"]
      BY <1>2, <3>2 DEF FrameType, SecStates
    <3> QED
      BY <1>7, <3>1, <3>2
  <2> QED
    BY <1>1, <2>1 DEF NoneStarts, Counted, SameCount, SecStates
<1> QED
  BY <1>9, <1>10, NoneStartsEncrypts

-----------------------------------------------------------------------------
(* The steps that move the requests *)

\* What a change of the requests does not touch keeps its part of the
\* invariant: here the frames stay as they are.
LEMMA CarriersStay ==
  ASSUME OwnInv, UNCHANGED <<frames, secEncrypt>>
  PROVE  CarriersGoOut'
  BY DEF OwnInv, CarriersGoOut

LEMMA SubmitOwned ==
  ASSUME TypeOK, OwnInv, NEW r \in Reqs, NEW opt \in ReqOptions, NWK_DataReq(r, opt)
  PROVE  OwnInv' /\ Counted
<1>1. /\ reqs[r].state = "IDLE" /\ acked' = acked \ {r}
      /\ UNCHANGED <<frames, secCount, secEncrypt>>
  BY DEF NWK_DataReq, secVars
<1>2. /\ \A s \in Reqs \ {r} : reqs'[s] = reqs[s]
      /\ reqs'[r].state = "INITIAL" /\ reqs'[r].frame = NoSlot
  BY DEF NWK_DataReq, TypeOK
<1>3. /\ queue \in Seq(Reqs) /\ Len(queue) \in Nat
      /\ DOMAIN queue = 1..Len(queue) /\ DOMAIN queue' = 1..(Len(queue) + 1)
      /\ queue'[1] = r
      /\ \A n \in 2..(Len(queue) + 1) : n - 1 \in 1..Len(queue) /\ queue'[n] = queue[n - 1]
  <2>1. queue \in Seq(Reqs) /\ queue' = <<r>> \o queue
    BY DEF NWK_DataReq, Cons, TypeOK
  <2> QED
    BY <2>1
<1>4. \A n \in DOMAIN queue : queue[n] # r /\ queue[n] \in Reqs
  BY <1>1, <1>3 DEF OwnInv, QueueIsOwned
<1>5. \A s \in Reqs : Waits(s)' <=> Waits(s)
  BY <1>1, <1>2 DEF Waits
<1>6. CarriersGoOut'
  BY <1>1, CarriersStay
<1>7. WaitersHaveFrame' /\ AckedBeforeSuccess'
  BY <1>1, <1>2, <1>5 DEF OwnInv, WaitersHaveFrame, AckedBeforeSuccess, Waits
<1>8. FramesAreApart' /\ CarriersHaveOwner'
  BY <1>1, <1>2, <1>5 DEF OwnInv, FramesAreApart, CarriersHaveOwner, Waits
<1>9. NewHaveNoFrame' /\ SuccessIsAcked'
  BY <1>1, <1>2 DEF OwnInv, NewHaveNoFrame, SuccessIsAcked
<1>10. StalePointersBehind'
  <2> SUFFICES ASSUME NEW m \in DOMAIN queue', NEW n \in DOMAIN queue', Waits(queue[n])',
                      reqs'[queue'[m]].frame = reqs'[queue'[n]].frame
               PROVE  n <= m
    BY DEF StalePointersBehind
  <2>1. n \in 2..(Len(queue) + 1) /\ queue'[n] = queue[n - 1] /\ n - 1 \in DOMAIN queue
    BY <1>2, <1>3 DEF Waits
  <2>2. Waits(queue[n - 1]) /\ queue[n - 1] \in Reqs /\ reqs'[queue[n - 1]] = reqs[queue[n - 1]]
    BY <1>2, <1>4, <1>5, <2>1
  <2>3. reqs[queue[n - 1]].frame # NoSlot
    BY <2>2, SlotsNotNoSlot DEF OwnInv, WaitersHaveFrame
  <2>4. m \in 2..(Len(queue) + 1) /\ queue'[m] = queue[m - 1] /\ m - 1 \in DOMAIN queue
    BY <1>2, <1>3, <2>1, <2>2, <2>3
  <2>5. reqs'[queue[m - 1]] = reqs[queue[m - 1]]
    BY <1>2, <1>4, <2>4
  <2>6. n - 1 <= m - 1
    BY <2>1, <2>2, <2>4, <2>5 DEF OwnInv, StalePointersBehind
  <2> QED
    BY <1>3, <2>1, <2>4, <2>6
<1>11. QueueIsOwned'
  <2>1. ASSUME NEW s \in Reqs
        PROVE  reqs'[s].state # "IDLE" <=> \E n \in DOMAIN queue' : queue'[n] = s
    <3>1. CASE s = r
      BY <1>2, <1>3, <3>1
    <3>2. CASE s # r
      <4>1. ASSUME NEW n \in DOMAIN queue, queue[n] = s
            PROVE  n + 1 \in DOMAIN queue' /\ queue'[n + 1] = s
        BY <1>3, <4>1
      <4>2. ASSUME NEW n \in DOMAIN queue', queue'[n] = s
            PROVE  n - 1 \in DOMAIN queue /\ queue[n - 1] = s
        BY <1>3, <3>2, <4>2
      <4> QED
        BY <1>2, <3>2, <4>1, <4>2 DEF OwnInv, QueueIsOwned
    <3> QED
      BY <3>1, <3>2
  <2>2. ASSUME NEW m \in DOMAIN queue', NEW n \in DOMAIN queue', queue'[m] = queue'[n]
        PROVE  m = n
    <3>1. CASE m = 1 \/ n = 1
      BY <1>3, <1>4, <2>2, <3>1
    <3>2. CASE m # 1 /\ n # 1
      <4>1. m - 1 \in DOMAIN queue /\ n - 1 \in DOMAIN queue /\ queue[m - 1] = queue[n - 1]
        BY <1>3, <2>2, <3>2
      <4>2. m - 1 = n - 1
        BY <4>1 DEF OwnInv, QueueIsOwned
      <4> QED
        BY <1>3, <4>2
    <3> QED
      BY <3>1, <3>2
  <2> QED
    BY <2>1, <2>2 DEF QueueIsOwned
<1> QED
  BY <1>1, <1>6, <1>7, <1>8, <1>9, <1>10, <1>11 DEF OwnInv, Counted, SameCount

\* The request served is the first that is new or finished: what is before it
\* in the queue waits, and points at a frame that is not free.
LEMMA SendFrameOwned ==
  ASSUME IInv, OwnInv, NEW k \in DOMAIN queue, Serves(k), SendFrame(queue[k]),
         UNCHANGED <<secCount, secEncrypt>>
  PROVE  OwnInv' /\ Counted
<1> DEFINE r == queue[k]
<1>1. PICK i \in Slots, jitter \in Jitters :
        /\ FirstFree(i)
        /\ frames' = [frames EXCEPT ![i] =
                        TxFrame(DataHeader(reqs[r].opt), FALSE, "dataReq", jitter)]
        /\ reqs' = [reqs EXCEPT ![r].frame = i, ![r].state = "WAIT_CONF"]
  BY DEF SendFrame
<1> DEFINE f == TxFrame(DataHeader(reqs[r].opt), FALSE, "dataReq", jitter)
<1>2. /\ r \in Reqs /\ reqs[r].state = "INITIAL" /\ reqs[r].frame = NoSlot
      /\ UNCHANGED <<queue, acked>>
      /\ frames[i].st = "FREE" /\ frames[i].conf = "null"
  <2>1. r \in Reqs /\ reqs[r].state = "INITIAL" /\ UNCHANGED <<queue, acked>>
    BY DEF SendFrame, IInv, TypeOK
  <2>2. frames[i].st = "FREE"
    BY <1>1 DEF FirstFree, FreeSlots
  <2> QED
    BY <2>1, <2>2, VisitedIsNobodys DEF IInv, OwnInv, NewHaveNoFrame
<1>3. /\ f.st \in {"ENCRYPT", "DELAY"} /\ f.conf = "dataReq" /\ f.hdr.src = Me
      /\ f.hdr.ackRequest = reqs[r].opt.ackRequest
  BY DEF TxFrame, DataHeader, AnyHeader
<1>4. /\ \A j \in Slots \ {i} : frames'[j] = frames[j]
      /\ frames'[i] = f
  BY <1>1 DEF IInv, TypeOK
<1>5. /\ \A s \in Reqs \ {r} : reqs'[s] = reqs[s]
      /\ reqs'[r].state = "WAIT_CONF" /\ reqs'[r].frame = i /\ reqs'[r].opt = reqs[r].opt
  <2>1. reqs \in [Reqs -> ReqType] /\ reqs[r] \in ReqType
    BY <1>2 DEF IInv, TypeOK
  <2>2. reqs'[r] = [reqs[r] EXCEPT !.frame = i, !.state = "WAIT_CONF"]
    BY <1>1, <1>2, <2>1
  <2> QED
    BY <1>1, <1>2, <2>1, <2>2 DEF ReqType
<1> HIDE DEF f
<1>6. ~Waits(r) /\ \A s \in Reqs : Waits(s)' <=> Waits(s) \/ s = r
  BY <1>2, <1>5 DEF Waits
<1>7. \A s \in Reqs : Waits(s) => reqs[s].frame \in Slots \ {i}
  BY <1>2 DEF OwnInv, WaitersHaveFrame
<1>8. CarriersGoOut'
  BY <1>3, <1>4 DEF OwnInv, CarriersGoOut, OutStates, TxStates
<1>9. WaitersHaveFrame'
  <2> SUFFICES ASSUME NEW s \in Reqs, Waits(s)'
               PROVE  /\ reqs'[s].frame \in Slots
                      /\ frames'[reqs'[s].frame].conf = "dataReq"
                      /\ frames'[reqs'[s].frame].hdr.src = Me
                      /\ frames'[reqs'[s].frame].hdr.ackRequest = reqs'[s].opt.ackRequest
    BY DEF WaitersHaveFrame
  <2>1. CASE s = r
    BY <1>3, <1>4, <1>5, <2>1
  <2>2. CASE s # r
    BY <1>4, <1>5, <1>6, <1>7, <2>2 DEF OwnInv, WaitersHaveFrame
  <2> QED
    BY <2>1, <2>2
<1>10. FramesAreApart'
  BY <1>5, <1>6, <1>7 DEF OwnInv, FramesAreApart
<1>11. CarriersHaveOwner'
  <2> SUFFICES ASSUME NEW j \in Slots, frames'[j].conf = "dataReq"
               PROVE  \E s \in Reqs : Waits(s)' /\ reqs'[s].frame = j
    BY DEF CarriersHaveOwner
  <2>1. CASE j = i
    BY <1>2, <1>5, <1>6, <2>1
  <2>2. CASE j # i
    <3>1. PICK s \in Reqs : Waits(s) /\ reqs[s].frame = j
      BY <1>4, <2>2 DEF OwnInv, CarriersHaveOwner
    <3> QED
      BY <1>5, <1>6, <3>1
  <2> QED
    BY <2>1, <2>2
<1>12. NewHaveNoFrame'
  BY <1>5 DEF OwnInv, NewHaveNoFrame
<1>13. StalePointersBehind'
  <2> SUFFICES ASSUME NEW m \in DOMAIN queue, NEW n \in DOMAIN queue, Waits(queue[n])',
                      reqs'[queue[m]].frame = reqs'[queue[n]].frame
               PROVE  n <= m
    BY <1>2 DEF StalePointersBehind
  <2>1. queue[m] \in Reqs /\ queue[n] \in Reqs /\ m \in Nat /\ n \in Nat /\ k \in Nat
    BY DEF IInv, TypeOK
  <2>2. CASE m = n
    BY <2>1, <2>2
  <2>3. CASE m # n /\ queue[n] = r
    <3>1. n = k /\ queue[m] # r
      BY <2>3 DEF OwnInv, QueueIsOwned
    <3>2. reqs[queue[m]].frame = i
      BY <1>5, <2>1, <2>3, <3>1
    <3>3. reqs[queue[m]].state = "CONFIRM"
      <4>1. reqs[queue[m]].state # "IDLE"
        BY <2>1 DEF OwnInv, QueueIsOwned
      <4>2. reqs[queue[m]].state # "INITIAL"
        BY <2>1, <3>2, SlotsNotNoSlot DEF OwnInv, NewHaveNoFrame
      <4>3. reqs[queue[m]].state # "WAIT_CONF"
        BY <1>7, <2>1, <3>2 DEF Waits
      <4> QED
        BY <2>1, <4>1, <4>2, <4>3 DEF IInv, TypeOK, ReqType
    <3>4. k <= m
      BY <3>3 DEF Serves
    <3> QED
      BY <3>1, <3>4
  <2>4. CASE m # n /\ queue[n] # r
    <3>1. Waits(queue[n]) /\ reqs'[queue[n]] = reqs[queue[n]]
      BY <1>2, <1>5, <2>1, <2>4 DEF Waits
    <3>2. queue[m] # r
      BY <1>5, <1>7, <2>1, <3>1
    <3>3. reqs'[queue[m]] = reqs[queue[m]]
      BY <1>5, <2>1, <3>2
    <3> QED
      BY <3>1, <3>3 DEF OwnInv, StalePointersBehind
  <2> QED
    BY <2>2, <2>3, <2>4
<1>14. QueueIsOwned'
  BY <1>2, <1>5 DEF OwnInv, QueueIsOwned
<1>15. AckedBeforeSuccess'
  <2> SUFFICES ASSUME NEW s \in Reqs, Waits(s)', reqs'[s].opt.ackRequest,
                      frames'[reqs'[s].frame].st = "CONFIRM",
                      frames'[reqs'[s].frame].status = "SUCCESS"
               PROVE  s \in acked
    BY <1>2 DEF AckedBeforeSuccess
  <2>1. s # r
    BY <1>3, <1>4, <1>5
  <2> QED
    BY <1>4, <1>5, <1>6, <1>7, <2>1 DEF OwnInv, AckedBeforeSuccess
<1>16. SuccessIsAcked'
  BY <1>2, <1>5 DEF OwnInv, SuccessIsAcked
<1>17. Counted
  BY <1>2, <1>3, <1>4 DEF Counted, SameCount, SecStates
<1> QED
  BY <1>8, <1>9, <1>10, <1>11, <1>12, <1>13, <1>14, <1>15, <1>16, <1>17 DEF OwnInv

LEMMA NoMemoryOwned ==
  ASSUME TypeOK, OwnInv, NEW r \in Reqs, SendFrameNoMemory(r),
         UNCHANGED <<secCount, secEncrypt>>
  PROVE  OwnInv' /\ Counted
<1>1. reqs[r].state = "INITIAL" /\ UNCHANGED <<frames, queue, acked>>
  BY DEF SendFrameNoMemory, poolVars
<1>2. /\ \A s \in Reqs \ {r} : reqs'[s] = reqs[s]
      /\ reqs'[r].state = "CONFIRM" /\ reqs'[r].status = "OUT_OF_MEMORY"
      /\ reqs'[r].frame = reqs[r].frame
  <2>1. reqs[r] \in ReqType
    BY DEF TypeOK
  <2>2. reqs'[r] = [reqs[r] EXCEPT !.state = "CONFIRM", !.status = "OUT_OF_MEMORY"]
        /\ \A s \in Reqs \ {r} : reqs'[s] = reqs[s]
    BY DEF SendFrameNoMemory, TypeOK
  <2> QED
    BY <2>1, <2>2 DEF ReqType
<1>3. \A s \in Reqs : Waits(s)' <=> Waits(s)
  BY <1>1, <1>2 DEF Waits
<1>4. \A s \in Reqs : reqs'[s].frame = reqs[s].frame /\ (Waits(s) => reqs'[s] = reqs[s])
  BY <1>1, <1>2 DEF Waits
<1>5. CarriersGoOut'
  BY <1>1, CarriersStay
<1>6. WaitersHaveFrame' /\ AckedBeforeSuccess'
  BY <1>1, <1>3, <1>4 DEF OwnInv, WaitersHaveFrame, AckedBeforeSuccess
<1>7. FramesAreApart' /\ CarriersHaveOwner'
  BY <1>1, <1>3, <1>4 DEF OwnInv, FramesAreApart, CarriersHaveOwner
<1>8. NewHaveNoFrame' /\ SuccessIsAcked'
  BY <1>1, <1>2 DEF OwnInv, NewHaveNoFrame, SuccessIsAcked
<1>9. \A n \in DOMAIN queue : queue[n] \in Reqs
  BY DEF TypeOK
<1>10. StalePointersBehind'
  BY <1>1, <1>3, <1>4, <1>9 DEF OwnInv, StalePointersBehind
<1>11. QueueIsOwned'
  BY <1>1, <1>2 DEF OwnInv, QueueIsOwned
<1> QED
  BY <1>1, <1>5, <1>6, <1>7, <1>8, <1>10, <1>11 DEF OwnInv, Counted, SameCount

\* Unlinking the k-th of a list moves those behind it up by one.
LEMMA Unlinked ==
  ASSUME NEW T, NEW s \in Seq(T), NEW k \in DOMAIN s
  PROVE  /\ DOMAIN RemoveAt(s, k) = 1..(Len(s) - 1)
         /\ \A n \in 1..(Len(s) - 1) :
              RemoveAt(s, k)[n] = IF n < k THEN s[n] ELSE s[n + 1]
<1> DEFINE A == SubSeq(s, 1, k - 1)
           B == SubSeq(s, k + 1, Len(s))
<1>1. k \in 1..Len(s) /\ Len(s) \in Nat
  OBVIOUS
<1>2. A \in Seq(T) /\ Len(A) = k - 1 /\ \A n \in 1..(k - 1) : A[n] = s[n]
  BY <1>1
<1>3. B \in Seq(T) /\ Len(B) = Len(s) - k /\ \A n \in 1..(Len(s) - k) : B[n] = s[k + n]
  BY <1>1
<1>4. RemoveAt(s, k) = A \o B
  BY DEF RemoveAt
<1> HIDE DEF A, B
<1>5. /\ DOMAIN (A \o B) = 1..(Len(A) + Len(B))
      /\ \A n \in 1..(Len(A) + Len(B)) :
           (A \o B)[n] = IF n <= Len(A) THEN A[n] ELSE B[n - Len(A)]
  <2>1. A \in Seq(T) /\ B \in Seq(T)
    BY <1>2, <1>3
  <2> QED
    BY <2>1
<1>6. Len(A) + Len(B) = Len(s) - 1
  BY <1>1, <1>2, <1>3
<1>7. \A n \in 1..(Len(s) - 1) :
        (A \o B)[n] = IF n < k THEN A[n] ELSE B[n - (k - 1)]
  BY <1>1, <1>2, <1>5, <1>6
<1>8. ASSUME NEW n \in 1..(Len(s) - 1)
      PROVE  (A \o B)[n] = IF n < k THEN s[n] ELSE s[n + 1]
  <2>1. CASE n < k
    BY <1>1, <1>2, <1>7, <2>1
  <2>2. CASE n >= k
    <3>1. n - (k - 1) \in 1..(Len(s) - k) /\ k + (n - (k - 1)) = n + 1 /\ ~(n < k)
      BY <1>1, <2>2
    <3>2. (A \o B)[n] = B[n - (k - 1)]
      BY <1>7, <3>1
    <3> QED
      BY <1>3, <3>1, <3>2
  <2>3. n < k \/ n >= k
    BY <1>1
  <2> QED
    BY <2>1, <2>2, <2>3
<1> QED
  BY <1>4, <1>5, <1>6, <1>8

LEMMA ConfirmOwned ==
  ASSUME TypeOK, OwnInv, NEW k \in DOMAIN queue, ConfirmRequest(k),
         UNCHANGED <<secCount, secEncrypt>>
  PROVE  OwnInv' /\ Counted
<1> DEFINE r == queue[k]
           L == Len(queue)
           Pos(n) == IF n < k THEN n ELSE n + 1
<1>1. /\ r \in Reqs /\ reqs[r].state = "CONFIRM" /\ UNCHANGED <<frames, acked>>
      /\ queue' = RemoveAt(queue, k)
  BY DEF ConfirmRequest, TypeOK
<1>2. /\ \A s \in Reqs \ {r} : reqs'[s] = reqs[s]
      /\ reqs'[r].state = "IDLE" /\ reqs'[r].frame = NoSlot
  <2>1. reqs[r] \in ReqType
    BY <1>1 DEF TypeOK
  <2>2. /\ reqs'[r] = [reqs[r] EXCEPT !.state = "IDLE", !.frame = NoSlot]
        /\ \A s \in Reqs \ {r} : reqs'[s] = reqs[s]
    BY <1>1 DEF ConfirmRequest, TypeOK
  <2> QED
    BY <2>1, <2>2 DEF ReqType
<1>3. /\ L \in Nat /\ k \in 1..L /\ DOMAIN queue = 1..L
      /\ DOMAIN queue' = 1..(L - 1)
      /\ \A n \in 1..(L - 1) : queue'[n] = queue[Pos(n)] /\ Pos(n) \in (1..L) \ {k}
  <2>1. queue \in Seq(Reqs)
    BY DEF TypeOK
  <2>2. L \in Nat /\ k \in 1..L /\ DOMAIN queue = 1..L
    BY <2>1
  <2>3. /\ DOMAIN queue' = 1..(L - 1)
        /\ \A n \in 1..(L - 1) : queue'[n] = IF n < k THEN queue[n] ELSE queue[n + 1]
    BY <1>1, <2>1, Unlinked
  <2> QED
    BY <2>2, <2>3
<1>4. \A n \in (1..L) \ {k} : queue[n] \in Reqs \ {r}
  BY <1>3 DEF OwnInv, QueueIsOwned, TypeOK
<1> HIDE DEF L
<1>5. \A s \in Reqs : Waits(s)' <=> Waits(s)
  BY <1>1, <1>2 DEF Waits
<1>6. ~Waits(r)
  BY <1>1 DEF Waits
<1>7. CarriersGoOut'
  BY <1>1, CarriersStay
<1>8. WaitersHaveFrame' /\ AckedBeforeSuccess'
  BY <1>1, <1>2, <1>5, <1>6 DEF OwnInv, WaitersHaveFrame, AckedBeforeSuccess
<1>9. FramesAreApart' /\ CarriersHaveOwner'
  BY <1>1, <1>2, <1>5, <1>6 DEF OwnInv, FramesAreApart, CarriersHaveOwner
<1>10. NewHaveNoFrame' /\ SuccessIsAcked'
  BY <1>1, <1>2 DEF OwnInv, NewHaveNoFrame, SuccessIsAcked
<1>11. StalePointersBehind'
  <2> SUFFICES ASSUME NEW m \in 1..(L - 1), NEW n \in 1..(L - 1), Waits(queue'[n]),
                      reqs'[queue'[m]].frame = reqs'[queue'[n]].frame
               PROVE  n <= m
    BY <1>1, <1>2, <1>3, <1>4 DEF StalePointersBehind, Waits
  <2>1. /\ queue'[n] = queue[Pos(n)] /\ Pos(n) \in DOMAIN queue
        /\ queue'[m] = queue[Pos(m)] /\ Pos(m) \in DOMAIN queue
    BY <1>3
  <2>2. reqs'[queue'[n]] = reqs[queue[Pos(n)]] /\ reqs'[queue'[m]] = reqs[queue[Pos(m)]]
    BY <1>2, <1>3, <1>4
  <2>3. Pos(n) <= Pos(m)
    BY <2>1, <2>2 DEF OwnInv, StalePointersBehind
  <2> QED
    BY <1>3, <2>3
<1>12. QueueIsOwned'
  <2>1. ASSUME NEW s \in Reqs
        PROVE  reqs'[s].state # "IDLE" <=> \E n \in DOMAIN queue' : queue'[n] = s
    <3>1. CASE s = r
      BY <1>2, <1>3, <1>4, <3>1
    <3>2. CASE s # r
      <4>1. ASSUME NEW n \in DOMAIN queue, queue[n] = s
            PROVE  \E o \in DOMAIN queue' : queue'[o] = s
        <5>1. n \in 1..L /\ n # k
          BY <1>3, <3>2, <4>1
        <5>2. CASE n < k
          <6>1. n \in 1..(L - 1) /\ Pos(n) = n
            BY <1>3, <5>1, <5>2
          <6> QED
            BY <1>3, <4>1, <6>1
        <5>3. CASE n > k
          <6>1. n - 1 \in 1..(L - 1) /\ Pos(n - 1) = n
            BY <1>3, <5>1, <5>3
          <6> QED
            BY <1>3, <4>1, <6>1
        <5> QED
          BY <1>3, <5>1, <5>2, <5>3
      <4>2. ASSUME NEW o \in DOMAIN queue', queue'[o] = s
            PROVE  \E n \in DOMAIN queue : queue[n] = s
        BY <1>3, <4>2
      <4> QED
        BY <1>2, <3>2, <4>1, <4>2 DEF OwnInv, QueueIsOwned
    <3> QED
      BY <3>1, <3>2
  <2>2. ASSUME NEW m \in DOMAIN queue', NEW n \in DOMAIN queue', queue'[m] = queue'[n]
        PROVE  m = n
    <3>1. /\ Pos(m) \in DOMAIN queue /\ Pos(n) \in DOMAIN queue
          /\ queue[Pos(m)] = queue[Pos(n)]
      BY <1>3, <2>2
    <3>2. Pos(m) = Pos(n)
      BY <3>1 DEF OwnInv, QueueIsOwned
    <3> QED
      BY <1>3, <3>2
  <2> QED
    BY <2>1, <2>2 DEF QueueIsOwned
<1> QED
  BY <1>1, <1>7, <1>8, <1>9, <1>10, <1>11, <1>12 DEF OwnInv, Counted, SameCount

\* A finished frame takes its request with it: the one that waits for it.
LEMMA TxConfirmOwned ==
  ASSUME IInv, OwnInv, NEW i \in Slots, TxConfirm(i), frames[i].conf = "dataReq"
  PROVE  /\ OwnInv' /\ Counted
         /\ \E r \in Reqs :
              /\ Waits(r) /\ reqs'[r].state = "CONFIRM"
              /\ reqs'[r].opt = reqs[r].opt
              /\ \A s \in Reqs \ {r} : reqs'[s] = reqs[s]
<1>1. PICK r \in Reqs : Waits(r) /\ reqs[r].frame = i
  BY DEF OwnInv, CarriersHaveOwner
<1>2. /\ frames[i].st = "CONFIRM" /\ frames' = [frames EXCEPT ![i] = FreeFrame]
      /\ UNCHANGED <<queue, acked, secCount, secEncrypt>>
      /\ TxConf(i)
  BY DEF TxConfirm, TxVisit, secVars
<1>3. /\ \A s \in Reqs \ {r} : reqs'[s] = reqs[s]
      /\ reqs'[r] = [reqs[r] EXCEPT !.status = frames[i].status, !.state = "CONFIRM"]
  <2>1. OwnerOf(i) = {r}
    BY <1>1, OwnerFound DEF IInv
  <2> QED
    BY <1>2, <2>1 DEF TxConf
<1>4. /\ reqs'[r].state = "CONFIRM" /\ reqs'[r].status = frames[i].status
      /\ reqs'[r].frame = i /\ reqs'[r].opt = reqs[r].opt
  <2>1. reqs[r] \in ReqType
    BY DEF IInv, TypeOK
  <2> QED
    BY <1>1, <1>3, <2>1 DEF ReqType
<1>5. /\ \A j \in Slots \ {i} : frames'[j] = frames[j]
      /\ frames'[i].conf = "null" /\ frames'[i].st = "FREE"
  BY <1>2 DEF IInv, TypeOK, FreeFrame
<1>6. ~Waits(r)' /\ \A s \in Reqs \ {r} : Waits(s)' <=> Waits(s)
  BY <1>3, <1>4 DEF Waits
<1>7. \A s \in Reqs \ {r} : Waits(s) => reqs[s].frame \in Slots \ {i}
  BY <1>1 DEF OwnInv, WaitersHaveFrame, FramesAreApart
<1>8. \A s \in Reqs : reqs'[s].frame = reqs[s].frame
  BY <1>1, <1>3, <1>4
<1>9. CarriersGoOut'
  BY <1>2, <1>5 DEF OwnInv, CarriersGoOut
<1>10. WaitersHaveFrame'
  BY <1>3, <1>5, <1>6, <1>7 DEF OwnInv, WaitersHaveFrame
<1>11. AckedBeforeSuccess'
  BY <1>2, <1>3, <1>5, <1>6, <1>7 DEF OwnInv, AckedBeforeSuccess
<1>12. FramesAreApart'
  BY <1>3, <1>6 DEF OwnInv, FramesAreApart
<1>13. CarriersHaveOwner'
  <2> SUFFICES ASSUME NEW j \in Slots, frames'[j].conf = "dataReq"
               PROVE  \E s \in Reqs : Waits(s)' /\ reqs'[s].frame = j
    BY DEF CarriersHaveOwner
  <2>1. j # i /\ frames[j].conf = "dataReq"
    BY <1>5
  <2>2. PICK s \in Reqs : Waits(s) /\ reqs[s].frame = j
    BY <2>1 DEF OwnInv, CarriersHaveOwner
  <2> QED
    BY <1>1, <1>3, <1>6, <2>1, <2>2
<1>14. NewHaveNoFrame'
  BY <1>3, <1>4 DEF OwnInv, NewHaveNoFrame
<1>15. StalePointersBehind'
  <2>1. \A n \in DOMAIN queue : queue[n] \in Reqs
    BY DEF IInv, TypeOK
  <2>2. \A n \in DOMAIN queue : Waits(queue[n])' => Waits(queue[n])
    BY <1>1, <1>2, <1>3, <2>1 DEF Waits
  <2> QED
    BY <1>2, <1>8, <2>1, <2>2 DEF OwnInv, StalePointersBehind
<1>16. QueueIsOwned'
  <2>1. \A s \in Reqs : reqs'[s].state # "IDLE" <=> reqs[s].state # "IDLE"
    BY <1>1, <1>3, <1>4 DEF Waits
  <2> QED
    BY <1>2, <2>1 DEF OwnInv, QueueIsOwned
<1>17. SuccessIsAcked'
  <2>1. reqs[r].opt.ackRequest /\ frames[i].status = "SUCCESS" => r \in acked
    BY <1>1, <1>2 DEF OwnInv, AckedBeforeSuccess
  <2>2. ASSUME NEW s \in Reqs, reqs'[s].state = "CONFIRM", reqs'[s].status = "SUCCESS",
               reqs'[s].opt.ackRequest
        PROVE  s \in acked
    <3>1. CASE s = r
      BY <1>4, <2>1, <2>2, <3>1
    <3>2. CASE s # r
      BY <1>3, <2>2, <3>2 DEF OwnInv, SuccessIsAcked
    <3> QED
      BY <3>1, <3>2
  <2> QED
    BY <1>2, <2>2 DEF SuccessIsAcked
<1>18. Counted
  BY <1>2, <1>5 DEF Counted, SameCount, SecStates
<1> QED
  BY <1>1, <1>3, <1>4, <1>9, <1>10, <1>11, <1>12, <1>13, <1>14, <1>15, <1>16, <1>17, <1>18
     DEF OwnInv

\* A finished frame nobody waits for is freed.
LEMMA TxConfirmSilent ==
  ASSUME IInv, OwnInv, NEW i \in Slots, TxConfirm(i), frames[i].conf # "dataReq"
  PROVE  Silent
<1>1. /\ frames[i].st = "CONFIRM" /\ frames' = [frames EXCEPT ![i] = FreeFrame]
      /\ UNCHANGED <<queue, acked, secCount, secEncrypt, reqs>>
  BY DEF TxConfirm, TxVisit, secVars
<1>2. /\ \A j \in Slots \ {i} : frames'[j] = frames[j]
      /\ frames'[i].conf = "null" /\ frames'[i].st = "FREE"
  BY <1>1 DEF IInv, TypeOK, FreeFrame
<1>3. SteadyStep
  BY <1>1, <1>2, ConfIs DEF SteadyStep, Steady, IInv
<1>4. NoneStarts /\ Counted
  BY <1>1, <1>2 DEF NoneStarts, Counted, SameCount, SecStates
<1> QED
  BY <1>1, <1>3, <1>4, NoneStartsEncrypts DEF Silent

-----------------------------------------------------------------------------
(* The invariant holds *)

\* A step is one of the few that move a request, or a silent one.
Serving(k) ==
  /\ Serves(k)
  /\ SendFrame(queue[k]) \/ SendFrameNoMemory(queue[k]) \/ ConfirmRequest(k)
  /\ UNCHANGED <<secCount, secEncrypt>>

LEMMA StepKinds ==
  ASSUME IInv, OwnInv, [Next]_vars
  PROVE  \/ Silent
         \/ \E i \in Slots : RxIndicateAck(i)
         \/ \E i \in Slots : TxConfirm(i) /\ frames[i].conf = "dataReq"
         \/ \E k \in DOMAIN queue : Serving(k)
         \/ \E r \in Reqs, opt \in ReqOptions : NWK_DataReq(r, opt)
<1>1. CASE RxTask
  <2>1. CASE RxDone
    BY <2>1, DoneSilent
  <2>2. ASSUME NEW i \in Slots,
               \/ RxIgnore(i) \/ RxOtherPan(i) \/ RxDuplicate(i) \/ RxAccept(i)
               \/ RxDecrypt(i)
               \/ RxIndicateData(i) \/ RxIndicateRouteError(i)
               \/ RxRoute(i) \/ RxRouteError(i)
               \/ RxFinish(i)
        PROVE  Silent
    BY <2>2, RxReceivedSilent, RxDecryptSilent, RxIndicateSilent, RxRouteSilent
  <2> QED
    BY <1>1, <2>1, <2>2 DEF RxTask
<1>2. CASE TxTask
  <2>1. CASE TxDone
    BY <2>1, DoneSilent
  <2>2. ASSUME NEW i \in Slots, TxEncrypt(i) \/ TxDelay(i) \/ TxSend(i) \/ TxSent(i)
        PROVE  Silent
    BY <2>2, TxEncryptSilent, TxDelaySilent, TxSendSilent, TxSentSilent
  <2>3. ASSUME NEW i \in Slots, TxConfirm(i), frames[i].conf # "dataReq"
        PROVE  Silent
    BY <2>3, TxConfirmSilent
  <2> QED
    BY <1>2, <2>1, <2>2, <2>3 DEF TxTask
<1>3. CASE DataReqTask
  <2>1. UNCHANGED <<secCount, secEncrypt>>
    BY <1>3 DEF DataReqTask, secVars
  <2>2. CASE UNCHANGED <<reqVars, poolVars, seqNum>>
    BY <2>1, <2>2, FramesStay DEF reqVars, poolVars
  <2> QED
    BY <1>3, <2>1, <2>2 DEF DataReqTask, Serving
<1>4. CASE PhyTask \/ SecurityTask \/ Timers
  BY <1>4, PhyTaskSilent, SecurityTaskSilent, TimerSilent DEF Timers
<1>5. CASE TimerDone \/ RadioReceive \/ RadioTxEnd \/ UNCHANGED vars
  BY <1>5, DoneSilent
<1>6. CASE Application
  BY <1>6 DEF Application
<1> QED
  BY <1>1, <1>2, <1>3, <1>4, <1>5, <1>6 DEF Next, Loop

LEMMA StepOwned == IInv /\ OwnInv /\ CountInv /\ [Next]_vars => OwnInv' /\ CountInv'
<1> SUFFICES ASSUME IInv, OwnInv, CountInv, [Next]_vars
             PROVE  OwnInv' /\ CountInv'
  OBVIOUS
<1>1. TypeOK
  BY DEF IInv
<1>2. CASE Silent
  BY <1>1, <1>2, SteadyKeeps, CountedKeeps DEF Silent
<1>3. ASSUME NEW i \in Slots, RxIndicateAck(i)
      PROVE  OwnInv' /\ CountInv'
  BY <1>1, <1>3, RxIndicateAckSteady, SteadyKeeps, CountedKeeps
<1>4. ASSUME NEW i \in Slots, TxConfirm(i), frames[i].conf = "dataReq"
      PROVE  OwnInv' /\ CountInv'
  BY <1>4, TxConfirmOwned, CountedKeeps
<1>5. ASSUME NEW k \in DOMAIN queue, Serving(k)
      PROVE  OwnInv' /\ CountInv'
  <2>1. queue[k] \in Reqs
    BY <1>1 DEF TypeOK
  <2> QED
    BY <1>1, <1>5, <2>1, SendFrameOwned, NoMemoryOwned, ConfirmOwned, CountedKeeps
       DEF Serving
<1>6. ASSUME NEW r \in Reqs, NEW opt \in ReqOptions, NWK_DataReq(r, opt)
      PROVE  OwnInv' /\ CountInv'
  BY <1>1, <1>6, SubmitOwned, CountedKeeps
<1> QED
  BY <1>2, <1>3, <1>4, <1>5, <1>6, StepKinds

LEMMA InitOwned == Init => OwnInv /\ CountInv
<1> SUFFICES ASSUME Init PROVE OwnInv /\ CountInv
  OBVIOUS
<1>1. /\ \A i \in Slots : frames[i] = FreeFrame
      /\ \A r \in Reqs : reqs[r].state = "IDLE"
      /\ queue = <<>> /\ secCount = 0
  BY DEF Init
<1>2. FreeFrame.st = "FREE" /\ FreeFrame.conf = "null"
  BY DEF FreeFrame
<1>3. CarriersGoOut /\ CarriersHaveOwner
  BY <1>1, <1>2 DEF CarriersGoOut, CarriersHaveOwner
<1>4. WaitersHaveFrame /\ FramesAreApart /\ NewHaveNoFrame /\ AckedBeforeSuccess
      /\ SuccessIsAcked
  BY <1>1 DEF WaitersHaveFrame, FramesAreApart, NewHaveNoFrame, AckedBeforeSuccess,
     SuccessIsAcked, Waits
<1>5. StalePointersBehind /\ QueueIsOwned
  BY <1>1 DEF StalePointersBehind, QueueIsOwned
<1>6. CountInv
  <2>1. InState(SecStates) = {}
    BY <1>1, <1>2 DEF InState, SecStates
  <2> QED
    BY <1>1, <2>1, FS_EmptySet DEF CountInv
<1> QED
  BY <1>3, <1>4, <1>5, <1>6 DEF OwnInv

LEMMA Ownership == Spec => [](IInv /\ OwnInv /\ CountInv)
<1>1. Init => IInv /\ OwnInv /\ CountInv
  BY InitIInv, InitOwned
<1>2. IInv /\ OwnInv /\ CountInv /\ [Next]_vars => (IInv /\ OwnInv /\ CountInv)'
  BY StepIInv, StepOwned
<1> QED
  BY <1>1, <1>2, PTL DEF Spec

\* A request that waits has a frame of its own that will confirm to it and to
\* no other, and the queue holds each request the layer owns once, however
\* many requests come and go and in whatever order their frames end.
THEOREM FramesOwned == Spec => []FramesAreOwned
<1>1. IInv /\ OwnInv /\ CountInv => FramesAreOwned
  BY OwnInvOwns DEF IInv
<1> QED
  BY <1>1, Ownership, PTL

\* A request that asked for an acknowledgement is confirmed with success only
\* if one came for it.
THEOREM SuccessAcked == Spec => []SuccessIsAcked
<1>1. IInv /\ OwnInv /\ CountInv => SuccessIsAcked
  BY OwnInvOwns DEF IInv
<1> QED
  BY <1>1, Ownership, PTL

\* nwkSecurityActiveFrames is the number of frames in the hands of the
\* security module, which works on one of them or on none.
THEOREM SecurityCounts == Spec => []SecurityAccounting
<1>1. IInv /\ OwnInv /\ CountInv => SecurityAccounting
  BY DEF IInv, CountInv, SecurityAccounting
<1> QED
  BY <1>1, Ownership, PTL

-----------------------------------------------------------------------------
(* The node implements the service, as far as safety goes *)

\* How the node looks to its application: the substitution of Service.
Pending == {r \in Reqs : reqs[r].state # "IDLE"}
Wants   == {r \in Reqs : reqs[r].opt.ackRequest}
Outcome == [r \in Reqs |-> IF reqs[r].state = "IDLE" THEN reqs[r].status ELSE "WAITING"]
Busy    == lock > 0

\* The layer's own work, in these terms.
Works == UNCHANGED <<Pending, Wants, acked, Outcome>>

\* An unanswered request is in the queue, which the lock counts.
LEMMA BusyWhilePending == IInv /\ OwnInv => (Pending # {} => Busy)
<1> SUFFICES ASSUME IInv, OwnInv, Pending # {}
             PROVE  Busy
  OBVIOUS
<1>1. Len(queue) \in Nat /\ Len(queue) > 0
  <2>1. PICK r \in Reqs : reqs[r].state # "IDLE"
    BY DEF Pending
  <2>2. \E n \in DOMAIN queue : queue[n] = r
    BY <2>1 DEF OwnInv, QueueIsOwned
  <2> QED
    BY <2>2 DEF IInv, TypeOK
<1> QED
  BY <1>1, InUseFinite DEF IInv, LockAccounting, One, Busy

LEMMA BusyAfterwards == (IInv /\ OwnInv)' => (Pending' # {} => Busy')
<1>1. (IInv /\ OwnInv)' => (Pending # {} => Busy)'
  BY BusyWhilePending, PTL
<1> QED
  BY <1>1

LEMMA WorkIsWork ==
  ASSUME Works, Pending' # {} => Busy'
  PROVE  Service!Next
<1>1. Busy' \in BOOLEAN
  BY DEF Busy
<1>2. Service!Work
  BY <1>1 DEF Works, Service!Work, Pending, Wants, Outcome, Busy
<1> QED
  BY <1>2 DEF Service!Next

LEMMA InitService == Init => Service!Init
<1> SUFFICES ASSUME Init PROVE Service!Init
  OBVIOUS
<1>1. /\ \A r \in Reqs : /\ reqs[r].state = "IDLE" /\ reqs[r].status = "SUCCESS"
                         /\ reqs[r].opt.ackRequest = FALSE
      /\ lock = 0 /\ acked = {}
  BY DEF Init, NoOptions
<1>2. Pending = {} /\ Wants = {} /\ ~Busy
  BY <1>1 DEF Pending, Wants, Busy
<1>3. Outcome \in [Reqs -> Status]
  BY <1>1 DEF Outcome, Status
<1> QED
  BY <1>1, <1>2, <1>3 DEF Service!Init, Pending, Wants, Busy, Outcome

\* Requests that change without a word to the application.
LEMMA InTheLayer ==
  ASSUME NEW r \in Reqs, \A s \in Reqs \ {r} : reqs'[s] = reqs[s],
         reqs[r].state # "IDLE", reqs'[r].state # "IDLE",
         reqs'[r].opt = reqs[r].opt, acked' = acked
  PROVE  Works
<1>1. \A s \in Reqs : /\ reqs'[s].state # "IDLE" <=> reqs[s].state # "IDLE"
                      /\ reqs'[s].opt = reqs[s].opt
                      /\ reqs[s].state = "IDLE" => reqs'[s].status = reqs[s].status
  OBVIOUS
<1>2. Pending' = Pending /\ Wants' = Wants
  BY <1>1 DEF Pending, Wants
<1>3. Outcome' = Outcome
  BY <1>1 DEF Outcome
<1> QED
  BY <1>2, <1>3 DEF Works

LEMMA ServingServes ==
  ASSUME IInv, OwnInv, (IInv /\ OwnInv)', NEW k \in DOMAIN queue, Serving(k)
  PROVE  Service!Next
<1> PICK r \in Reqs : r = queue[k]
  BY DEF IInv, TypeOK
<1>1. reqs[r] \in ReqType /\ reqs \in [Reqs -> ReqType]
  BY DEF IInv, TypeOK
<1>2. Pending' # {} => Busy'
  BY BusyAfterwards
<1>3. CASE SendFrame(r)
  <2>1. PICK i \in Slots : reqs' = [reqs EXCEPT ![r].frame = i, ![r].state = "WAIT_CONF"]
    BY <1>3 DEF SendFrame
  <2>2. reqs'[r] = [reqs[r] EXCEPT !.frame = i, !.state = "WAIT_CONF"]
        /\ \A s \in Reqs \ {r} : reqs'[s] = reqs[s]
    BY <1>1, <2>1
  <2>3. reqs'[r].state # "IDLE" /\ reqs'[r].opt = reqs[r].opt
    BY <1>1, <2>2 DEF ReqType
  <2>4. Works
    BY <1>1, <1>3, <2>2, <2>3, InTheLayer DEF SendFrame
  <2> QED
    BY <1>2, <2>4, WorkIsWork
<1>4. CASE SendFrameNoMemory(r)
  <2>1. reqs'[r] = [reqs[r] EXCEPT !.state = "CONFIRM", !.status = "OUT_OF_MEMORY"]
        /\ \A s \in Reqs \ {r} : reqs'[s] = reqs[s]
    BY <1>1, <1>4 DEF SendFrameNoMemory
  <2>2. reqs'[r].state # "IDLE" /\ reqs'[r].opt = reqs[r].opt
    BY <1>1, <2>1 DEF ReqType
  <2>3. Works
    BY <1>1, <1>4, <2>1, <2>2, InTheLayer DEF SendFrameNoMemory
  <2> QED
    BY <1>2, <2>3, WorkIsWork
<1>5. CASE ConfirmRequest(k)
  <2> PICK status \in Status : status = reqs[r].status
    BY <1>1 DEF ReqType
  <2>1. reqs'[r] = [reqs[r] EXCEPT !.state = "IDLE", !.frame = NoSlot]
        /\ \A s \in Reqs \ {r} : reqs'[s] = reqs[s]
    BY <1>1, <1>5 DEF ConfirmRequest
  <2>2. /\ reqs[r].state = "CONFIRM" /\ acked' = acked
        /\ reqs'[r].state = "IDLE" /\ reqs'[r].opt = reqs[r].opt
        /\ reqs'[r].status = status
    BY <1>1, <1>5, <2>1 DEF ReqType, ConfirmRequest
  <2>3. status = "SUCCESS" /\ r \in Wants => r \in acked
    BY <2>2 DEF OwnInv, SuccessIsAcked, Wants
  <2>4. r \in Pending /\ Pending' = Pending \ {r}
    <3>1. \A s \in Reqs : reqs'[s].state # "IDLE" <=> reqs[s].state # "IDLE" /\ s # r
      BY <2>1, <2>2
    <3> QED
      BY <1>1, <2>2, <3>1 DEF Pending
  <2>5. Wants' = Wants
    BY <1>1, <2>1, <2>2 DEF Wants
  <2>6. Outcome' = [Outcome EXCEPT ![r] = status]
    BY <1>1, <2>1, <2>2 DEF Outcome
  <2>7. Busy' \in BOOLEAN
    BY DEF Busy
  <2>8. Service!Confirm(r, status)
    BY <1>2, <2>2, <2>3, <2>4, <2>5, <2>6, <2>7
       DEF Service!Confirm, Pending, Wants, Outcome, Busy
  <2> QED
    BY <2>8 DEF Service!Next
<1> QED
  BY <1>3, <1>4, <1>5 DEF Serving

LEMMA SubmitSubmits ==
  ASSUME IInv, OwnInv, (IInv /\ OwnInv)', NEW r \in Reqs, NEW opt \in ReqOptions,
         NWK_DataReq(r, opt)
  PROVE  Service!Next
<1>1. /\ reqs[r].state = "IDLE" /\ acked' = acked \ {r}
      /\ \A s \in Reqs \ {r} : reqs'[s] = reqs[s]
      /\ reqs'[r].state = "INITIAL" /\ reqs'[r].opt = opt
  BY DEF NWK_DataReq, IInv, TypeOK
<1>2. opt.ackRequest \in BOOLEAN
  BY NwkConstants DEF Options
<1>3. r \notin Pending /\ Pending' = Pending \cup {r}
  BY <1>1 DEF Pending
<1>4. Wants' = IF opt.ackRequest THEN Wants \cup {r} ELSE Wants \ {r}
  BY <1>1, <1>2 DEF Wants
<1>5. Outcome' = [Outcome EXCEPT ![r] = "WAITING"]
  BY <1>1 DEF Outcome
<1>6. Busy' = TRUE
  <2>1. Len(queue) \in Nat /\ lock = Cardinality(InUse) + Len(queue) + One(active # NoSlot)
    BY DEF IInv, TypeOK, LockAccounting
  <2>2. lock' = lock + 1
    BY DEF NWK_DataReq
  <2> QED
    BY <2>1, <2>2, InUseFinite DEF Busy, One
<1>7. Service!Submit(r, opt.ackRequest)
  BY <1>1, <1>3, <1>4, <1>5, <1>6
     DEF Service!Submit, Service!Waiting, Pending, Wants, Outcome, Busy
<1> QED
  BY <1>2, <1>7 DEF Service!Next

LEMMA AckIsHanded ==
  ASSUME IInv, OwnInv, NEW i \in Slots, RxIndicateAck(i)
  PROVE  Service!Next
<1> DEFINE S == AckedRequests(frames[i].hdr.arg)
<1>1. /\ acked' = acked \cup S /\ UNCHANGED reqs /\ frames[i].st = "INDICATE"
      /\ lock' = lock \/ lock' = lock + 1
  BY DEF RxIndicateAck, RxVisit
<1>2. S \in SUBSET Pending
  BY DEF AckedRequests, Pending
<1>3. Pending' = Pending /\ Wants' = Wants /\ Outcome' = Outcome
  BY <1>1 DEF Pending, Wants, Outcome
<1>4. lock > 0
  <2>1. i \in InUse
    BY <1>1 DEF InUse
  <2>2. Cardinality(InUse) # 0
    BY <2>1, InUseFinite, FS_EmptySet
  <2> QED
    BY <2>2, InUseFinite DEF IInv, TypeOK, LockAccounting, One
<1>5. Busy' = Busy
  BY <1>1, <1>4 DEF Busy, IInv, TypeOK
<1> HIDE DEF S
<1>6. Service!AckArrives
  BY <1>1, <1>2, <1>3, <1>5 DEF Service!AckArrives, Pending, Wants, Outcome, Busy
<1> QED
  BY <1>6 DEF Service!Next

LEMMA StepService == IInv /\ OwnInv /\ (IInv /\ OwnInv)' /\ [Next]_vars => Service!Next
<1> SUFFICES ASSUME IInv, OwnInv, (IInv /\ OwnInv)', [Next]_vars
             PROVE  Service!Next
  OBVIOUS
<1>1. Pending' # {} => Busy'
  BY BusyAfterwards
<1>2. CASE Silent
  <2>1. UNCHANGED <<reqs, acked>>
    BY <1>2 DEF Silent, SteadyStep
  <2>2. Works
    BY <2>1 DEF Works, Pending, Wants, Outcome
  <2> QED
    BY <1>1, <2>2, WorkIsWork
<1>3. ASSUME NEW i \in Slots, TxConfirm(i), frames[i].conf = "dataReq"
      PROVE  Service!Next
  <2>1. acked' = acked
    BY <1>3 DEF TxConfirm, TxVisit
  <2>2. Works
    BY <1>3, <2>1, TxConfirmOwned, InTheLayer DEF Waits
  <2> QED
    BY <1>1, <2>2, WorkIsWork
<1> QED
  BY <1>2, <1>3, StepKinds, AckIsHanded, ServingServes, SubmitSubmits

\* The node implements the safety part of the service it promises: requests
\* are confirmed once each, with success only after the acknowledgement they
\* asked for, and NWK_Busy holds as long as one is unanswered.
THEOREM ImplementsService == Spec => ServiceSafe
<1>1. IInv /\ OwnInv /\ (IInv /\ OwnInv)' /\ [Next]_vars => [Service!Next]_(Service!svars)
  BY StepService
<1> QED
  BY <1>1, InitService, Ownership, PTL DEF Spec, ServiceSafe, Service!Safe

=============================================================================
