----------------------------- MODULE MeshProofs -----------------------------
(***************************************************************************)
(* Proofs about Mesh for every size of its buffers and however deep the    *)
(* sketch's callbacks enter Mesh.loop, about the driver of the transceiver *)
(* for any number of frames on the air, and about the frames the network   *)
(* layer secures, of every size.                                           *)
(***************************************************************************)
EXTENDS Mesh, Phy, NwkSecurity, DataLemmas, TLAPS, FiniteSetTheorems

\* Either nothing is with the network layer, or one request is.
Requests ==
  \/ requests = 0 /\ txBusy = FALSE
  \/ requests = 1 /\ txBusy = TRUE

-----------------------------------------------------------------------------
(* The static bufPacket of sendNow *)

LEMMA RequestsInitially == Init => Requests
  BY DEF Init, Requests

LEMMA RequestsKept == Requests /\ [Next]_vars => Requests'
<1> SUFFICES ASSUME Requests, [Next]_vars PROVE Requests'
  OBVIOUS
<1>1. CASE UNCHANGED txVars
  BY <1>1 DEF Requests, txVars
<1>2. CASE NwkConfirm
  BY <1>2 DEF NwkConfirm, Requests
<1>3. CASE SendNow
  BY <1>3 DEF SendNow, Requests
<1>4. CASE ConfirmReturn
  BY <1>4 DEF ConfirmReturn, Requests
<1>5. CASE sendPacket
  BY <1>5 DEF sendPacket, Requests
<1>6. CASE Loop \/ SysReturn \/ Attend \/ AttendNothing \/ ReceiveReturn
  BY <1>1, <1>6 DEF Loop, SysReturn, Attend, AttendNothing, ReceiveReturn
<1>7. CASE SendNothing \/ SleepLoops \/ FallAsleep \/ Sleep \/ wakeup
  BY <1>1, <1>7 DEF SendNothing, SleepLoops, FallAsleep, Sleep, wakeup
<1>8. CASE NwkReceive \/ NwkForward \/ NwkFrameEnds \/ \E s \in BOOLEAN : NwkIndicate(s)
  BY <1>1, <1>8 DEF NwkReceive, NwkForward, NwkFrameEnds, NwkIndicate
<1>9. CASE UNCHANGED vars
  BY <1>1, <1>9 DEF vars
<1> QED
  BY <1>2, <1>3, <1>4, <1>5, <1>6, <1>7, <1>8, <1>9 DEF Next, Runs

\* sendNow never hands bufPacket to the network layer while the layer owns
\* it, whatever the callbacks do and however the loops nest.
THEOREM OneRequestAlways == Spec => []OneRequest
<1>1. Requests => OneRequest
  BY DEF Requests, OneRequest
<1> QED
  BY RequestsInitially, RequestsKept, <1>1, PTL DEF Spec

-----------------------------------------------------------------------------
(* Sleeping *)

\* A sketch calls sleep from its own loop, so that nothing lies below it on
\* the stack; and while it is asleep nothing runs.
Sleeping ==
  /\ stack \in Seq(Places)
  /\ \A k \in DOMAIN stack : stack[k] = "sleep" => k = 1
  /\ isAsleep => stack = <<>> /\ requests = 0 /\ foreign = "none"

LEMMA SleepingInitially == Init => Sleeping
  BY DEF Init, Sleeping, Places

\* What the steps do to the stack keeps sleep at its bottom.
LEMMA Stacks ==
  ASSUME NEW s \in Seq(Places), \A k \in DOMAIN s : s[k] = "sleep" => k = 1,
         NEW p \in Places
  PROVE  /\ p # "sleep" => /\ Append(s, p) \in Seq(Places)
                           /\ \A k \in DOMAIN Append(s, p) : Append(s, p)[k] = "sleep" => k = 1
         /\ s # <<>> => /\ Front(s) \in Seq(Places)
                        /\ \A k \in DOMAIN Front(s) : Front(s)[k] = "sleep" => k = 1
         /\ s # <<>> /\ p # "sleep" =>
              LET t == [s EXCEPT ![Len(s)] = p] IN
              t \in Seq(Places) /\ \A k \in DOMAIN t : t[k] = "sleep" => k = 1
<1>1. ASSUME p # "sleep"
      PROVE  /\ Append(s, p) \in Seq(Places)
             /\ \A k \in DOMAIN Append(s, p) : Append(s, p)[k] = "sleep" => k = 1
  BY <1>1
<1>2. ASSUME s # <<>>
      PROVE  /\ Front(s) \in Seq(Places)
             /\ \A k \in DOMAIN Front(s) : Front(s)[k] = "sleep" => k = 1
  BY <1>2 DEF Front
<1>3. ASSUME s # <<>>, p # "sleep"
      PROVE  LET t == [s EXCEPT ![Len(s)] = p] IN
             t \in Seq(Places) /\ \A k \in DOMAIN t : t[k] = "sleep" => k = 1
  BY <1>3
<1> QED
  BY <1>1, <1>2, <1>3

LEMMA SleepingKept == Sleeping /\ Requests /\ [Next]_vars => Sleeping'
<1> SUFFICES ASSUME Sleeping, Requests, [Next]_vars PROVE Sleeping'
  OBVIOUS
<1> USE DEF Sleeping
<1> /\ "sys" \in Places /\ "attend" \in Places /\ "send" \in Places
    /\ "confirm" \in Places /\ "receive" \in Places /\ "sleep" \in Places
  BY DEF Places
<1>1. CASE Loop
  BY <1>1, Stacks DEF Loop, Enters, txVars, rxVars
<1>2. CASE NwkReceive \/ NwkForward \/ NwkFrameEnds \/ \E s \in BOOLEAN : NwkIndicate(s)
  <2>1. ~isAsleep
    BY <1>2 DEF NwkReceive, NwkForward, NwkFrameEnds, NwkIndicate, In
  <2> QED
    BY <1>2, <2>1 DEF NwkReceive, NwkForward, NwkFrameEnds, NwkIndicate
<1>3. CASE NwkConfirm
  <2>1. ~isAsleep
    BY <1>3 DEF NwkConfirm, In
  <2>2. CASE stack' = stack
    BY <1>3, <2>1, <2>2 DEF NwkConfirm
  <2>3. CASE Enters("confirm")
    BY <1>3, <2>1, <2>3, Stacks DEF NwkConfirm, Enters
  <2> QED
    BY <1>3, <2>2, <2>3 DEF NwkConfirm
<1>4. CASE ConfirmReturn
  BY <1>4, Stacks DEF ConfirmReturn, Returns, rxVars, In
<1>5. CASE SysReturn \/ AttendNothing
  <2>1. stack # <<>> /\ ~isAsleep
    BY <1>5 DEF SysReturn, AttendNothing, In
  <2>2. CASE Moves("attend")
    BY <1>5, <2>1, <2>2, Stacks DEF SysReturn, AttendNothing, Moves
  <2>3. CASE Moves("send")
    BY <1>5, <2>1, <2>3, Stacks DEF SysReturn, AttendNothing, Moves
  <2> QED
    BY <1>5, <2>2, <2>3 DEF SysReturn, AttendNothing
<1>6. CASE Attend
  <2> DEFINE t == Append(Front(stack), "send")
  <2>1. stack # <<>> /\ ~isAsleep
    BY <1>6 DEF Attend, In
  <2>2. Front(stack) \in Seq(Places) /\ \A k \in DOMAIN Front(stack) : Front(stack)[k] = "sleep" => k = 1
    BY <2>1, Stacks
  <2>3. t \in Seq(Places) /\ \A k \in DOMAIN t : t[k] = "sleep" => k = 1
    BY <2>2, Stacks
  <2>4. stack' = Append(t, "receive")
    BY <1>6, <2>2 DEF Attend
  <2> HIDE DEF t
  <2>5. stack' \in Seq(Places) /\ \A k \in DOMAIN stack' : stack'[k] = "sleep" => k = 1
    BY <2>3, <2>4, Stacks
  <2> QED
    BY <1>6, <2>1, <2>5 DEF Attend
<1>7. CASE ReceiveReturn \/ SendNothing
  BY <1>7, Stacks DEF ReceiveReturn, SendNothing, Returns, txVars, rxVars, In
<1>8. CASE SendNow
  BY <1>8, Stacks DEF SendNow, Returns, In
<1>9. CASE SleepLoops
  <2>1. ~isAsleep
    BY <1>9 DEF SleepLoops, In
  <2> QED
    BY <1>9, <2>1, Stacks DEF SleepLoops, Enters
<1>10. CASE FallAsleep
  <2>0. stack # <<>> /\ stack[Len(stack)] = "sleep" /\ Len(stack) \in Nat
    BY <1>10 DEF FallAsleep, In, Last
  <2>1. Len(stack) = 1
    <3>1. Len(stack) > 0
      BY <2>0
    <3> QED
      BY <2>0, <3>1
  <2>2. stack' = <<>>
    BY <1>10, <2>1 DEF FallAsleep, Returns, Front
  <2>3. requests = 0 /\ foreign = "none"
    BY <1>10 DEF FallAsleep, NWK_Busy, Requests
  <2> QED
    BY <1>10, <2>2, <2>3 DEF FallAsleep, txVars, rxVars
<1>11. CASE sendPacket
  BY <1>11 DEF sendPacket, rxVars
<1>12. CASE Sleep
  BY <1>12 DEF Sleep, Enters, txVars, rxVars
<1>13. CASE wakeup \/ UNCHANGED vars
  BY <1>13 DEF wakeup, vars, txVars, rxVars
<1> QED
  BY <1>1, <1>2, <1>3, <1>4, <1>5, <1>6, <1>7, <1>8, <1>9, <1>10, <1>11, <1>12, <1>13
  DEF Next, Runs

\* The radio is turned off only when the network layer has nothing to do, and
\* stays idle until the sketch wakes it up.
THEOREM SleepIsIdle == Spec => []SleepsIdle
<1>1. Requests /\ Sleeping => SleepsIdle
  BY DEF Requests, Sleeping, SleepsIdle, NWK_Busy
<1> QED
  BY RequestsInitially, RequestsKept, SleepingInitially, SleepingKept, <1>1, PTL DEF Spec

-----------------------------------------------------------------------------
(* Types *)

\* TypeOK but for the stack, which Sleeping types; what a frame from the air
\* brings has a number.
Types ==
  /\ txBuf \in Seq(1..MaxSend) /\ Len(txBuf) <= TxSize
  /\ txUser \in TxPackets /\ txHeld \in TxPackets
  /\ rxBuf \in Seq(1..MaxRx) /\ Len(rxBuf) <= RxSize
  /\ foreign \in {"none", "received", "ending"}
  /\ isAsleep \in BOOLEAN
  /\ accepted \in TxPackets /\ told \in TxPackets
  /\ arrived \in 0..MaxRx /\ seen \in 0..MaxRx
  /\ foreign = "received" => arrived \in 1..MaxRx

LEMMA TypesInitially == Init => Types
<1> SUFFICES ASSUME Init PROVE Types
  OBVIOUS
<1>1. <<>> \in Seq(1..MaxSend) /\ <<>> \in Seq(1..MaxRx) /\ Len(<<>>) = 0
  OBVIOUS
<1>2. txBuf \in Seq(1..MaxSend) /\ Len(txBuf) <= TxSize
  BY <1>1, MeshAssumption DEF Init
<1>3. rxBuf \in Seq(1..MaxRx) /\ Len(rxBuf) <= RxSize
  BY <1>1, MeshAssumption DEF Init
<1>4. 0 \in 0..MaxSend /\ 0 \in 0..MaxRx
  BY MeshAssumption
<1> QED
  BY <1>2, <1>3, <1>4, Zenon DEF Init, Types, TxPackets, NoPacket

\* What the two ends of a buffer do to it.
LEMMA Buffers ==
  ASSUME NEW max \in Nat, NEW size \in Nat,
         NEW b \in Seq(1..max), Len(b) <= size, NEW p \in 1..max
  PROVE  /\ Len(b) # size => Append(b, p) \in Seq(1..max) /\ Len(Append(b, p)) <= size
         /\ b # <<>> => /\ Head(b) \in 1..max
                        /\ Tail(b) \in Seq(1..max) /\ Len(Tail(b)) <= size
<1>1. ASSUME Len(b) # size
      PROVE  Append(b, p) \in Seq(1..max) /\ Len(Append(b, p)) <= size
  <2>1. Append(b, p) \in Seq(1..max) /\ Len(Append(b, p)) = Len(b) + 1 /\ Len(b) \in Nat
    OBVIOUS
  <2> QED
    BY <1>1, <2>1
<1>2. ASSUME b # <<>>
      PROVE  /\ Head(b) \in 1..max
             /\ Tail(b) \in Seq(1..max) /\ Len(Tail(b)) <= size
  <2>1. Head(b) \in 1..max /\ Tail(b) \in Seq(1..max)
    BY <1>2
  <2>2. Len(Tail(b)) = Len(b) - 1 /\ Len(b) \in Nat
    BY <1>2
  <2> QED
    BY <2>1, <2>2
<1> QED
  BY <1>1, <1>2

LEMMA TypesKept == Types /\ [Next]_vars => Types'
<1> SUFFICES ASSUME Types, [Next]_vars PROVE Types'
  OBVIOUS
<1> USE MeshAssumption DEF Types, TxPackets, NoPacket
<1>1. CASE UNCHANGED <<txVars, rxVars>> /\ isAsleep' \in BOOLEAN
  BY <1>1 DEF txVars, rxVars
<1>2. CASE Loop \/ SysReturn \/ AttendNothing \/ ReceiveReturn \/ SendNothing \/ SleepLoops
           \/ FallAsleep \/ Sleep \/ wakeup \/ UNCHANGED vars
  <2>1. UNCHANGED <<txVars, rxVars>> /\ (isAsleep' = isAsleep \/ isAsleep' \in {TRUE, FALSE})
    BY <1>2 DEF Loop, SysReturn, AttendNothing, ReceiveReturn, SendNothing, SleepLoops,
                FallAsleep, Sleep, wakeup, vars
  <2> QED
    BY <1>1, <2>1
<1>3. CASE NwkReceive
  <2>1. arrived' \in 1..MaxRx
    BY <1>3 DEF NwkReceive
  <2> QED
    BY <1>3, <2>1 DEF NwkReceive, txVars
<1>4. CASE \E s \in BOOLEAN : NwkIndicate(s)
  <2>1. arrived \in 1..MaxRx
    BY <1>4 DEF NwkIndicate
  <2>2. CASE rxBuf' = rxBuf
    BY <1>4, <2>2 DEF NwkIndicate, txVars
  <2>3. CASE Len(rxBuf) # RxSize /\ rxBuf' = Append(rxBuf, arrived)
    <3>1. rxBuf' \in Seq(1..MaxRx) /\ Len(rxBuf') <= RxSize
      BY <2>1, <2>3, Buffers
    <3> QED
      BY <1>4, <3>1 DEF NwkIndicate, txVars
  <2> QED
    BY <1>4, <2>2, <2>3 DEF NwkIndicate
<1>5. CASE NwkForward \/ NwkFrameEnds
  <2>1. UNCHANGED <<txBuf, txUser, txHeld, accepted, told, rxBuf, arrived, seen, isAsleep>>
        /\ foreign' \in {"ending", "none"}
    BY <1>5, Zenon DEF NwkForward, NwkFrameEnds, txVars
  <2> QED
    BY <2>1
<1>6. CASE NwkConfirm \/ ConfirmReturn
  <2>1. UNCHANGED <<txBuf, txHeld, accepted, rxBuf, foreign, arrived, seen, isAsleep>>
    BY <1>6, Zenon DEF NwkConfirm, ConfirmReturn, rxVars
  <2>2. txUser' \in {txUser, 0} /\ told' \in {told, txUser}
    BY <1>6, Zenon DEF NwkConfirm, ConfirmReturn
  <2>3. txUser' \in TxPackets /\ told' \in TxPackets
    BY <2>2
  <2>4. UNCHANGED <<txBuf, rxBuf>> /\ isAsleep' = isAsleep
    BY <2>1, Zenon
  <2>5. txHeld' = txHeld /\ accepted' = accepted /\ UNCHANGED <<foreign, arrived, seen>>
    BY <2>1, Zenon
  <2> QED
    BY <2>3, <2>4, <2>5
<1>7. CASE Attend
  <2>1. Head(rxBuf) \in 1..MaxRx /\ Tail(rxBuf) \in Seq(1..MaxRx) /\ Len(Tail(rxBuf)) <= RxSize
    <3>0. rxBuf # <<>>
      BY <1>7 DEF Attend
    <3>1. Head(rxBuf) \in 1..MaxRx /\ rxBuf # <<>>
      BY <3>0, Buffers
    <3> QED
      BY <3>1, Buffers
  <2> QED
    BY <1>7, <2>1 DEF Attend, txVars
<1>8. CASE SendNow
  <2>1. Head(txBuf) \in 1..MaxSend /\ Tail(txBuf) \in Seq(1..MaxSend) /\ Len(Tail(txBuf)) <= TxSize
    <3>1. txBuf # <<>>
      BY <1>8 DEF SendNow
    <3>2. Head(txBuf) \in 1..MaxSend
      BY <3>1
    <3> QED
      BY <3>1, <3>2, Buffers
  <2> QED
    BY <1>8, <2>1 DEF SendNow, rxVars
<1>9. CASE sendPacket
  <2>1. accepted' \in 1..MaxSend /\ Len(txBuf) # TxSize
    BY <1>9 DEF sendPacket
  <2>2. Append(txBuf, accepted') \in Seq(1..MaxSend) /\ Len(Append(txBuf, accepted')) <= TxSize
    BY <2>1, Buffers
  <2> QED
    BY <1>9, <2>1, <2>2 DEF sendPacket, rxVars
<1> QED
  BY <1>2, <1>3, <1>4, <1>5, <1>6, <1>7, <1>8, <1>9 DEF Next, Runs

\* Every variable of Mesh keeps its type, and the buffers their bounds: what
\* sendPacket and rxBootstrap look at before they put is enough.
THEOREM TypeCorrect == Spec => []TypeOK
<1>1. Requests /\ Sleeping /\ Types => TypeOK
  <2> SUFFICES ASSUME Requests, Sleeping, Types PROVE TypeOK
    OBVIOUS
  <2>0. requests \in Nat
    BY DEF Requests
  <2>1. txBusy \in BOOLEAN
    BY Zenon DEF Requests
  <2>2. stack \in Seq(Places)
    BY DEF Sleeping
  <2> QED
    BY <2>0, <2>1, <2>2, Zenon DEF Types, TypeOK
<1> QED
  BY RequestsInitially, RequestsKept, SleepingInitially, SleepingKept,
     TypesInitially, TypesKept, <1>1, PTL DEF Spec

-----------------------------------------------------------------------------
(* The receiving half *)

LEMMA ReceivingInitially == Init => Receiving!Init
  BY MeshAssumption DEF Init, Receiving!Init

\* rxBootstrap puts, rxAttendPend gets, and nothing else comes near.
LEMMA ReceivingSteps == Types /\ [Next]_vars => [Receiving!Next]_<<rxBuf, seen>>
<1> SUFFICES ASSUME Types, [Next]_vars PROVE [Receiving!Next]_<<rxBuf, seen>>
  OBVIOUS
<1>1. CASE \E s \in BOOLEAN : NwkIndicate(s)
  <2>1. CASE rxBuf' = rxBuf
    BY <1>1, <2>1 DEF NwkIndicate
  <2>2. CASE Len(rxBuf) # RxSize /\ rxBuf' = Append(rxBuf, arrived)
    <3>1. Len(rxBuf) < RxSize
      BY <2>2, MeshAssumption DEF Types
    <3>2. arrived \in 0..MaxRx
      BY DEF Types
    <3>3. Receiving!Put(arrived)
      BY <1>1, <2>2, <3>1 DEF Receiving!Put, NwkIndicate
    <3> QED
      BY <3>2, <3>3 DEF Receiving!Next
  <2> QED
    BY <1>1, <2>1, <2>2 DEF NwkIndicate
<1>2. CASE Attend
  BY <1>2 DEF Attend, Receiving!Get, Receiving!Next
<1>3. CASE UNCHANGED rxVars
  BY <1>3 DEF rxVars
<1>4. CASE Loop \/ SysReturn \/ AttendNothing \/ ReceiveReturn \/ SendNothing \/ SleepLoops
           \/ FallAsleep \/ Sleep \/ wakeup \/ NwkConfirm \/ ConfirmReturn \/ SendNow
           \/ sendPacket \/ UNCHANGED vars
  BY <1>3, <1>4 DEF Loop, SysReturn, AttendNothing, ReceiveReturn, SendNothing, SleepLoops,
     FallAsleep, Sleep, wakeup, NwkConfirm, ConfirmReturn, SendNow, sendPacket, vars
<1>5. CASE NwkReceive \/ NwkForward \/ NwkFrameEnds
  BY <1>5 DEF NwkReceive, NwkForward, NwkFrameEnds
<1> QED
  BY <1>1, <1>2, <1>4, <1>5 DEF Next, Runs

\* What Mesh has acknowledged it hands to the sketch once and in the order it
\* came, however the loops nest: the receiving half refines the queue.
THEOREM ReceivesInOrder == Spec => DeliveredInOrder
  BY ReceivingInitially, ReceivingSteps, TypesInitially, TypesKept, PTL
  DEF Spec, DeliveredInOrder, Receiving!Spec, Receiving!fvars

-----------------------------------------------------------------------------
(* The sending half, when no callback enters Mesh.loop *)

\* The queue of what has not had its callback.
Sending == INSTANCE Fifo WITH
  Packets <- TxPackets, Size <- TxSize + 1, queue <- Untold, out <- told

\* The request with the network layer has its callback in txUserConfirm.
Owned == requests > 0 => txHeld \in 1..MaxSend /\ txUser = txHeld

\* A confirm callback runs on top of the stack, right above the task handler
\* that called it, and before the next packet is sent.
Confirming ==
  \A k \in DOMAIN stack :
    stack[k] = "confirm" => k = Len(stack) /\ k > 1 /\ stack[k - 1] = "sys" /\ requests = 0

\* No confirm callback is on the stack.
Calm(s) == \A k \in DOMAIN s : s[k] # "confirm"

LEMMA SendingInitially == Init => Owned /\ Confirming /\ Sending!Init
<1> SUFFICES ASSUME Init PROVE Owned /\ Confirming /\ Sending!Init
  OBVIOUS
<1>1. Owned /\ Confirming
  BY DEF Init, Owned, Confirming
<1>2. Untold = <<>>
  BY DEF Init, Untold
<1> QED
  BY <1>1, <1>2, MeshAssumption DEF Init, Sending!Init, TxPackets, NoPacket

\* No loop begins inside a confirm callback if there may be only one.
LEMMA NoLoopInConfirm ==
  ASSUME MaxLoops = 1, Sleeping, Confirming, Loop
  PROVE  ~In("confirm")
<1> SUFFICES ASSUME In("confirm") PROVE FALSE
  OBVIOUS
<1> DEFINE n == Len(stack)
           L == {k \in DOMAIN stack : stack[k] \in {"sys", "attend", "send"}}
<1>1. n \in DOMAIN stack /\ stack[n] = "confirm"
  BY DEF In, Last, Sleeping
<1>2. n - 1 \in L
  BY <1>1 DEF Confirming, Sleeping
<1>3. IsFiniteSet(L)
  <2>1. IsFiniteSet(1..n) /\ L \subseteq 1..n
    BY FS_Interval DEF Sleeping
  <2> QED
    BY <2>1, FS_Subset
<1>4. Cardinality(L) < 1
  BY DEF Loop, Loops
<1> QED
  BY <1>2, <1>3, <1>4, FS_CardinalityType, FS_EmptySet

\* Above a confirm callback there is nothing, so that only it can return.
LEMMA CalmStacks ==
  ASSUME Sleeping, Confirming,
         NEW p \in Places \ {"confirm"}
  PROVE  /\ ~In("confirm") => Calm(stack) /\ Calm(Append(stack, p))
         /\ stack # <<>> => Calm(Front(stack)) /\ Calm([stack EXCEPT ![Len(stack)] = p])
<1>1. stack \in Seq(Places) /\ p # "confirm"
  BY DEF Sleeping
<1>2. \A k \in 1..Len(stack) : stack[k] = "confirm" => k = Len(stack)
  BY <1>1 DEF Confirming
<1>3. ASSUME ~In("confirm")
      PROVE  Calm(stack) /\ Calm(Append(stack, p))
  <2>1. Calm(stack)
    BY <1>1, <1>2, <1>3 DEF Calm, In, Last
  <2> QED
    BY <1>1, <2>1 DEF Calm
<1>4. ASSUME stack # <<>>
      PROVE  Calm(Front(stack)) /\ Calm([stack EXCEPT ![Len(stack)] = p])
  <2>1. Calm(Front(stack))
    BY <1>1, <1>2, <1>4 DEF Calm, Front
  <2>2. Calm([stack EXCEPT ![Len(stack)] = p])
    BY <1>1, <1>2, <1>4 DEF Calm
  <2> QED
    BY <2>1, <2>2
<1> QED
  BY <1>3, <1>4

LEMMA ConfirmingKept ==
  ASSUME MaxLoops = 1, Sleeping, Requests, Confirming, [Next]_vars
  PROVE  Confirming'
<1>1. ASSUME Calm(stack') PROVE Confirming'
  BY <1>1 DEF Calm, Confirming
<1>2. "sys" \in Places \ {"confirm"} /\ "attend" \in Places \ {"confirm"}
      /\ "send" \in Places \ {"confirm"} /\ "receive" \in Places \ {"confirm"}
      /\ "sleep" \in Places \ {"confirm"}
  BY DEF Places
<1>3. ASSUME UNCHANGED <<stack, requests>> PROVE Confirming'
  BY <1>3 DEF Confirming
<1>4. CASE Loop \/ SleepLoops
  <2>1. ~In("confirm") /\ stack' = Append(stack, "sys")
    BY <1>4, NoLoopInConfirm DEF Loop, SleepLoops, Enters, In
  <2> QED
    BY <1>1, <1>2, <2>1, CalmStacks
<1>5. CASE Sleep
  <2>1. ~In("confirm") /\ stack' = Append(stack, "sleep")
    BY <1>5 DEF Sleep, Enters, In
  <2> QED
    BY <1>1, <1>2, <2>1, CalmStacks
<1>6. CASE SysReturn \/ AttendNothing
  <2>1. stack # <<>>
    BY <1>6 DEF SysReturn, AttendNothing, In
  <2>2. \/ stack' = [stack EXCEPT ![Len(stack)] = "attend"]
        \/ stack' = [stack EXCEPT ![Len(stack)] = "send"]
    BY <1>6 DEF SysReturn, AttendNothing, Moves
  <2> QED
    BY <1>1, <1>2, <2>1, <2>2, CalmStacks
<1>7. CASE ConfirmReturn \/ ReceiveReturn \/ SendNow \/ SendNothing \/ FallAsleep
  <2>1. stack # <<>> /\ stack' = Front(stack)
    BY <1>7 DEF ConfirmReturn, ReceiveReturn, SendNow, SendNothing, FallAsleep, In, Returns
  <2> QED
    BY <1>1, <1>2, <2>1, CalmStacks
<1>8. CASE Attend
  <2>1. stack # <<>> /\ stack' = Front(stack) \o <<"send", "receive">>
    BY <1>8 DEF Attend, In
  <2>2. Calm(Front(stack))
    BY <1>2, <2>1, CalmStacks
  <2>3. Front(stack) \in Seq(Places)
    BY <2>1 DEF Sleeping, Front
  <2>4. Calm(stack')
    BY <2>1, <2>2, <2>3 DEF Calm
  <2> QED
    BY <1>1, <2>4
<1>9. CASE NwkConfirm
  <2>1. stack # <<>> /\ stack[Len(stack)] = "sys" /\ requests > 0 /\ requests' = requests - 1
    BY <1>9 DEF NwkConfirm, In, Last
  <2>2. ~In("confirm") /\ requests' = 0
    BY <2>1 DEF In, Last, Requests
  <2>3. Calm(stack)
    BY <1>2, <2>2, CalmStacks
  <2>4. CASE stack' = stack
    BY <1>1, <2>3, <2>4
  <2>5. CASE stack' = Append(stack, "confirm")
    <3>1. /\ Len(stack') = Len(stack) + 1 /\ Len(stack) > 0 /\ Len(stack) \in Nat
          /\ stack'[Len(stack)] = "sys"
          /\ DOMAIN stack' = 1..Len(stack')
      BY <2>1, <2>5 DEF Sleeping
    <3>2. \A k \in DOMAIN stack' : stack'[k] = "confirm" => k = Len(stack')
      BY <2>3, <2>5 DEF Sleeping, Calm
    <3> QED
      BY <2>2, <3>1, <3>2 DEF Confirming
  <2> QED
    BY <1>9, <2>4, <2>5 DEF NwkConfirm, Enters
<1>10. CASE NwkReceive \/ NwkForward \/ NwkFrameEnds \/ \E s \in BOOLEAN : NwkIndicate(s)
  BY <1>3, <1>10 DEF NwkReceive, NwkForward, NwkFrameEnds, NwkIndicate, txVars
<1>11. CASE sendPacket \/ wakeup \/ UNCHANGED vars
  BY <1>3, <1>11 DEF sendPacket, wakeup, vars, txVars
<1> QED
  BY <1>4, <1>5, <1>6, <1>7, <1>8, <1>9, <1>10, <1>11 DEF Next, Runs

LEMMA OwnedKept ==
  ASSUME Owned, Requests, Types, Sleeping, Confirming, [Next]_vars
  PROVE  Owned'
<1>1. ASSUME UNCHANGED <<requests, txHeld, txUser>> PROVE Owned'
  BY <1>1 DEF Owned
<1>2. CASE NwkConfirm
  BY <1>2 DEF NwkConfirm, Owned, Requests
<1>3. CASE ConfirmReturn
  <2>1. Len(stack) \in DOMAIN stack /\ stack[Len(stack)] = "confirm"
    BY <1>3 DEF ConfirmReturn, In, Last, Sleeping
  <2>2. requests = 0 /\ requests' = requests
    BY <1>3, <2>1 DEF ConfirmReturn, Confirming
  <2> QED
    BY <2>2 DEF Owned
<1>4. CASE SendNow
  <2>1. txBuf # <<>> /\ txHeld' = Head(txBuf) /\ txUser' = Head(txBuf)
    BY <1>4 DEF SendNow
  <2>2. txBuf \in Seq(1..MaxSend) /\ txBuf # <<>>
    BY <2>1 DEF Types
  <2>3. Head(txBuf) \in 1..MaxSend
    BY <2>2, MeshAssumption
  <2> QED
    BY <2>1, <2>3 DEF Owned
<1>5. CASE Loop \/ SysReturn \/ Attend \/ AttendNothing \/ ReceiveReturn \/ SendNothing
           \/ SleepLoops \/ FallAsleep \/ Sleep \/ wakeup \/ UNCHANGED vars \/ sendPacket
  BY <1>1, <1>5 DEF Loop, SysReturn, Attend, AttendNothing, ReceiveReturn, SendNothing,
     SleepLoops, FallAsleep, Sleep, wakeup, sendPacket, vars, txVars
<1>6. CASE NwkReceive \/ NwkForward \/ NwkFrameEnds \/ \E s \in BOOLEAN : NwkIndicate(s)
  BY <1>1, <1>6 DEF NwkReceive, NwkForward, NwkFrameEnds, NwkIndicate, txVars
<1> QED
  BY <1>2, <1>3, <1>4, <1>5, <1>6 DEF Next, Runs

\* sendPacket puts, the confirmation gets, and sendNow only moves what waits.
LEMMA SendingSteps ==
  ASSUME Owned, Requests, Types, [Next]_vars
  PROVE  [Sending!Next]_<<Untold, told>>
<1>1. ASSUME UNCHANGED <<requests, txHeld, txBuf, told>> PROVE UNCHANGED <<Untold, told>>
  BY <1>1 DEF Untold
<1>2. CASE NwkConfirm
  <2>1. requests = 1 /\ requests' = 0 /\ txUser = txHeld /\ txUser # NoPacket
    BY <1>2 DEF NwkConfirm, Requests, Owned, NoPacket
  <2>2. told' = txHeld /\ txBuf' = txBuf
    BY <1>2, <2>1 DEF NwkConfirm
  <2>3. Untold = <<txHeld>> \o txBuf /\ Untold' = txBuf
    BY <2>1, <2>2 DEF Untold, Types
  <2>4. Untold # <<>> /\ Head(Untold) = txHeld /\ Tail(Untold) = txBuf
    BY <2>3 DEF Types
  <2> QED
    BY <2>2, <2>3, <2>4 DEF Sending!Get, Sending!Next
<1>3. CASE SendNow
  <2>1. requests = 0 /\ requests' = 1 /\ txHeld' = Head(txBuf) /\ txBuf' = Tail(txBuf)
        /\ txBuf # <<>> /\ told' = told
    BY <1>3 DEF SendNow, NWK_Busy, Requests
  <2>2. Untold = txBuf /\ Untold' = <<Head(txBuf)>> \o Tail(txBuf)
    BY <2>1 DEF Untold, Types
  <2>3. <<Head(txBuf)>> \o Tail(txBuf) = txBuf
    BY <2>1 DEF Types
  <2> QED
    BY <2>1, <2>2, <2>3
<1>4. CASE sendPacket
  <2>0. accepted' \in TxPackets
    BY <1>4, MeshAssumption DEF sendPacket, Types, TxPackets
  <2>1. /\ txBuf' = Append(txBuf, accepted') /\ accepted' \in TxPackets
        /\ Len(txBuf) < TxSize
        /\ UNCHANGED <<requests, txHeld, told>>
    BY <1>4, <2>0 DEF sendPacket
  <2> DEFINE q == IF requests > 0 THEN <<txHeld>> ELSE <<>>
  <2>2. q \in Seq(TxPackets) /\ Len(q) <= 1 /\ Untold = q \o txBuf
    BY DEF Untold, Types
  <2>3. Untold' = q \o Append(txBuf, accepted')
    BY <2>1 DEF Untold
  <2> HIDE DEF q
  <2>4. txBuf \in Seq(1..MaxSend)
    BY DEF Types
  <2>5. Untold' = Append(Untold, accepted')
    BY <2>1, <2>2, <2>3, <2>4
  <2>6. Len(Untold) = Len(q) + Len(txBuf) /\ Len(q) \in Nat /\ Len(txBuf) \in Nat
    BY <2>2, <2>4
  <2>7. Len(Untold) < TxSize + 1
    BY <2>1, <2>2, <2>6, MeshAssumption
  <2>8. Sending!Put(accepted')
    BY <2>1, <2>5, <2>7 DEF Sending!Put
  <2> QED
    BY <2>1, <2>8 DEF Sending!Next
<1>5. CASE Loop \/ SysReturn \/ Attend \/ AttendNothing \/ ReceiveReturn \/ SendNothing
           \/ SleepLoops \/ FallAsleep \/ Sleep \/ wakeup \/ UNCHANGED vars \/ ConfirmReturn
  <2>1. UNCHANGED <<requests, txHeld, txBuf, told>>
    BY <1>5 DEF Loop, SysReturn, Attend, AttendNothing, ReceiveReturn, SendNothing,
       SleepLoops, FallAsleep, Sleep, wakeup, ConfirmReturn, vars, txVars
  <2> QED
    BY <1>1, <2>1
<1>6. CASE NwkReceive \/ NwkForward \/ NwkFrameEnds \/ \E s \in BOOLEAN : NwkIndicate(s)
  <2>1. UNCHANGED <<requests, txHeld, txBuf, told>>
    BY <1>6 DEF NwkReceive, NwkForward, NwkFrameEnds, NwkIndicate, txVars
  <2> QED
    BY <1>1, <2>1
<1> QED
  BY <1>2, <1>3, <1>4, <1>5, <1>6 DEF Next, Runs

\* As long as no callback enters Mesh.loop, every packet sendPacket accepts
\* gets its own callback, once and in order: the sending half, the buffer and
\* the packet with the network layer, refines a queue one place longer than
\* the buffer.
THEOREM SendsInOrder == ASSUME MaxLoops = 1 PROVE Spec => Sending!Spec
<1> DEFINE SendInv == Requests /\ Sleeping /\ Types /\ Owned /\ Confirming
<1>1. Init => SendInv
  BY RequestsInitially, SleepingInitially, TypesInitially, SendingInitially
<1>2. SendInv /\ [Next]_vars => SendInv'
  BY RequestsKept, SleepingKept, TypesKept, OwnedKept, ConfirmingKept
<1>3. SendInv /\ [Next]_vars => [Sending!Next]_<<Untold, told>>
  BY SendingSteps
<1>4. Init => Sending!Init
  BY SendingInitially
<1> HIDE DEF SendInv
<1> QED
  BY <1>1, <1>2, <1>3, <1>4, PTL DEF Spec, Sending!Spec, Sending!fvars

-----------------------------------------------------------------------------
(* The driver of the transceiver *)

PhyTypes ==
  /\ phyState \in {"IDLE", "SLEEP", "TX_WAIT_END"}
  /\ handler \in {"returned", "reads", "waits", "releases", "asks", "clears"}
  /\ trxBuffer \in [1..2 -> 0..MaxAired]
  /\ aired \in 0..MaxAired /\ indicated \in 0..MaxAired

\* Asleep, the driver works on nothing.
AsleepIdle ==
  phyState = "SLEEP" => trxStatus = "SLEEP" /\ handler = "returned" /\ asked = "none"

\* A frame whose flag is set is in the buffer with both its halves, and stays
\* there while the driver is awake.  It is the one on the air last.
HeardIsKept ==
  "rxEnd" \in irqStatus =>
    /\ trxBuffer[1] = aired /\ trxBuffer[2] = aired /\ aired > 0
    /\ phyState = "SLEEP" \/ (kept /\ trxStatus \in {"RX_AACK_ON", "BUSY_ACK"})

\* The handler works on a frame that is protected.
HandledIsKept ==
  /\ handler \in {"reads", "waits", "releases"} =>
       kept /\ trxStatus \in {"RX_AACK_ON", "BUSY_ACK"}
  /\ handler \in {"reads", "waits"} => "rxEnd" \in irqStatus
  /\ handler = "reads" => copied = aired
  /\ handler = "releases" => "rxEnd" \notin irqStatus

\* A frame the transceiver is receiving goes into a buffer nobody needs.
ReceivesIntoFree ==
  trxStatus = "BUSY_RX" => ~kept /\ trxBuffer[1] = aired /\ indicated < aired

\* A frame is not indicated before it is read, and is the last to be.
IndicatedOnce ==
  /\ indicated <= aired
  /\ "rxEnd" \in irqStatus /\ handler # "waits" => indicated < aired

\* The transceiver sends what was asked for, and keeps how that ended.
SendsWhatIsAsked ==
  /\ trxStatus = "BUSY_TX" => asked = "asked"
  /\ trxStatus = "TX_ARET_ON" => asked \in Statuses /\ asked = StatusOf(tracStatus)

PhyInv ==
  /\ PhyTypes /\ AsleepIdle /\ HeardIsKept /\ HandledIsKept /\ ReceivesIntoFree
  /\ IndicatedOnce /\ SendsWhatIsAsked

LEMMA PhyInitially == PhyInit => PhyInv /\ Heard = 0
  BY PhyAssumption
  DEF PhyInit, PhyInv, PhyTypes, AsleepIdle, HeardIsKept, HandledIsKept, ReceivesIntoFree,
      IndicatedOnce, SendsWhatIsAsked, Heard

\* The transceiver's own steps.
LEMMA PhyTransceiver ==
  ASSUME PhyInv, FrameBegins \/ TransceiverGoesOn
  PROVE  PhyInv'
<1>1. CASE FrameBegins
  <2> USE PhyAssumption DEF PhyTypes
  <2>1. "rxEnd" \notin irqStatus /\ handler \notin {"reads", "waits", "releases"}
    BY <1>1 DEF FrameBegins, PhyInv, AsleepIdle, HeardIsKept, HandledIsKept
  <2>2. aired' \in 1..MaxAired /\ aired' = aired + 1
    BY <1>1 DEF FrameBegins, PhyInv
  <2>3. trxBuffer' \in [1..2 -> 0..MaxAired] /\ trxBuffer'[1] = aired'
    BY <1>1, <2>2 DEF FrameBegins, PhyInv
  <2>4. trxStatus' = "BUSY_RX" /\ ~kept' /\ phyState # "SLEEP"
    BY <1>1 DEF FrameBegins, PhyInv, AsleepIdle
  <2>5. /\ irqStatus' = irqStatus /\ handler' = handler /\ phyState' = phyState
        /\ indicated' = indicated
    BY <1>1 DEF FrameBegins, driverVars
  <2>6. AsleepIdle' /\ HeardIsKept' /\ HandledIsKept' /\ SendsWhatIsAsked'
    BY <2>1, <2>4, <2>5 DEF AsleepIdle, HeardIsKept, HandledIsKept, SendsWhatIsAsked
  <2>7. ReceivesIntoFree' /\ IndicatedOnce' /\ PhyTypes'
    BY <2>1, <2>2, <2>3, <2>4, <2>5 DEF PhyInv, ReceivesIntoFree, IndicatedOnce
  <2> QED
    BY <2>6, <2>7 DEF PhyInv
<1> USE PhyAssumption DEF PhyInv, PhyTypes, AsleepIdle, HeardIsKept, HandledIsKept,
      ReceivesIntoFree, IndicatedOnce, SendsWhatIsAsked, driverVars
<1>2. CASE FrameFails
  BY <1>2 DEF FrameFails
<1>3. CASE FrameEnds
  <2>1. trxBuffer'[1] = aired /\ trxBuffer'[2] = aired /\ trxBuffer' \in [1..2 -> 0..MaxAired]
    BY <1>3 DEF FrameEnds
  <2>2. aired > 0 /\ indicated < aired
    BY <1>3 DEF FrameEnds
  <2>3. handler \notin {"reads", "waits", "releases"} /\ phyState # "SLEEP"
    BY <1>3 DEF FrameEnds
  <2> QED
    BY <1>3, <2>1, <2>2, <2>3 DEF FrameEnds
<1>4. CASE AckSent
  BY <1>4 DEF AckSent
<1>5. CASE FrameSent
  BY <1>5 DEF FrameSent, TracStatuses, StatusOf, Statuses
<1> QED
  BY <1>1, <1>2, <1>3, <1>4, <1>5 DEF TransceiverGoesOn

\* What the network layer and Mesh call.
LEMMA PhyCalls ==
  ASSUME PhyInv,
         \/ \E rx \in BOOLEAN : PHY_SetRxState(rx)
         \/ PHY_Sleep \/ PHY_Wakeup \/ PHY_DataReq \/ PHY_EdReq \/ PHY_RandomReq
  PROVE  PhyInv'
<1> USE PhyAssumption DEF PhyInv, PhyTypes, AsleepIdle, HeardIsKept, HandledIsKept,
      ReceivesIntoFree, IndicatedOnce, SendsWhatIsAsked, SetState, SetRxState, Called
<1>1. CASE \E rx \in BOOLEAN : PHY_SetRxState(rx)
  BY <1>1 DEF PHY_SetRxState
<1>2. CASE PHY_Sleep
  BY <1>2 DEF PHY_Sleep
<1>3. CASE PHY_Wakeup
  BY <1>3 DEF PHY_Wakeup
<1>4. CASE PHY_DataReq
  BY <1>4 DEF PHY_DataReq
<1>5. CASE PHY_EdReq \/ PHY_RandomReq
  BY <1>5 DEF PHY_EdReq, PHY_RandomReq, Measures
<1> QED
  BY <1>1, <1>2, <1>3, <1>4, <1>5

\* The handler, access by access.
LEMMA PhyHandler == ASSUME PhyInv, PHY_TaskHandler PROVE PhyInv'
<1> USE PhyAssumption DEF PhyInv, PhyTypes, AsleepIdle, HeardIsKept, HandledIsKept,
      ReceivesIntoFree, IndicatedOnce, SendsWhatIsAsked, Keeps, Called, trxVars
<1>1. CASE Polls
  BY <1>1 DEF Polls
<1>2. CASE Indicates
  BY <1>2 DEF Indicates
<1>3. CASE RxCleared
  BY <1>3 DEF RxCleared
<1>4. CASE Releases
  BY <1>4 DEF Releases
<1>5. CASE Confirms
  BY <1>5 DEF Confirms, SetState, SetRxState
<1>6. CASE TxCleared
  BY <1>6 DEF TxCleared
<1> QED
  BY <1>1, <1>2, <1>3, <1>4, <1>5, <1>6 DEF PHY_TaskHandler

LEMMA PhyKept == PhyInv /\ [PhyNext]_phyVars => PhyInv'
<1> SUFFICES ASSUME PhyInv, [PhyNext]_phyVars PROVE PhyInv'
  OBVIOUS
<1>1. CASE UNCHANGED phyVars
  BY <1>1 DEF phyVars, PhyInv, PhyTypes, AsleepIdle, HeardIsKept, HandledIsKept,
     ReceivesIntoFree, IndicatedOnce, SendsWhatIsAsked
<1> QED
  BY <1>1, PhyTransceiver, PhyCalls, PhyHandler DEF PhyNext

\* Each step of the driver and of the transceiver is one the network layer
\* knows, or it sees nothing of it.
LEMMA PhySteps ==
  ASSUME PhyInv, [PhyNext]_phyVars
  PROVE  [Service!Next]_<<asked, confirmed, Heard, indicated>>
<1> USE PhyAssumption DEF PhyInv, PhyTypes, Heard
<1>1. ASSUME UNCHANGED <<asked, confirmed, indicated>>, Heard' \in {0, Heard}
      PROVE  [Service!Next]_<<asked, confirmed, Heard, indicated>>
  BY <1>1 DEF Service!Next, Service!Lose
<1>2. ASSUME UNCHANGED <<asked, confirmed, indicated>>, Heard = 0, Heard' = aired,
             indicated < aired
      PROVE  [Service!Next]_<<asked, confirmed, Heard, indicated>>
  BY <1>2 DEF Service!Next, Service!Hear
<1>3. CASE FrameBegins
  BY <1>1, <1>3 DEF FrameBegins, driverVars
<1>4. CASE FrameFails \/ AckSent
  BY <1>1, <1>4 DEF FrameFails, AckSent, driverVars
<1>5. CASE FrameEnds
  <2>1. "rxEnd" \notin irqStatus /\ indicated < aired
    BY <1>5 DEF FrameEnds, ReceivesIntoFree, HeardIsKept, AsleepIdle
  <2>2. trxBuffer'[2] = aired
    BY <1>5 DEF FrameEnds
  <2>3. Heard = 0 /\ Heard' \in {0, aired}
    BY <1>5, <2>1, <2>2 DEF FrameEnds
  <2> QED
    BY <1>1, <1>2, <1>5, <2>1, <2>3 DEF FrameEnds, driverVars
<1>6. CASE FrameSent
  <2>1. asked = "asked" /\ asked' \in Statuses /\ Heard' = Heard
    BY <1>6 DEF FrameSent, SendsWhatIsAsked, driverVars, TracStatuses, StatusOf, Statuses
  <2> QED
    BY <1>6, <2>1 DEF FrameSent, driverVars, Service!Next, Service!Ends
<1>7. CASE \/ \E rx \in BOOLEAN : PHY_SetRxState(rx)
           \/ PHY_Wakeup \/ PHY_EdReq \/ PHY_RandomReq
  BY <1>1, <1>7
  DEF PHY_SetRxState, PHY_Wakeup, PHY_EdReq, PHY_RandomReq, Measures, SetRxState
<1>8. CASE PHY_Sleep
  BY <1>1, <1>8 DEF PHY_Sleep
<1>9. CASE PHY_DataReq
  BY <1>9 DEF PHY_DataReq, Service!Next, Service!Ask
<1>10. CASE Polls
  BY <1>1, <1>10 DEF Polls, Keeps, trxVars, Called
<1>11. CASE Indicates
  <2>1. "rxEnd" \in irqStatus /\ copied = aired /\ trxBuffer[2] = aired /\ aired # 0
    BY <1>11 DEF Indicates, HandledIsKept, HeardIsKept
  <2>2. Heard = aired /\ Heard' = 0 /\ indicated' = aired
    BY <1>11, <2>1 DEF Indicates
  <2> QED
    BY <1>11, <2>1, <2>2 DEF Indicates, Service!Next, Service!Indicate
<1>12. CASE RxCleared \/ Releases
  BY <1>1, <1>12 DEF RxCleared, Releases, Keeps, HandledIsKept
<1>13. CASE Confirms
  <2>1. CASE trxStatus = "TX_ARET_ON"
    <3>1. asked \in Statuses /\ confirmed' = asked /\ asked' = "none"
      BY <1>13, <2>1 DEF Confirms, SendsWhatIsAsked
    <3>2. Heard = 0 /\ Heard' = 0
      BY <1>13 DEF Confirms
    <3> QED
      BY <1>13, <3>1, <3>2 DEF Confirms, Keeps, Service!Next, Service!Confirm
  <2>2. CASE trxStatus # "TX_ARET_ON"
    BY <1>1, <1>13, <2>2 DEF Confirms, Keeps, trxVars
  <2> QED
    BY <2>1, <2>2
<1>14. CASE TxCleared
  <2>1. Heard = 0
    BY <1>14 DEF TxCleared
  <2>2. CASE "rxEnd" \in irqStatus
    <3>1. trxBuffer'[2] = aired /\ "rxEnd" \in irqStatus' /\ indicated < aired
      BY <1>14, <2>2 DEF TxCleared, Keeps, HeardIsKept, IndicatedOnce
    <3>2. Heard' = aired
      BY <1>14, <3>1 DEF TxCleared
    <3> QED
      BY <1>2, <1>14, <2>1, <3>1, <3>2 DEF TxCleared
  <2>3. CASE "rxEnd" \notin irqStatus
    BY <1>1, <1>14, <2>1, <2>3 DEF TxCleared
  <2> QED
    BY <2>2, <2>3
<1>15. CASE UNCHANGED phyVars
  BY <1>1, <1>15 DEF phyVars
<1> QED
  BY <1>3, <1>4, <1>5, <1>6, <1>7, <1>8, <1>9, <1>10, <1>11, <1>12, <1>13, <1>14, <1>15
  DEF PhyNext, TransceiverGoesOn, PHY_TaskHandler

\* The driver is what the network layer takes it for, wherever the transceiver
\* goes on between two accesses of the handler.
THEOREM DriverIsRadio == PhySpec => ImplementsRadio
<1>1. PhyInit => asked = "none" /\ confirmed = "none" /\ Heard = 0 /\ indicated = 0
  BY PhyInitially DEF PhyInit
<1> QED
  BY <1>1, PhyInitially, PhyKept, PhySteps, PTL
  DEF PhySpec, ImplementsRadio, Service!Spec

-----------------------------------------------------------------------------
(* Securing a frame: the cipher *)

\* Each word of the cipher takes the vector of its block, made of words that
\* come before: the recursion has an answer, whatever the size.
WordOf(words, f, size, k, n) ==
  Xor(Plain(f, size)[n], PHY_EncryptReq(Before(words, f, Block(n)), k)[Place(n)])

AreWords(h, f, size, k, m) == h = [n \in 1..m |-> WordOf(h, f, size, k, n)]

LEMMA BlockFacts ==
  ASSUME NEW n \in Nat \ {0}
  PROVE  /\ Block(n) \in Nat /\ Place(n) \in Words
         /\ n = BLOCK * Block(n) + Place(n)
  BY DEF Block, Place, BLOCK, Words

LEMMA BeforeIsEarlier ==
  ASSUME NEW g, NEW h, NEW f, NEW n \in Nat \ {0},
         \A m \in 1..(n - 1) : g[m] = h[m]
  PROVE  Before(g, f, Block(n)) = Before(h, f, Block(n))
<1>1. CASE Block(n) = 0
  BY <1>1 DEF Before
<1>2. CASE Block(n) # 0
  <2>1. \A w \in Words : BLOCK * (Block(n) - 1) + w \in 1..(n - 1)
    BY <1>2, BlockFacts DEF BLOCK, Words
  <2>2. \A w \in Words : g[BLOCK * (Block(n) - 1) + w] = h[BLOCK * (Block(n) - 1) + w]
    BY <2>1
  <2>3. [w \in Words |-> g[BLOCK * (Block(n) - 1) + w]]
          = [w \in Words |-> h[BLOCK * (Block(n) - 1) + w]]
    BY <2>2
  <2> QED BY <1>2, <2>3 DEF Before
<1> QED BY <1>1, <1>2

LEMMA WordsExist ==
  ASSUME NEW f, NEW size \in Nat, NEW k
  PROVE  \E h : AreWords(h, f, size, k, size)
<1> DEFINE S == {m \in Nat : \E h : AreWords(h, f, size, k, m)}
<1>1. 0 \in S
  <2> DEFINE h == [n \in 1..0 |-> 0]
  <2>1. h = [n \in 1..0 |-> WordOf(h, f, size, k, n)]
    OBVIOUS
  <2>2. AreWords(h, f, size, k, 0)
    BY <2>1 DEF AreWords
  <2> QED BY <2>2
<1>2. ASSUME NEW m \in Nat, m \in S
      PROVE  m + 1 \in S
  <2>1. PICK h : AreWords(h, f, size, k, m)
    BY <1>2
  <2> DEFINE g == [n \in 1..(m + 1) |-> IF n <= m THEN h[n] ELSE WordOf(h, f, size, k, n)]
  <2>2. ASSUME NEW n \in 1..(m + 1)
        PROVE  WordOf(g, f, size, k, n) = WordOf(h, f, size, k, n)
    <3>1. \A i \in 1..(n - 1) : g[i] = h[i]
      BY <2>2
    <3> HIDE DEF g
    <3>2. Before(g, f, Block(n)) = Before(h, f, Block(n))
      BY <3>1, <2>2, BeforeIsEarlier
    <3> QED BY <3>2 DEF WordOf
  <2>3. \A n \in 1..m : h[n] = WordOf(h, f, size, k, n)
    BY <2>1 DEF AreWords
  <2>4. \A n \in 1..(m + 1) : g[n] = WordOf(g, f, size, k, n)
    BY <2>2, <2>3
  <2>5. g = [n \in 1..(m + 1) |-> WordOf(g, f, size, k, n)]
    <3>1. g = [n \in 1..(m + 1) |-> g[n]]
      OBVIOUS
    <3> HIDE DEF g
    <3> QED BY <2>4, <3>1
  <2>6. AreWords(g, f, size, k, m + 1)
    BY <2>5 DEF AreWords
  <2> HIDE DEF g
  <2> QED BY <2>6
<1> HIDE DEF S
<1>3. \A m \in Nat : m \in S
  BY <1>1, <1>2, NatInductionSet
<1>4. size \in S
  BY <1>3
<1> QED BY <1>4 DEF S

LEMMA CipherWordsDef ==
  ASSUME NEW f, NEW size \in Nat, NEW k
  PROVE  CipherWords(f, size, k) =
           [n \in 1..size |-> WordOf(CipherWords(f, size, k), f, size, k, n)]
<1>1. \E h : AreWords(h, f, size, k, size)
  BY WordsExist
<1>2. CipherWords(f, size, k) = CHOOSE h : AreWords(h, f, size, k, size)
  BY DEF CipherWords, WordOf, AreWords
<1>3. AreWords(CipherWords(f, size, k), f, size, k, size)
  BY <1>1, <1>2
<1> QED BY <1>3 DEF AreWords
LEMMA WordsGiven ==
  ASSUME NEW f, NEW size \in Nat, NEW k
  PROVE  /\ CipherWords(f, size, k) = [n \in 1..size |-> CipherWords(f, size, k)[n]]
         /\ \A n \in 1..size : CipherWords(f, size, k)[n] =
              Xor(Plain(f, size)[n],
                  PHY_EncryptReq(Before(CipherWords(f, size, k), f, Block(n)), k)[Place(n)])
<1> DEFINE words == CipherWords(f, size, k)
<1>1. words = [n \in 1..size |-> WordOf(words, f, size, k, n)]
  BY CipherWordsDef
<1> HIDE DEF words
<1>2. \A n \in 1..size : words[n] = WordOf(words, f, size, k, n)
  BY <1>1
<1>3. words = [n \in 1..size |-> words[n]]
  BY <1>1
<1> QED BY <1>2, <1>3 DEF words, WordOf

\* What is taken twice is gone.
LEMMA XorTwice ==
  ASSUME NEW x, NEW y
  PROVE  Xor(Xor(x, y), y) = x /\ Xor(y, Xor(x, y)) = x
  BY DEF Xor

LEMMA Appended ==
  ASSUME NEW s, NEW n \in Nat, NEW e, s = [i \in 1..n |-> s[i]]
  PROVE  Append(s, e) = [i \in 1..(n + 1) |-> IF i <= n THEN s[i] ELSE e]
<1>1. s \in Seq({s[i] : i \in 1..n} \cup {e})
  OBVIOUS
<1>2. Len(s) = n
  OBVIOUS
<1> QED BY <1>1, <1>2

LEMMA CipherGiven ==
  ASSUME NEW f, NEW size \in Nat, NEW k
  PROVE  Cipher(f, size, k) =
           [n \in 1..(size + 1) |-> IF n <= size THEN CipherWords(f, size, k)[n]
                                   ELSE Code(LastVector(f, size, k))]
<1> DEFINE words == CipherWords(f, size, k)
           code == Code(LastVector(f, size, k))
<1>1. words = [n \in 1..size |-> words[n]]
  BY WordsGiven
<1> HIDE DEF words, code
<1>2. Append(words, code) = [n \in 1..(size + 1) |-> IF n <= size THEN words[n] ELSE code]
  BY <1>1, Appended
<1> QED BY <1>2 DEF words, code, Cipher

-----------------------------------------------------------------------------
(* The invariant *)

States == {"new", "pending", "process", "confirm", "done"}

IsFrame(r) ==
  /\ r = [way |-> r.way, state |-> r.state, micStatus |-> r.micStatus, keys |-> r.keys,
          plain |-> r.plain, size |-> r.size, payload |-> r.payload]
  /\ r.way \in {"out", "in"} /\ r.state \in States /\ r.keys \in Seq(Nat) /\ r.plain \in Nat

\* The keys that say something of frame f: any one for what goes out, the
\* sender's for what came in.
Matters(f, k) == Under(f, k) /\ (pool[f].way = "in" => k = 1)

\* The payload when its first words have been through.
Through(r, f, offset, k) ==
  IF r.way = "out"
  THEN [n \in 1..r.plain |-> IF n <= offset THEN CipherWords(f, r.plain, k)[n]
                             ELSE Plain(f, r.plain)[n]]
  ELSE [n \in 1..(r.plain + 1) |-> IF n <= offset THEN Plain(f, r.plain)[n]
                                   ELSE Cipher(f, r.plain, 1)[n]]

Untouched(f) ==
  LET r == pool[f] IN
  /\ r.keys = <<>> /\ r.payload = Through(r, f, 0, 1)
  /\ r.size = IF r.way = "out" THEN r.plain ELSE r.plain + 1

UnderWay(f) ==
  LET r == pool[f] IN
  /\ f = secFrame /\ r.size = r.plain /\ (secEncrypts <=> r.way = "out")
  /\ secOffset \in Nat /\ secSize \in Nat /\ secOffset + secSize = r.plain

\* Between two blocks the vector is the block before; after the last one it is
\* what the code is made of.
Halfway(f) ==
  LET r == pool[f] IN
  /\ UnderWay(f)
  /\ secOffset = BLOCK * Len(r.keys) /\ (secSize = 0 => r.plain = 0)
  /\ \A k \in Nat : Matters(f, k) =>
       /\ r.payload = Through(r, f, secOffset, k)
       /\ secVector = Before(CipherWords(f, r.plain, k), f, Len(r.keys))

Finished(f) ==
  LET r == pool[f] IN
  /\ UnderWay(f) /\ secSize = 0
  /\ \A k \in Nat : Matters(f, k) =>
       /\ r.payload = Through(r, f, r.plain, k)
       /\ secVector = LastVector(f, r.plain, k)

Right(f) ==
  LET r == pool[f] IN
  \A k \in Nat : Matters(f, k) =>
    IF r.way = "out" THEN r.payload = Cipher(f, r.plain, k)
    ELSE r.micStatus /\ SubSeq(r.payload, 1, r.size) = Plain(f, r.plain)

FrameOK(f) ==
  /\ pool[f].state \in {"new", "pending"} => Untouched(f)
  /\ pool[f].state = "process" => Halfway(f)
  /\ pool[f].state = "confirm" => Finished(f)
  /\ pool[f].state = "done" => Right(f)

Shape ==
  /\ key \in Nat /\ pool = [f \in Pool |-> pool[f]] /\ \A f \in Pool : IsFrame(pool[f])
  /\ secFrame \in Pool \cup {0}
  /\ \A f \in Pool : pool[f].state \in {"process", "confirm"} <=> f = secFrame

SecurityInv == Shape /\ \A f \in Pool : FrameOK(f)

LEMMA PoolNotZero == 0 \notin Pool
  BY DEF Pool

LEMMA SecurityInvInit == NwkSecurityInit => SecurityInv
<1> SUFFICES ASSUME NwkSecurityInit PROVE SecurityInv
  OBVIOUS
<1>1. PICK ways \in [Pool -> {"out", "in"}], sizes \in [Pool -> Sizes] :
        pool = [f \in Pool |-> NewFrame(f, ways[f], sizes[f])]
  BY DEF NwkSecurityInit
<1>2. key = 1 /\ secFrame = 0
  BY DEF NwkSecurityInit, nwkSecurityInit
<1>3. ASSUME NEW f \in Pool
      PROVE  IsFrame(pool[f]) /\ pool[f].state = "new" /\ Untouched(f)
  <2> DEFINE w == ways[f]
             p == sizes[f]
  <2>1. w \in {"out", "in"} /\ p \in Nat
    BY <1>1, NwkSecurityAssumption
  <2>2. pool[f] = NewFrame(f, w, p)
    BY <1>1
  <2> HIDE DEF w, p
  <2>3. /\ pool[f].way = w /\ pool[f].plain = p /\ pool[f].keys = <<>> /\ pool[f].state = "new"
        /\ pool[f].size = IF w = "out" THEN p ELSE p + 1
        /\ pool[f].payload = IF w = "out" THEN Plain(f, p) ELSE Cipher(f, p, 1)
    BY <2>2 DEF NewFrame
  <2>4. IsFrame(pool[f])
    BY <2>1, <2>2 DEF NewFrame, IsFrame, States
  <2>5. Plain(f, p) = [n \in 1..p |-> Plain(f, p)[n]]
    BY DEF Plain
  <2>6. Cipher(f, p, 1) = [n \in 1..(p + 1) |-> Cipher(f, p, 1)[n]]
    BY <2>1, CipherGiven
  <2>7. pool[f].payload = Through(pool[f], f, 0, 1)
    <3> DEFINE x == Plain(f, p)
               y == Cipher(f, p, 1)
               z == CipherWords(f, p, 1)
    <3> HIDE DEF x, y, z
    <3>1. x = [n \in 1..p |-> x[n]] /\ y = [n \in 1..(p + 1) |-> y[n]]
      BY <2>5, <2>6 DEF x, y
    <3>2. /\ x = [n \in 1..p |-> IF n <= 0 THEN z[n] ELSE x[n]]
          /\ y = [n \in 1..(p + 1) |-> IF n <= 0 THEN x[n] ELSE y[n]]
      <4>1. \A n \in 1..p : ~(n <= 0)
        BY <2>1
      <4>2. \A n \in 1..(p + 1) : ~(n <= 0)
        BY <2>1
      <4> QED BY <3>1, <4>1, <4>2
    <3> QED BY <3>2, <2>3, <2>1 DEF Through, x, y, z
  <2> QED BY <2>3, <2>4, <2>7 DEF Untouched
<1>4. pool = [f \in Pool |-> pool[f]]
  BY <1>1
<1> QED BY <1>2, <1>3, <1>4, PoolNotZero DEF SecurityInv, Shape, FrameOK

-----------------------------------------------------------------------------
(* The steps *)

LEMMA ShapeGives ==
  ASSUME Shape, NEW f \in Pool
  PROVE  /\ pool[f].way \in {"out", "in"} /\ pool[f].keys \in Seq(Nat) /\ pool[f].plain \in Nat
         /\ pool[f].state \in {"process", "confirm"} <=> f = secFrame
  BY DEF Shape, IsFrame

\* What the security module does not work on stays as it is.
LEMMA OthersStay ==
  ASSUME NEW f, FrameOK(f), pool'[f] = pool[f], pool[f].state \notin {"process", "confirm"}
  PROVE  FrameOK(f)'
<1>1. Untouched(f) => Untouched(f)'
  BY DEF Untouched, Through
<1>2. Right(f) => Right(f)'
  BY DEF Right, Matters, Under
<1> QED BY <1>1, <1>2 DEF FrameOK

LEMMA AllStay ==
  ASSUME NEW f, FrameOK(f), UNCHANGED <<pool, secFrame, secSize, secOffset, secEncrypts, secVector>>
  PROVE  FrameOK(f)'
<1>1. Untouched(f) => Untouched(f)'
  BY DEF Untouched, Through
<1>2. Right(f) => Right(f)'
  BY DEF Right, Matters, Under
<1>3. Halfway(f) => Halfway(f)'
  BY DEF Halfway, UnderWay, Matters, Under, Through
<1>4. Finished(f) => Finished(f)'
  BY DEF Finished, UnderWay, Matters, Under, Through
<1> QED BY <1>1, <1>2, <1>3, <1>4 DEF FrameOK

LEMMA KeyStep ==
  ASSUME SecurityInv, NWK_SetSecurityKey
  PROVE  SecurityInv'
<1>1. UNCHANGED <<pool, secFrame, secSize, secOffset, secEncrypts, secVector>> /\ key' \in Nat
  BY DEF NWK_SetSecurityKey, SecurityInv, Shape
<1>2. Shape'
  BY <1>1 DEF SecurityInv, Shape, IsFrame
<1>3. \A f \in Pool : FrameOK(f)'
  BY <1>1, AllStay DEF SecurityInv
<1> QED BY <1>2, <1>3 DEF SecurityInv

LEMMA StayStep ==
  ASSUME SecurityInv, UNCHANGED nwkSecurityVars
  PROVE  SecurityInv'
<1>1. UNCHANGED <<key, pool, secFrame, secSize, secOffset, secEncrypts, secVector>>
  BY DEF nwkSecurityVars
<1>2. Shape'
  BY <1>1 DEF SecurityInv, Shape, IsFrame
<1>3. \A f \in Pool : FrameOK(f)'
  BY <1>1, AllStay DEF SecurityInv
<1> QED BY <1>2, <1>3 DEF SecurityInv

LEMMA ProcessStep ==
  ASSUME SecurityInv, NEW f \in Pool, nwkSecurityProcess(f)
  PROVE  SecurityInv'
<1>1. /\ pool[f].state = "new" /\ pool' = [pool EXCEPT ![f].state = "pending"]
      /\ UNCHANGED <<key, secFrame>>
  BY DEF nwkSecurityProcess
<1>2. pool = [g \in Pool |-> pool[g]] /\ IsFrame(pool[f])
  BY DEF SecurityInv, Shape
<1> DEFINE r == pool[f]
<1>3. pool'[f] = [way |-> r.way, state |-> "pending", micStatus |-> r.micStatus, keys |-> r.keys,
                  plain |-> r.plain, size |-> r.size, payload |-> r.payload]
  BY <1>1, <1>2 DEF IsFrame
<1>4. \A g \in Pool : g # f => pool'[g] = pool[g]
  BY <1>1, <1>2
<1>5. pool' = [g \in Pool |-> pool'[g]]
  BY <1>1, <1>2
<1>6. f # secFrame
  BY <1>1, ShapeGives DEF SecurityInv
<1>7. IsFrame(pool[f])'
  BY <1>3, <1>2 DEF IsFrame, States
<1>8. \A g \in Pool : IsFrame(pool[g])'
  <2> TAKE g \in Pool
  <2>1. CASE g = f
    BY <2>1, <1>7
  <2>2. CASE g # f
    BY <2>2, <1>4 DEF SecurityInv, Shape, IsFrame
  <2> QED BY <2>1, <2>2
<1>9. \A g \in Pool : pool'[g].state \in {"process", "confirm"} <=> g = secFrame
  <2> TAKE g \in Pool
  <2>1. CASE g = f
    BY <2>1, <1>3, <1>6
  <2>2. CASE g # f
    BY <2>2, <1>4 DEF SecurityInv, Shape
  <2> QED BY <2>1, <2>2
<1>10. Shape'
  BY <1>1, <1>5, <1>8, <1>9 DEF SecurityInv, Shape
<1>11. FrameOK(f)'
  <2>1. Untouched(f)
    BY <1>1 DEF SecurityInv, FrameOK
  <2>2. Untouched(f)'
    BY <2>1, <1>3 DEF Untouched, Through
  <2> QED BY <2>2, <1>3 DEF FrameOK
<1>12. \A g \in Pool : FrameOK(g)'
  <2> TAKE g \in Pool
  <2>1. CASE g = f
    BY <2>1, <1>11
  <2>2. CASE g # f /\ g # secFrame
    BY <2>2, <1>4, OthersStay, ShapeGives DEF SecurityInv
  <2>3. CASE g # f /\ g = secFrame
    <3>1. FrameOK(g) /\ pool'[g] = pool[g]
      BY <2>3, <1>4 DEF SecurityInv
    <3>2. UNCHANGED <<secFrame, secSize, secOffset, secEncrypts, secVector>>
      BY DEF nwkSecurityProcess
    <3>3. Halfway(g) => Halfway(g)'
      BY <3>1, <3>2 DEF Halfway, UnderWay, Matters, Under, Through
    <3>4. Finished(g) => Finished(g)'
      BY <3>1, <3>2 DEF Finished, UnderWay, Matters, Under, Through
    <3>5. pool[g].state \in {"process", "confirm"}
      BY <2>3, ShapeGives DEF SecurityInv
    <3> QED BY <3>1, <3>3, <3>4, <3>5 DEF FrameOK
  <2> QED BY <2>1, <2>2, <2>3
<1> QED BY <1>10, <1>12 DEF SecurityInv

\* Several fields of a frame are changed one by one.
Rec(w, st, mic, ks, pl, sz, text) ==
  [way |-> w, state |-> st, micStatus |-> mic, keys |-> ks, plain |-> pl, size |-> sz,
   payload |-> text]

Starts(r, a, b) == [r EXCEPT !.state = a, !.size = b]
Turns(r, a, b, c) == [r EXCEPT !.payload = a, !.keys = b, !.state = c]
Ends(r, a, b, c, d) == [r EXCEPT !.state = a, !.payload = b, !.size = c, !.micStatus = d]

LEMMA RecStarts ==
  ASSUME NEW r, NEW w, NEW st, NEW mic, NEW ks, NEW pl, NEW sz, NEW text,
         r = Rec(w, st, mic, ks, pl, sz, text),
         NEW a, NEW b
  PROVE  Starts(r, a, b) = Rec(w, a, mic, ks, pl, b, text)
<1> DEFINE r1 == [r EXCEPT !.state = a]
<1>1. Starts(r, a, b) = [r1 EXCEPT !.size = b]
  BY DEF Starts
<1>2. r1 = Rec(w, a, mic, ks, pl, sz, text)
  BY DEF Rec
<1> HIDE DEF r1
<1>3. [r1 EXCEPT !.size = b] = Rec(w, a, mic, ks, pl, b, text)
  BY <1>2 DEF Rec
<1> QED BY <1>1, <1>3

LEMMA RecTurns ==
  ASSUME NEW r, NEW w, NEW st, NEW mic, NEW ks, NEW pl, NEW sz, NEW text,
         r = Rec(w, st, mic, ks, pl, sz, text),
         NEW a, NEW b, NEW c
  PROVE  Turns(r, a, b, c) = Rec(w, c, mic, b, pl, sz, a)
<1> DEFINE r1 == [r EXCEPT !.payload = a]
           r2 == [r1 EXCEPT !.keys = b]
<1>1. Turns(r, a, b, c) = [r2 EXCEPT !.state = c]
  BY DEF Turns
<1>2. r1 = Rec(w, st, mic, ks, pl, sz, a)
  BY DEF Rec
<1>3. r2 = Rec(w, st, mic, b, pl, sz, a)
  <2> HIDE DEF r1
  <2> QED BY <1>2 DEF Rec
<1>4. [r2 EXCEPT !.state = c] = Rec(w, c, mic, b, pl, sz, a)
  <2> HIDE DEF r2
  <2> QED BY <1>3 DEF Rec
<1> QED BY <1>1, <1>4

LEMMA RecEnds ==
  ASSUME NEW r, NEW w, NEW st, NEW mic, NEW ks, NEW pl, NEW sz, NEW text,
         r = Rec(w, st, mic, ks, pl, sz, text),
         NEW a, NEW b, NEW c, NEW d
  PROVE  Ends(r, a, b, c, d) = Rec(w, a, d, ks, pl, c, b)
<1> DEFINE r1 == [r EXCEPT !.state = a]
           r2 == [r1 EXCEPT !.payload = b]
           r3 == [r2 EXCEPT !.size = c]
<1>1. Ends(r, a, b, c, d) = [r3 EXCEPT !.micStatus = d]
  BY DEF Ends
<1>2. r1 = Rec(w, a, mic, ks, pl, sz, text)
  BY DEF Rec
<1>3. r2 = Rec(w, a, mic, ks, pl, sz, b)
  <2> HIDE DEF r1
  <2> QED BY <1>2 DEF Rec
<1>4. r3 = Rec(w, a, mic, ks, pl, c, b)
  <2> HIDE DEF r2
  <2> QED BY <1>3 DEF Rec
<1>5. [r3 EXCEPT !.micStatus = d] = Rec(w, a, d, ks, pl, c, b)
  <2> HIDE DEF r3
  <2> QED BY <1>4 DEF Rec
<1> QED BY <1>1, <1>5

\* One frame changes, and with it which one is worked on.
LEMMA ShapeStep ==
  ASSUME SecurityInv, NEW f \in Pool, NEW r, pool' = [pool EXCEPT ![f] = r], IsFrame(r),
         key' \in Nat, secFrame' \in {0, f}, secFrame \in {0, f},
         r.state \in {"process", "confirm"} <=> secFrame' = f,
         FrameOK(f)'
  PROVE  SecurityInv'
<1>1. pool = [g \in Pool |-> pool[g]]
  BY DEF SecurityInv, Shape
<1>2. pool'[f] = r /\ \A g \in Pool : g # f => pool'[g] = pool[g]
  BY <1>1
<1>3. pool' = [g \in Pool |-> pool'[g]]
  BY <1>1
<1>4. \A g \in Pool : g # f => g # secFrame /\ g # secFrame'
  BY PoolNotZero
<1>5. \A g \in Pool : IsFrame(pool[g])'
  <2> TAKE g \in Pool
  <2>1. CASE g = f
    BY <2>1, <1>2 DEF IsFrame
  <2>2. CASE g # f
    BY <2>2, <1>2 DEF SecurityInv, Shape, IsFrame
  <2> QED BY <2>1, <2>2
<1>6. \A g \in Pool : pool'[g].state \in {"process", "confirm"} <=> g = secFrame'
  <2> TAKE g \in Pool
  <2>1. CASE g = f
    BY <2>1, <1>2
  <2>2. CASE g # f
    BY <2>2, <1>2, <1>4, ShapeGives DEF SecurityInv
  <2> QED BY <2>1, <2>2
<1>7. Shape'
  BY <1>3, <1>5, <1>6 DEF Shape
<1>8. \A g \in Pool : FrameOK(g)'
  <2> TAKE g \in Pool
  <2>1. CASE g = f
    BY <2>1
  <2>2. CASE g # f
    <3>1. pool[g].state \notin {"process", "confirm"}
      BY <2>2, <1>4, ShapeGives DEF SecurityInv
    <3>2. FrameOK(g) /\ pool'[g] = pool[g]
      BY <2>2, <1>2 DEF SecurityInv
    <3> QED BY <3>1, <3>2, OthersStay
  <2> QED BY <2>1, <2>2
<1> QED BY <1>7, <1>8 DEF SecurityInv

LEMMA StartStep ==
  ASSUME SecurityInv, NEW f \in Pool, secFrame = 0, pool[f].state = "pending",
         nwkSecurityStart(f)
  PROVE  SecurityInv'
<1> DEFINE r == pool[f]
           p == r.plain
           s == [way |-> r.way, state |-> "process", micStatus |-> r.micStatus, keys |-> r.keys,
                 plain |-> p, size |-> p, payload |-> r.payload]
<1>1. IsFrame(r) /\ pool = [g \in Pool |-> pool[g]] /\ r.way \in {"out", "in"} /\ p \in Nat
  BY DEF SecurityInv, Shape, IsFrame
<1>2. /\ r.keys = <<>> /\ r.payload = Through(r, f, 0, 1)
      /\ r.size = IF r.way = "out" THEN p ELSE p + 1
  BY DEF SecurityInv, FrameOK, Untouched
<1>3. /\ secFrame' = f /\ secVector' = HeaderVector(f) /\ secEncrypts' = (r.way = "out")
      /\ pool' = [pool EXCEPT ![f].state = "process",
                              ![f].size = IF secEncrypts' THEN @ ELSE @ - 1]
      /\ secSize' = pool'[f].size /\ secOffset' = 0 /\ key' = key
  BY DEF nwkSecurityStart
<1>10. secEncrypts' <=> r.way = "out"
  BY <1>3, Zenon
<1>4. pool' = [pool EXCEPT ![f] = s]
  <2> DEFINE size == IF secEncrypts' THEN r.size ELSE r.size - 1
  <2>1. size = p
    <3>1. CASE r.way = "out"
      <4>1. secEncrypts'
        BY <3>1, <1>10
      <4> QED BY <4>1, <3>1, <1>2
    <3>2. CASE r.way # "out"
      <4>1. ~secEncrypts'
        BY <3>2, <1>10
      <4>2. size = r.size - 1 /\ r.size = p + 1
        BY <4>1, <3>2, <1>2
      <4> HIDE DEF size, r
      <4> QED BY <4>2, <1>1
    <3> QED BY <3>1, <3>2
  <2>2. pool' = [pool EXCEPT ![f] = Starts(r, "process", size)]
    BY <1>1, <1>3 DEF Starts
  <2> HIDE DEF size
  <2>3. Starts(r, "process", size) = s
    <3>1. r = Rec(r.way, r.state, r.micStatus, r.keys, p, r.size, r.payload)
      BY <1>1 DEF IsFrame, Rec
    <3>2. s = Rec(r.way, "process", r.micStatus, r.keys, p, p, r.payload)
      BY DEF Rec
    <3> HIDE DEF r, p, s
    <3>3. Starts(r, "process", size)
            = Rec(r.way, "process", r.micStatus, r.keys, p, size, r.payload)
      BY <3>1, RecStarts
    <3> QED BY <2>1, <3>2, <3>3
  <2> QED BY <2>2, <2>3
<1>5. pool'[f] = s
  BY <1>4, <1>1
<1>6. IsFrame(s)
  BY <1>1 DEF IsFrame, States
<1>7. FrameOK(f)'
  <2>1. secSize' = p
    <3>1. s.size = p
      OBVIOUS
    <3>2. secSize' = pool'[f].size
      BY <1>3
    <3> HIDE DEF s
    <3> QED BY <1>5, <3>1, <3>2
  <2>2. UnderWay(f)'
    <3>1. s.size = s.plain /\ s.plain = p /\ s.way = r.way
      OBVIOUS
    <3>2. secEncrypts' <=> s.way = "out"
      BY <3>1, <1>10
    <3>3. f = secFrame' /\ secOffset' = 0
      BY <1>3
    <3> HIDE DEF s
    <3>4. secOffset' + secSize' = s.plain /\ secOffset' \in Nat /\ secSize' \in Nat
      BY <1>1, <2>1, <3>1, <3>3
    <3> QED BY <1>5, <3>1, <3>2, <3>3, <3>4 DEF UnderWay
  <2>3. secOffset' = BLOCK * Len(s.keys) /\ Len(s.keys) = 0
    BY <1>2, <1>3 DEF BLOCK
  <2>4. ASSUME NEW k \in Nat, s.way = "in" => k = 1
        PROVE  s.payload = Through(s, f, 0, k)
    <3>1. CASE r.way = "in"
      BY <3>1, <2>4, <1>2 DEF Through
    <3>2. CASE r.way = "out"
      <4> DEFINE x == CipherWords(f, p, 1)
                 y == CipherWords(f, p, k)
                 t == Plain(f, p)
      <4> HIDE DEF x, y, t
      <4>1. r.payload = [n \in 1..p |-> IF n <= 0 THEN x[n] ELSE t[n]]
        BY <3>2, <1>2 DEF Through, x, t
      <4>2. [n \in 1..p |-> IF n <= 0 THEN x[n] ELSE t[n]]
              = [n \in 1..p |-> IF n <= 0 THEN y[n] ELSE t[n]]
        <5>1. \A n \in 1..p : ~(n <= 0)
          BY <1>1
        <5> QED BY <5>1
      <4> QED BY <3>2, <4>1, <4>2 DEF Through, y, t
    <3> QED BY <3>1, <3>2, <1>1
  <2>6. \A k : Before(CipherWords(f, p, k), f, 0) = HeaderVector(f)
    BY DEF Before
  <2>7. Halfway(f)'
    <3>1. \A k \in Nat : Matters(f, k)' =>
            /\ s.payload = Through(s, f, secOffset', k)
            /\ secVector' = Before(CipherWords(f, s.plain, k), f, Len(s.keys))
      <4> SUFFICES ASSUME NEW k \in Nat, Matters(f, k)'
                   PROVE  /\ s.payload = Through(s, f, secOffset', k)
                          /\ secVector' = Before(CipherWords(f, s.plain, k), f, Len(s.keys))
        OBVIOUS
      <4>1. s.way = "in" => k = 1
        BY <1>5 DEF Matters
      <4> HIDE DEF s
      <4>2. s.payload = Through(s, f, secOffset', k)
        BY <4>1, <2>4, <1>3
      <4>3. s.plain = p
        BY DEF s
      <4> QED BY <4>2, <4>3, <2>3, <2>6, <1>3
    <3>2. secSize' = 0 => s.plain = 0
      BY <2>1
    <3> HIDE DEF s
    <3> QED BY <2>2, <2>3, <3>1, <3>2, <1>5 DEF Halfway
  <2> QED BY <2>7, <1>5 DEF FrameOK
<1>8. key' \in Nat
  BY <1>3 DEF SecurityInv, Shape
<1>9. s.state \in {"process", "confirm"}
  OBVIOUS
<1> HIDE DEF s
<1> QED BY <1>3, <1>4, <1>6, <1>7, <1>8, <1>9, ShapeStep

\* Word w of block b is word BLOCK * b + w.
LEMMA PlaceOf ==
  ASSUME NEW b \in Nat, NEW w \in Words
  PROVE  Block(BLOCK * b + w) = b /\ Place(BLOCK * b + w) = w
<1>1. w \in {1, 2, 3, 4}
  BY DEF Words, BLOCK
<1>2. /\ (4 * b + 1 - 1) \div 4 = b /\ (4 * b + 1 - 1) % 4 = 0
      /\ (4 * b + 2 - 1) \div 4 = b /\ (4 * b + 2 - 1) % 4 = 1
      /\ (4 * b + 3 - 1) \div 4 = b /\ (4 * b + 3 - 1) % 4 = 2
      /\ (4 * b + 4 - 1) \div 4 = b /\ (4 * b + 4 - 1) % 4 = 3
  OBVIOUS
<1> QED BY <1>1, <1>2 DEF Block, Place, BLOCK

\* A block under key k, from the vector it begins with.
LEMMA BlockTurns ==
  ASSUME NEW f, NEW size \in Nat, NEW k, NEW b \in Nat, NEW w \in Words, BLOCK * b + w <= size
  PROVE  CipherWords(f, size, k)[BLOCK * b + w] =
           Xor(Plain(f, size)[BLOCK * b + w],
               PHY_EncryptReq(Before(CipherWords(f, size, k), f, b), k)[w])
<1>1. BLOCK * b + w \in 1..size
  BY DEF BLOCK, Words
<1>2. Block(BLOCK * b + w) = b /\ Place(BLOCK * b + w) = w
  BY PlaceOf
<1> QED BY <1>1, <1>2, WordsGiven

\* The vector after a block of so many words that begins behind the offset.
AfterBlock(words, vector, offset, block) ==
  [w \in Words |-> IF w > block THEN vector[w] ELSE words[offset + w]]

\* The last block, whole or not, leaves the vector as it is defined.
LEMMA LastBlock ==
  ASSUME NEW f, NEW size \in Nat, NEW k, NEW b \in Nat, NEW rest \in Nat,
         BLOCK * b + rest = size, rest <= BLOCK, rest = 0 => size = 0
  PROVE  LastVector(f, size, k) =
           AfterBlock(CipherWords(f, size, k),
                      PHY_EncryptReq(Before(CipherWords(f, size, k), f, b), k), BLOCK * b, rest)
<1> DEFINE words == CipherWords(f, size, k)
           last == IF size = 0 THEN 0 ELSE Block(size)
<1>1. last = b
  <2>1. CASE rest = 0
    BY <2>1 DEF BLOCK
  <2>2. CASE rest # 0
    <3>1. rest \in Words /\ size # 0
      BY <2>2 DEF Words, BLOCK
    <3> QED BY <3>1, PlaceOf
  <2> QED BY <2>1, <2>2
<1>2. LastVector(f, size, k) =
        [w \in Words |-> IF BLOCK * last + w <= size THEN words[BLOCK * last + w]
                         ELSE PHY_EncryptReq(Before(words, f, last), k)[w]]
  BY DEF LastVector
<1>3. \A w \in Words : w > rest <=> ~(BLOCK * b + w <= size)
  BY DEF Words, BLOCK
<1> HIDE DEF words, last
<1>4. \A w \in Words :
        (IF BLOCK * b + w <= size THEN words[BLOCK * b + w]
         ELSE PHY_EncryptReq(Before(words, f, b), k)[w])
          = (IF w > rest THEN PHY_EncryptReq(Before(words, f, b), k)[w]
             ELSE words[BLOCK * b + w])
  BY <1>3
<1>5. [w \in Words |-> IF BLOCK * b + w <= size THEN words[BLOCK * b + w]
                       ELSE PHY_EncryptReq(Before(words, f, b), k)[w]]
        = [w \in Words |-> IF w > rest THEN PHY_EncryptReq(Before(words, f, b), k)[w]
                           ELSE words[BLOCK * b + w]]
  BY <1>4
<1> QED BY <1>1, <1>2, <1>5 DEF words, AfterBlock

\* The payload after the block, which words of it were turned.
TextAfter(payload, vector, offset, block) ==
  [n \in DOMAIN payload |->
     IF n - offset \in 1..block
       THEN Xor(payload[offset + (n - offset)], vector[n - offset]) ELSE payload[n]]

TurnsTo(r, vector, words, offset, block) ==
  \A w \in 1..block :
    /\ r.way = "out" => Xor(r.payload[offset + w], vector[w]) = words[offset + w]
    /\ r.way = "in" => Xor(vector[w], Xor(r.payload[offset + w], vector[w])) = words[offset + w]

\* One block of a payload: what goes out becomes the cipher's words, what came
\* in becomes what was sent, and the vector gets the cipher's words either way.
LEMMA TextTurns ==
  ASSUME NEW f, NEW r, NEW size \in Nat, NEW k, NEW b \in Nat, NEW block \in 0..BLOCK,
         BLOCK * b + block <= size, r.plain = size, r.way \in {"out", "in"}, r.way = "in" => k = 1,
         r.payload = Through(r, f, BLOCK * b, k),
         NEW vector, vector = PHY_EncryptReq(Before(CipherWords(f, size, k), f, b), k)
  PROVE  /\ TurnsTo(r, vector, CipherWords(f, size, k), BLOCK * b, block)
         /\ TextAfter(r.payload, vector, BLOCK * b, block) = Through(r, f, BLOCK * b + block, k)
<1> DEFINE words == CipherWords(f, size, k)
           text == Plain(f, size)
           cipher == Cipher(f, size, 1)
           o == BLOCK * b
<1>1. o \in Nat /\ block \in Nat /\ o + block <= size /\ 1..block \subseteq Words
  BY DEF BLOCK, Words
<1>2. \A w \in 1..block : words[o + w] = Xor(text[o + w], vector[w])
  BY <1>1, BlockTurns
<1>3. r.way = "in" => \A n \in 1..size : cipher[n] = words[n]
  BY CipherGiven
<1>4. /\ r.way = "out" => r.payload = [n \in 1..size |-> IF n <= o THEN words[n] ELSE text[n]]
      /\ r.way = "in" =>
           r.payload = [n \in 1..(size + 1) |-> IF n <= o THEN text[n] ELSE cipher[n]]
  BY DEF Through
<1>5. \A w \in 1..block : o + w \in 1..size /\ ~(o + w <= o)
  BY <1>1
<1> HIDE DEF words, text, cipher, o
<1>6. \A w \in 1..block :
        /\ r.way = "out" => r.payload[o + w] = text[o + w]
        /\ r.way = "in" => r.payload[o + w] = words[o + w]
  <2> TAKE w \in 1..block
  <2>1. o + w \in 1..size /\ ~(o + w <= o)
    BY <1>5
  <2>2. o + w \in 1..(size + 1)
    BY <2>1
  <2> QED BY <2>1, <2>2, <1>3, <1>4
<1>7. ASSUME NEW w \in 1..block
      PROVE  /\ r.way = "out" => Xor(r.payload[o + w], vector[w]) = words[o + w]
             /\ r.way = "in" => /\ Xor(r.payload[o + w], vector[w]) = text[o + w]
                                /\ Xor(vector[w], Xor(r.payload[o + w], vector[w])) = words[o + w]
  <2>1. CASE r.way = "out"
    BY <2>1, <1>2, <1>6
  <2>2. CASE r.way = "in"
    <3>1. r.payload[o + w] = Xor(text[o + w], vector[w])
      BY <2>2, <1>2, <1>6
    <3>2. Xor(r.payload[o + w], vector[w]) = text[o + w]
      BY <3>1, XorTwice
    <3>3. Xor(vector[w], text[o + w]) = Xor(text[o + w], vector[w])
      BY DEF Xor
    <3> QED BY <2>2, <3>2, <3>3, <1>2
  <2> QED BY <2>1, <2>2
<1> DEFINE turned == [n \in DOMAIN r.payload |->
              IF n - o \in 1..block
                THEN Xor(r.payload[o + (n - o)], vector[n - o]) ELSE r.payload[n]]
<1>8. CASE r.way = "out"
  <2>1. DOMAIN r.payload = 1..size
    BY <1>8, <1>4
  <2>2. \A n \in 1..size : turned[n] = IF n <= o + block THEN words[n] ELSE text[n]
    <3> TAKE n \in 1..size
    <3>1. CASE n - o \in 1..block
      <4>1. o + (n - o) = n /\ n <= o + block
        BY <3>1, <1>1
      <4> QED BY <4>1, <3>1, <2>1, <1>7, <1>8
    <3>2. CASE n - o \notin 1..block
      <4>1. n <= o + block <=> n <= o
        BY <3>2, <1>1
      <4> QED BY <4>1, <3>2, <2>1, <1>4, <1>8
    <3> QED BY <3>1, <3>2
  <2>3. turned = [n \in 1..size |-> IF n <= o + block THEN words[n] ELSE text[n]]
    <3>1. turned = [n \in 1..size |-> turned[n]]
      BY <2>1
    <3> HIDE DEF turned
    <3> QED BY <2>2, <3>1
  <2> HIDE DEF turned
  <2>4. turned = Through(r, f, o + block, k)
    BY <2>3, <1>8 DEF Through, words, text
  <2> QED BY <2>4, <1>7, <1>8 DEF turned, words, text, o, TextAfter, TurnsTo
<1>9. CASE r.way = "in"
  <2>1. DOMAIN r.payload = 1..(size + 1)
    BY <1>9, <1>4
  <2>2. \A n \in 1..(size + 1) : turned[n] = IF n <= o + block THEN text[n] ELSE cipher[n]
    <3> TAKE n \in 1..(size + 1)
    <3>1. CASE n - o \in 1..block
      <4>1. o + (n - o) = n /\ n <= o + block
        BY <3>1, <1>1
      <4> QED BY <4>1, <3>1, <2>1, <1>7, <1>9
    <3>2. CASE n - o \notin 1..block
      <4>1. n <= o + block <=> n <= o
        BY <3>2, <1>1
      <4> QED BY <4>1, <3>2, <2>1, <1>4, <1>9
    <3> QED BY <3>1, <3>2
  <2>3. turned = [n \in 1..(size + 1) |-> IF n <= o + block THEN text[n] ELSE cipher[n]]
    <3>1. turned = [n \in 1..(size + 1) |-> turned[n]]
      BY <2>1
    <3> HIDE DEF turned
    <3> QED BY <2>2, <3>1
  <2> HIDE DEF turned
  <2>4. turned = Through(r, f, o + block, k)
    BY <2>3, <1>9 DEF Through, text, cipher
  <2> QED BY <2>4, <1>7, <1>9 DEF turned, words, text, o, TextAfter, TurnsTo
<1> QED BY <1>8, <1>9

LEMMA BeforeNext ==
  ASSUME NEW words, NEW f, NEW b \in Nat
  PROVE  Before(words, f, b + 1) = [w \in Words |-> words[BLOCK * b + w]]
<1> DEFINE n == b + 1
<1>1. n # 0 /\ n - 1 = b
  OBVIOUS
<1> HIDE DEF n
<1>2. Before(words, f, n) = [w \in Words |-> words[BLOCK * (n - 1) + w]]
  BY <1>1 DEF Before
<1> QED BY <1>1, <1>2 DEF n

\* A block that is turned is followed by the next one, or was the last one.
LEMMA BlockStep ==
  ASSUME SecurityInv, secFrame # 0, pool[secFrame].state = "process", SYS_EncryptReq
  PROVE  SecurityInv'
<1> DEFINE f == secFrame
           r == pool[f]
           p == r.plain
           b == Len(r.keys)
           block == Smaller(secSize, BLOCK)
           vector == PHY_EncryptReq(secVector, key)
           text == TextAfter(r.payload, vector, secOffset, block)
           state == IF secSize' > 0 THEN "process" ELSE "confirm"
           s == Rec(r.way, state, r.micStatus, Append(r.keys, key), p, r.size, text)
<1>1. /\ f \in Pool /\ IsFrame(r) /\ pool = [g \in Pool |-> pool[g]] /\ r.way \in {"out", "in"}
      /\ p \in Nat /\ key \in Nat /\ r.keys \in Seq(Nat) /\ b \in Nat
  <2>1. f \in Pool
    BY DEF SecurityInv, Shape
  <2>2. IsFrame(r)
    BY <2>1 DEF SecurityInv, Shape
  <2> QED BY <2>1, <2>2 DEF SecurityInv, Shape, IsFrame
<1>2. Halfway(f)
  BY <1>1 DEF SecurityInv, FrameOK
<1>3. /\ secVector' = [w \in Words |->
             IF w > block THEN vector[w]
             ELSE IF secEncrypts THEN Xor(r.payload[secOffset + w], vector[w])
                  ELSE Xor(vector[w], Xor(r.payload[secOffset + w], vector[w]))]
      /\ secOffset' = secOffset + block /\ secSize' = secSize - block
      /\ pool' = [pool EXCEPT
           ![f].payload = text, ![f].keys = Append(@, key),
           ![f].state = IF secSize' > 0 THEN "process" ELSE "confirm"]
      /\ UNCHANGED <<key, secFrames, secFrame, secEncrypts>>
  BY DEF SYS_EncryptReq, SYS_EncryptConf, TextAfter
<1>4. pool' = [pool EXCEPT ![f] = s]
  <2>1. pool' = [pool EXCEPT ![f] = Turns(r, text, Append(r.keys, key), state)]
    BY <1>1, <1>3 DEF Turns
  <2>2. r = Rec(r.way, r.state, r.micStatus, r.keys, p, r.size, r.payload)
    BY <1>2, <1>1 DEF IsFrame, Rec
  <2> HIDE DEF r, p, text, state
  <2>3. Turns(r, text, Append(r.keys, key), state) = s
    BY <2>2, RecTurns
  <2> QED BY <2>1, <2>3
<1>5. /\ r.size = p /\ (secEncrypts <=> r.way = "out")
      /\ secOffset \in Nat /\ secSize \in Nat /\ secOffset + secSize = p
      /\ secOffset = BLOCK * b /\ (secSize = 0 => p = 0)
  BY <1>2 DEF Halfway, UnderWay
<1>6. /\ block \in 0..BLOCK /\ block <= secSize /\ (secSize > BLOCK => block = BLOCK)
      /\ (secSize <= BLOCK => block = secSize)
  BY <1>5 DEF Smaller, BLOCK
<1>7. /\ s.way = r.way /\ s.state = state /\ s.keys = Append(r.keys, key) /\ s.plain = p
      /\ s.size = p /\ s.payload = text
  BY <1>5 DEF Rec
<1>8. pool'[f] = s
  BY <1>1, <1>4
<1>9. s.keys \in Seq(Nat) /\ Len(s.keys) = b + 1
  <2> DEFINE ks == r.keys
  <2>1. ks \in Seq(Nat) /\ key \in Nat
    BY <1>1
  <2> HIDE DEF ks
  <2>2. Append(ks, key) \in Seq(Nat) /\ Len(Append(ks, key)) = Len(ks) + 1
    BY <2>1
  <2> HIDE DEF s
  <2> QED BY <1>7, <2>2 DEF ks
<1>16. state = "process" <=> secSize' > 0
  OBVIOUS
<1>17. state \in {"process", "confirm"}
  OBVIOUS
<1> HIDE DEF r, p, b, block, vector, text, state, s
<1>10. IsFrame(s)
  BY <1>1, <1>5, <1>7, <1>9, <1>17 DEF IsFrame, States, Rec, s
<1>11. UnderWay(f)'
  <2>1. f' = f /\ f = secFrame' /\ secEncrypts' = secEncrypts
    BY <1>3
  <2>2. secOffset' \in Nat /\ secSize' \in Nat /\ secOffset' + secSize' = p
    BY <1>3, <1>5, <1>6
  <2> QED BY <1>5, <1>7, <1>8, <2>1, <2>2 DEF UnderWay
<1>12. ASSUME NEW k \in Nat, Matters(f, k)'
       PROVE  /\ k = key /\ s.payload = Through(s, f, secOffset', k)
              /\ secVector' = AfterBlock(CipherWords(f, p, k), vector, secOffset, block)
              /\ vector = PHY_EncryptReq(Before(CipherWords(f, p, k), f, b), k)
  <2>1. f' = f /\ pool'[f'] = s
    BY <1>3, <1>8
  <2>2. (\A n \in DOMAIN s.keys : s.keys[n] = k) /\ (s.way = "in" => k = 1)
    BY <1>12, <2>1 DEF Matters, Under
  <2>3. DOMAIN s.keys = 1..(b + 1) /\ s.keys[b + 1] = key
    BY <1>1, <1>7, <1>9 DEF b
  <2>4. \A n \in DOMAIN r.keys : n \in DOMAIN s.keys /\ r.keys[n] = s.keys[n]
    BY <1>1, <1>7
  <2>5. k = key
    <3>1. b + 1 \in DOMAIN s.keys
      BY <2>3, <1>1
    <3> QED BY <3>1, <2>2, <2>3
  <2>6. Matters(f, k)
    BY <2>2, <2>4, <1>7 DEF Matters, Under, r
  <2>7. /\ r.payload = Through(r, f, BLOCK * b, k)
        /\ secVector = Before(CipherWords(f, p, k), f, b)
    <3>1. /\ pool[f].payload = Through(pool[f], f, secOffset, k)
          /\ secVector = Before(CipherWords(f, pool[f].plain, k), f, Len(pool[f].keys))
      BY <2>6, <1>2 DEF Halfway
    <3> QED BY <3>1, <1>5 DEF r, p, b
  <2>8. vector = PHY_EncryptReq(Before(CipherWords(f, p, k), f, b), k)
    BY <2>5, <2>7 DEF vector
  <2>9. /\ r.plain = p /\ (r.way = "in" => k = 1) /\ BLOCK * b + block <= p
    BY <1>5, <1>6, <1>7, <2>2 DEF p
  <2>10. /\ TurnsTo(r, vector, CipherWords(f, p, k), BLOCK * b, block)
         /\ TextAfter(r.payload, vector, BLOCK * b, block) = Through(r, f, BLOCK * b + block, k)
    BY <1>1, <1>6, <2>7, <2>8, <2>9, TextTurns
  <2>11. s.payload = Through(s, f, secOffset', k)
    <3>1. text = Through(r, f, BLOCK * b + block, k)
      BY <2>10, <1>5 DEF text
    <3> QED BY <3>1, <1>3, <1>5, <1>7, <2>9 DEF Through
  <2>12. secVector' = AfterBlock(CipherWords(f, p, k), vector, secOffset, block)
    <3>1. ASSUME NEW w \in Words, ~(w > block)
          PROVE  (IF secEncrypts THEN Xor(r.payload[secOffset + w], vector[w])
                  ELSE Xor(vector[w], Xor(r.payload[secOffset + w], vector[w])))
                   = CipherWords(f, p, k)[secOffset + w]
      <4>1. w \in 1..block
        BY <3>1, <1>6 DEF Words, BLOCK
      <4>2. CASE r.way = "out"
        BY <4>1, <4>2, <2>10, <1>5 DEF TurnsTo
      <4>3. CASE r.way = "in"
        BY <4>1, <4>3, <2>10, <1>5 DEF TurnsTo
      <4> QED BY <4>2, <4>3, <1>1
    <3> QED BY <3>1, <1>3 DEF AfterBlock
  <2> QED BY <2>5, <2>8, <2>11, <2>12
<1>13. FrameOK(f)'
  <2>1. CASE secSize > BLOCK
    <3>1. block = BLOCK /\ secSize' > 0 /\ secOffset' = BLOCK * (b + 1) /\ state = "process"
      BY <2>1, <1>1, <1>3, <1>5, <1>6, <1>16 DEF BLOCK
    <3>2. ASSUME NEW k \in Nat, Matters(f, k)'
          PROVE  secVector' = Before(CipherWords(f, p, k), f, b + 1)
      <4>1. secVector' = AfterBlock(CipherWords(f, p, k), vector, secOffset, block)
        BY <3>2, <1>12
      <4>2. \A w \in Words : ~(w > block)
        BY <3>1 DEF Words, BLOCK
      <4>3. secVector' = [w \in Words |-> CipherWords(f, p, k)[secOffset + w]]
        BY <4>1, <4>2 DEF AfterBlock
      <4>4. Before(CipherWords(f, p, k), f, b + 1)
              = [w \in Words |-> CipherWords(f, p, k)[BLOCK * b + w]]
        BY <1>1, BeforeNext
      <4> QED BY <4>3, <4>4, <1>5
    <3>3. f' = f /\ pool'[f'] = s
      BY <1>3, <1>8
    <3>4. Halfway(f)'
      <4>1. \A k \in Nat : Matters(f, k)' =>
              /\ s.payload = Through(s, f, secOffset', k)
              /\ secVector' = Before(CipherWords(f, p, k), f, b + 1)
        BY <1>12, <3>2
      <4>2. s.plain = p /\ Len(s.keys) = b + 1 /\ secOffset' = BLOCK * Len(s.keys)
            /\ ~(secSize' = 0)
        BY <1>7, <1>9, <3>1
      <4> QED BY <1>11, <3>3, <4>1, <4>2 DEF Halfway
    <3>5. s.state = "process"
      BY <1>7, <3>1
    <3> QED BY <3>3, <3>4, <3>5 DEF FrameOK
  <2>2. CASE secSize <= BLOCK
    <3>1. block = secSize /\ secSize' = 0 /\ secOffset' = p /\ state = "confirm"
      BY <2>2, <1>3, <1>5, <1>6, <1>16, <1>17 DEF BLOCK
    <3>2. ASSUME NEW k \in Nat, Matters(f, k)'
          PROVE  secVector' = LastVector(f, p, k)
      <4>1. /\ secVector' = AfterBlock(CipherWords(f, p, k), vector, secOffset, block)
            /\ vector = PHY_EncryptReq(Before(CipherWords(f, p, k), f, b), k)
        BY <3>2, <1>12
      <4>2. LastVector(f, p, k) =
              AfterBlock(CipherWords(f, p, k),
                         PHY_EncryptReq(Before(CipherWords(f, p, k), f, b), k), BLOCK * b, block)
        <5>1. BLOCK * b + block = p /\ block <= BLOCK /\ (block = 0 => p = 0) /\ block \in Nat
          BY <3>1, <2>2, <1>5
        <5> QED BY <5>1, <1>1, LastBlock
      <4> QED BY <4>1, <4>2, <1>5
    <3>3. f' = f /\ pool'[f'] = s
      BY <1>3, <1>8
    <3>4. Finished(f)'
      <4>1. \A k \in Nat : Matters(f, k)' =>
              /\ s.payload = Through(s, f, p, k)
              /\ secVector' = LastVector(f, p, k)
        BY <1>12, <3>1, <3>2
      <4> QED BY <1>7, <1>11, <3>1, <3>3, <4>1 DEF Finished
    <3>5. s.state = "confirm"
      BY <1>7, <3>1
    <3> QED BY <3>3, <3>4, <3>5 DEF FrameOK
  <2> QED BY <2>1, <2>2, <1>5 DEF BLOCK
<1>14. key' \in Nat /\ secFrame' = f
  BY <1>1, <1>3
<1>15. s.state \in {"process", "confirm"}
  BY <1>7, <1>17
<1> QED BY <1>1, <1>4, <1>10, <1>13, <1>14, <1>15, ShapeStep

\* Behind what goes out comes its code.
LEMMA OutText ==
  ASSUME NEW f, NEW size \in Nat, NEW k, NEW r, r.way = "out", r.plain = size,
         r.payload = Through(r, f, size, k)
  PROVE  Append(r.payload, Code(LastVector(f, size, k))) = Cipher(f, size, k)
<1> DEFINE words == CipherWords(f, size, k)
           plain == Plain(f, size)
<1>1. r.payload = [n \in 1..size |-> IF n <= size THEN words[n] ELSE plain[n]]
  BY DEF Through
<1>2. words = [n \in 1..size |-> words[n]]
  BY WordsGiven
<1> HIDE DEF words, plain
<1>3. r.payload = words
  BY <1>1, <1>2
<1> QED BY <1>3 DEF Cipher, words

\* Behind what was sent is the code that came with it.
LEMMA InText ==
  ASSUME NEW f, NEW size \in Nat, NEW r, r.way = "in", r.plain = size,
         r.payload = Through(r, f, size, 1)
  PROVE  /\ r.payload[size + 1] = Code(LastVector(f, size, 1))
         /\ SubSeq(r.payload, 1, size) = Plain(f, size)
<1> DEFINE words == CipherWords(f, size, 1)
           plain == Plain(f, size)
           code == Code(LastVector(f, size, 1))
           cipher == Cipher(f, size, 1)
<1>1. r.payload = [n \in 1..(size + 1) |-> IF n <= size THEN plain[n] ELSE cipher[n]]
  BY DEF Through
<1>2. cipher = [n \in 1..(size + 1) |-> IF n <= size THEN words[n] ELSE code]
  BY CipherGiven
<1>3. plain = [n \in 1..size |-> plain[n]]
  BY DEF Plain
<1> HIDE DEF words, plain, code, cipher
<1>4. size + 1 \in 1..(size + 1) /\ ~(size + 1 <= size)
  OBVIOUS
<1>5. r.payload[size + 1] = code
  BY <1>1, <1>2, <1>4
<1>6. SubSeq(r.payload, 1, size) = [n \in 1..size |-> r.payload[n]]
  OBVIOUS
<1>7. \A n \in 1..size : r.payload[n] = plain[n]
  BY <1>1
<1> QED BY <1>3, <1>5, <1>6, <1>7 DEF plain, code

\* With the code written, or compared, the frame is as it should be.
LEMMA ConfirmStep ==
  ASSUME SecurityInv, NEW f, f = secFrame, f # 0, pool[f].state = "confirm", Confirm
  PROVE  SecurityInv'
<1> DEFINE r == pool[f]
           p == r.plain
           mic == Code(secVector)
           text == IF secEncrypts THEN Append(r.payload, mic) ELSE r.payload
           size == IF secEncrypts THEN r.size + 1 ELSE r.size
           status == secEncrypts \/ r.payload[secOffset + 1] = mic
           s == Rec(r.way, "done", status, r.keys, p, size, text)
<1>1. /\ f \in Pool /\ IsFrame(r) /\ pool = [g \in Pool |-> pool[g]] /\ r.way \in {"out", "in"}
      /\ p \in Nat /\ key \in Nat
  <2>1. f \in Pool
    BY DEF SecurityInv, Shape
  <2>2. IsFrame(r)
    BY <2>1 DEF SecurityInv, Shape
  <2> QED BY <2>1, <2>2 DEF SecurityInv, Shape, IsFrame
<1>2. Finished(f)
  BY <1>1 DEF SecurityInv, FrameOK
<1>3. /\ pool' = [pool EXCEPT
           ![f].state = "done", ![f].payload = text, ![f].size = IF secEncrypts THEN @ + 1 ELSE @,
           ![f].micStatus = status]
      /\ secFrame' = 0 /\ key' = key
  BY DEF Confirm, ProcessMic
<1>4. pool' = [pool EXCEPT ![f] = s]
  <2>1. pool' = [pool EXCEPT ![f] = Ends(r, "done", text, size, status)]
    BY <1>1, <1>3 DEF Ends
  <2>2. r = Rec(r.way, r.state, r.micStatus, r.keys, p, r.size, r.payload)
    BY <1>1 DEF IsFrame, Rec
  <2> HIDE DEF r, p, text, size, status
  <2>3. Ends(r, "done", text, size, status) = s
    BY <2>2, RecEnds
  <2> QED BY <2>1, <2>3
<1>5. /\ r.size = p /\ (secEncrypts <=> r.way = "out") /\ secOffset = p
  BY <1>2, <1>1 DEF Finished, UnderWay
<1>6. /\ s.way = r.way /\ s.state = "done" /\ s.keys = r.keys /\ s.plain = p
      /\ s.size = size /\ s.payload = text
  BY DEF Rec
<1>7. s.micStatus <=> secEncrypts \/ r.payload[secOffset + 1] = mic
  BY Zenon DEF Rec
<1>8. pool'[f] = s
  BY <1>1, <1>4
<1>9. IsFrame(s)
  BY <1>1, <1>6 DEF IsFrame, States, Rec
<1> HIDE DEF s
<1>10. ASSUME NEW k \in Nat, Under(f, k)', s.way = "in" => k = 1
       PROVE  /\ r.payload = Through(r, f, p, k)
              /\ mic = Code(LastVector(f, p, k))
  <2>1. \A n \in DOMAIN r.keys : r.keys[n] = k
    BY <1>10, <1>8, <1>6 DEF Under
  <2>2. Matters(f, k)
    BY <2>1, <1>10, <1>6 DEF Matters, Under
  <2> QED BY <2>2, <1>2 DEF Finished
<1>11. ASSUME NEW k \in Nat, Under(f, k)', s.way = "in" => k = 1
       PROVE  IF s.way = "out" THEN s.payload = Cipher(f, p, k)
              ELSE s.micStatus /\ SubSeq(s.payload, 1, s.size) = Plain(f, p)
  <2>1. p \in Nat /\ r.plain = p /\ r.payload = Through(r, f, p, k) /\ mic = Code(LastVector(f, p, k))
    BY <1>1, <1>10, <1>11
  <2>2. CASE r.way = "out"
    <3>1. text = Append(r.payload, mic)
      BY <2>2, <1>5
    <3> HIDE DEF text, r, p, mic
    <3>2. Append(r.payload, Code(LastVector(f, p, k))) = Cipher(f, p, k)
      BY <2>1, <2>2, OutText
    <3> QED BY <2>1, <2>2, <3>1, <3>2, <1>6
  <2>3. CASE r.way = "in"
    <3>1. k = 1
      BY <2>3, <1>6, <1>11
    <3>2. ~secEncrypts /\ text = r.payload /\ size = p
      BY <2>3, <1>5
    <3> HIDE DEF text, r, p, mic, size
    <3>3. /\ r.payload[p + 1] = Code(LastVector(f, p, 1))
          /\ SubSeq(r.payload, 1, p) = Plain(f, p)
      BY <2>1, <2>3, <3>1, InText
    <3>4. s.micStatus
      BY <2>1, <3>1, <3>3, <1>5, <1>7
    <3> QED BY <2>3, <3>2, <3>3, <3>4, <1>6
  <2> QED BY <2>2, <2>3, <1>1
<1>12. FrameOK(f)'
  <2>1. \A k \in Nat : Matters(f, k)' => Under(f, k)' /\ (s.way = "in" => k = 1)
    BY <1>8 DEF Matters
  <2>2. Right(f)'
    BY <2>1, <1>6, <1>8, <1>11 DEF Right
  <2> QED BY <2>2, <1>6, <1>8 DEF FrameOK
<1>13. key' \in Nat /\ secFrame' = 0
  BY <1>1, <1>3
<1>14. s.state \notin {"process", "confirm"}
  BY <1>6
<1> QED BY <1>1, <1>4, <1>9, <1>12, <1>13, <1>14, ShapeStep

LEMMA HandlerStep ==
  ASSUME SecurityInv, nwkSecurityTaskHandler
  PROVE  SecurityInv'
<1>1. CASE secFrame # 0 /\ pool[secFrame].state = "confirm" /\ Confirm
  BY <1>1, ConfirmStep
<1>2. CASE secFrame # 0 /\ pool[secFrame].state = "process" /\ SYS_EncryptReq
  BY <1>2, BlockStep
<1>3. CASE /\ secFrame = 0
           /\ \E f \in Pool : pool[f].state = "pending" /\ nwkSecurityStart(f)
  BY <1>3, StartStep
<1> QED BY <1>1, <1>2, <1>3 DEF nwkSecurityTaskHandler

LEMMA SecurityInvStep ==
  ASSUME SecurityInv, [NwkSecurityNext]_nwkSecurityVars
  PROVE  SecurityInv'
<1>1. CASE NWK_SetSecurityKey
  BY <1>1, KeyStep
<1>2. CASE \E f \in Pool : nwkSecurityProcess(f)
  BY <1>2, ProcessStep
<1>3. CASE nwkSecurityTaskHandler
  BY <1>3, HandlerStep
<1>4. CASE UNCHANGED nwkSecurityVars
  BY <1>4, StayStep
<1> QED BY <1>1, <1>2, <1>3, <1>4 DEF NwkSecurityNext

LEMMA SecurityInvIsExact == SecurityInv => SecuredIsExact
<1> SUFFICES ASSUME SecurityInv PROVE SecuredIsExact
  OBVIOUS
<1>1. \A f \in Pool : pool[f].state = "done" => Right(f)
  BY DEF SecurityInv, FrameOK
<1>2. \A f \in Pool : pool[f].way \in {"out", "in"}
  BY ShapeGives DEF SecurityInv
<1>3. EncryptsAsDefined
  <2> SUFFICES ASSUME NEW f \in Pool, NEW k \in 1..MaxKeys,
                      pool[f].state = "done", pool[f].way = "out", Under(f, k)
               PROVE  pool[f].payload = Cipher(f, pool[f].plain, k)
    BY DEF EncryptsAsDefined
  <2>1. k \in Nat /\ Matters(f, k)
    BY NwkSecurityAssumption DEF Matters
  <2> QED BY <1>1, <2>1 DEF Right
<1>4. DecryptsWhatWasSent
  <2> SUFFICES ASSUME NEW f \in Pool,
                      pool[f].state = "done", pool[f].way = "in", Under(f, 1)
               PROVE  /\ pool[f].micStatus
                      /\ SubSeq(pool[f].payload, 1, pool[f].size) = Plain(f, pool[f].plain)
    BY DEF DecryptsWhatWasSent
  <2>1. 1 \in Nat /\ Matters(f, 1)
    BY DEF Matters
  <2> QED BY <1>1, <2>1 DEF Right
<1> QED BY <1>3, <1>4 DEF SecuredIsExact

\* Whatever the sizes of the payloads and whenever the key changes: a frame
\* that went out under one key is as cipher feedback defines it, and one that
\* came in under the sender's key is what was sent.
THEOREM SecuredExact == NwkSecuritySpec => []SecuredIsExact
<1>1. NwkSecurityInit => SecurityInv
  BY SecurityInvInit
<1>2. SecurityInv /\ [NwkSecurityNext]_nwkSecurityVars => SecurityInv'
  BY SecurityInvStep
<1>3. SecurityInv => SecuredIsExact
  BY SecurityInvIsExact
<1> QED BY <1>1, <1>2, <1>3, PTL DEF NwkSecuritySpec
=============================================================================
