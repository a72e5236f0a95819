---------------------------- MODULE ServicesProofs ----------------------------
(***************************************************************************)
(* Proofs about Services for every number of requests, every timeout and   *)
(* range of millis, all sketches and all sizes of the tables.              *)
(***************************************************************************)
EXTENDS Services, FiniteSetTheorems, SequenceTheorems, WellFoundedInduction, TLAPS

Called == {setup[k].name : k \in DOMAIN setup}

RegistryType ==
  /\ setup \in Setups /\ made \in 0..Len(setup)
  /\ tables \in [Kinds -> Seq(Called)]

AskerType ==
  /\ sent \in 0..MaxRequests /\ lastReqCb \in 0..sent
  /\ waitingResponse \in BOOLEAN /\ lastRequestTime \in Nat /\ now \in Nat
  /\ running \in Seq(1..sent) /\ over \subseteq 1..sent
  /\ wantsAnswer \subseteq 1..sent
  /\ told \in [Requests -> Seq(Response \cup {R408})]

PacketType ==
  /\ asked \subseteq 1..sent /\ answers \subseteq Response /\ unknown \subseteq 1..sent
  /\ prompt \in BOOLEAN

TypeOK == RegistryType /\ AskerType /\ PacketType

-----------------------------------------------------------------------------
(* Types *)

LEMMA Constants ==
  /\ Timeout \in Nat /\ MaxRequests \in Nat /\ Callbacks \subseteq BOOLEAN
  /\ VarMax \in Nat /\ FuncMax \in Nat /\ ServiceMax \in Nat
  /\ Wrap \in Nat \ {0} /\ MaxDepth \in Nat \ {0}
  BY ServicesAssumption

LEMMA SetupIsSequence ==
  ASSUME setup \in Setups
  PROVE  /\ setup \in Seq(Called) \/ DOMAIN setup = 1..Len(setup)
         /\ Len(setup) \in Nat
         /\ DOMAIN setup = 1..Len(setup)
         /\ \A k \in DOMAIN setup : setup[k].kind \in Kinds /\ setup[k].name \in Called
<1>1. setup \in Seq({setup[k] : k \in DOMAIN setup})
  BY ServicesAssumption
<1>2. \A k \in DOMAIN setup : setup[k].kind \in Kinds
  BY ServicesAssumption
<1> QED
  BY <1>1, <1>2 DEF Called

LEMMA TypeInitially == Init => TypeOK
<1> SUFFICES ASSUME Init PROVE TypeOK
  OBVIOUS
<1>1. RegistryType
  BY SetupIsSequence DEF Init, RegistryType
<1>2. told \in [Requests -> Seq(Response \cup {R408})] /\ 0 \in 0..MaxRequests
  BY Constants DEF Init
<1>3. AskerType
  <2>1. lastRequestTime \in Nat /\ now \in Nat /\ waitingResponse \in BOOLEAN
    BY DEF Init
  <2>3. running \in Seq(1..sent)
    BY Zenon, EmptySeq DEF Init
  <2>4. over \subseteq 1..sent
    BY DEF Init
  <2>2. sent \in 0..MaxRequests /\ lastReqCb \in 0..sent /\ wantsAnswer \subseteq 1..sent
    BY <1>2 DEF Init
  <2> QED
    BY <1>2, <2>1, <2>2, <2>3, <2>4 DEF Init, AskerType
<1>4. PacketType
  BY DEF Init, PacketType
<1> QED
  BY <1>1, <1>3, <1>4 DEF TypeOK

Less == {p \in Nat \X Nat : p[1] < p[2]}

\* A set of numbers has a least one.
LEMMA Least ==
  ASSUME NEW T, T \subseteq Nat, T # {}
  PROVE  \E x \in T : \A y \in T : x <= y
<1>1. IsWellFoundedOn(Less, Nat)
  BY NatLessThanWellFounded, Zenon DEF OpToRel, Less
<1>2. PICK x \in T : \A y \in T : <<y, x>> \notin Less
  BY <1>1, WFMin, Zenon
<1>3. \A y \in T : ~(y < x)
  BY <1>2 DEF Less
<1> QED
  BY <1>3

\* rxHandler finds an entry if one holds the name.
LEMMA FoundHolds ==
  ASSUME NEW name, Holding(name) # {}
  PROVE  Found(name) \in Holding(name)
<1> DEFINE Positions == {Comes(e) : e \in Holding(name)}
<1>1. \A e \in Holding(name) : Comes(e) \in Nat
  BY Constants DEF Holding, Comes, Kinds
<1>2. PICK x \in Positions : \A y \in Positions : x <= y
  BY <1>1, Least
<1>3. PICK e \in Holding(name) : Comes(e) = x
  BY <1>2
<1>4. \A f \in Holding(name) : Comes(e) <= Comes(f)
  BY <1>2, <1>3
<1> QED
  BY <1>3, <1>4 DEF Found

\* The tables belong to the answering sketch alone.
LEMMA OnlyRegisters == [Next]_vars => Registers \/ UNCHANGED registry
  BY DEF Next, vars, registry, request, Sends, Returns, ResponseArrives, loop, CallbackReturns, Time,
         Serve, ServeUnknown, LoseRequest, LoseResponse

LEMMA RegistryTypeKept ==
  ASSUME RegistryType, [Next]_vars
  PROVE  RegistryType'
<1>1. CASE UNCHANGED registry
  BY <1>1 DEF registry, RegistryType, Called
<1>2. CASE Registers
  <2>1. /\ made' = made + 1 /\ made < Len(setup) /\ setup' = setup /\ Called' = Called
    BY <1>2 DEF Registers, Called
  <2>2. made' \in DOMAIN setup
    BY <2>1, SetupIsSequence DEF RegistryType
  <2>3. \E kind \in Kinds : \E room : Put(kind, room, setup[made'].name)
    BY <1>2 DEF Registers, Kinds, variable, variableFloat, function, add
  <2>4. PICK kind \in Kinds : \E room : Put(kind, room, setup[made'].name)
    BY <2>3
  <2>5. tables' \in [Kinds -> Seq(Called)]
    BY <2>2, <2>4, SetupIsSequence DEF RegistryType, Put
  <2> QED
    BY <2>1, <2>2, <2>5, SetupIsSequence DEF RegistryType
<1> QED
  BY <1>1, <1>2, OnlyRegisters

LEMMA CallsKeepsType ==
  ASSUME AskerType, NEW a \in Response \cup {R408}, Calls(a)
  PROVE  /\ lastReqCb' \in 0..sent /\ waitingResponse' \in BOOLEAN
         /\ running' \in Seq(1..sent) /\ over' \subseteq 1..sent
         /\ told' \in [Requests -> Seq(Response \cup {R408})]
<1>1. CASE lastReqCb # 0
  <2>1. /\ lastReqCb \in Requests /\ told[lastReqCb] \in Seq(Response \cup {R408})
        /\ lastReqCb \in 1..sent
    BY <1>1, Constants DEF AskerType, Requests
  <2>2. /\ Append(told[lastReqCb], a) \in Seq(Response \cup {R408})
        /\ Append(running, lastReqCb) \in Seq(1..sent)
    BY <2>1 DEF AskerType
  <2> QED
    BY <1>1, <2>1, <2>2 DEF AskerType, Calls
<1>2. CASE lastReqCb = 0
  BY <1>2 DEF AskerType, Calls, callbacks
<1> QED
  BY <1>1, <1>2

LEMMA Wider ==
  ASSUME NEW S, NEW T, S \subseteq T, NEW seq \in Seq(S)
  PROVE  seq \in Seq(T)
  OBVIOUS

LEMMA Shorter ==
  ASSUME NEW T, NEW seq \in Seq(T), seq # <<>>
  PROVE  /\ Len(seq) \in Nat /\ seq[Len(seq)] \in T
         /\ SubSeq(seq, 1, Len(seq) - 1) \in Seq(T)
         /\ Len(SubSeq(seq, 1, Len(seq) - 1)) = Len(seq) - 1
<1>1. Len(seq) \in Nat \ {0} /\ seq[Len(seq)] \in T
  OBVIOUS
<1>2. Len(seq) - 1 \in Nat /\ \A i \in 1..Len(seq) - 1 : seq[i] \in T
  BY <1>1
<1> DEFINE n == Len(seq) - 1
<1>3. n \in Nat /\ n \in Int /\ \A i \in 1..n : seq[i] \in T
  BY <1>2
<1> HIDE DEF n
<1>4. /\ SubSeq(seq, 1, n) \in Seq(T)
      /\ Len(SubSeq(seq, 1, n)) = IF 1 <= n THEN n - 1 + 1 ELSE 0
  BY <1>3, SubSeqProperties
<1>5. Len(SubSeq(seq, 1, n)) = n
  <2> DEFINE len == Len(SubSeq(seq, 1, n))
  <2>1. len = IF 1 <= n THEN n - 1 + 1 ELSE 0
    BY <1>4
  <2> HIDE DEF len
  <2>2. len = n
    BY <1>3, <2>1
  <2> QED
    BY <2>2 DEF len
<1> QED
  BY <1>1, <1>4, <1>5, Zenon DEF n

\* A callback that returns is the innermost of those that run.
LEMMA ReturnsKeepsType ==
  ASSUME AskerType, Returns
  PROVE  /\ running' \in Seq(1..sent) /\ over' \subseteq 1..sent /\ Innermost \in 1..sent
         /\ Len(running') <= Len(running)
<1>1. running \in Seq(1..sent) /\ running # <<>> /\ over \subseteq 1..sent
  BY DEF AskerType, Returns
<1>2. Innermost \in 1..sent
  BY <1>1, Shorter, Zenon DEF Innermost
<1>3. running' = SubSeq(running, 1, Len(running) - 1) /\ over' = over \cup {Innermost}
  BY DEF Returns
<1>4. running' \in Seq(1..sent)
  BY <1>1, <1>3, Shorter, Zenon
<1>5. Len(running') <= Len(running)
  <2>1. Len(running) \in Nat /\ Len(SubSeq(running, 1, Len(running) - 1)) = Len(running) - 1
    BY <1>1, Shorter, Zenon
  <2> QED
    BY <1>3, <2>1
<1> QED
  BY <1>1, <1>2, <1>3, <1>4, <1>5

LEMMA AskerTypeKept ==
  ASSUME AskerType, PacketType, [Next]_vars
  PROVE  AskerType'
<1>1. ASSUME NEW cb \in Callbacks, request(cb) PROVE AskerType'
  <2>1. sent \in Nat /\ sent' = sent + 1 /\ sent' \in 0..MaxRequests
    BY <1>1, Constants DEF request, Sends, AskerType
  <2>2. sent' \in 1..sent' /\ 0..sent \subseteq 0..sent' /\ 1..sent \subseteq 1..sent'
    BY <2>1
  <2>5. /\ running' \in Seq(1..sent') /\ over' \subseteq 1..sent' /\ now' \in Nat
        /\ told' \in [Requests -> Seq(Response \cup {R408})]
    <3>1. running' = running /\ over' = over /\ now' = now /\ told' = told
      BY <1>1 DEF request, Sends, callbacks
    <3>2. running \in Seq(1..sent')
      BY <2>2, Wider, Zenon DEF AskerType
    <3> QED
      BY <2>2, <3>1, <3>2 DEF AskerType
  <2>3. CASE cb
    <3>1. lastRequestTime' \in Nat /\ waitingResponse' \in BOOLEAN
      BY <1>1, <2>3 DEF request, Sends, AskerType
    <3>2. lastReqCb' \in 0..sent'
      BY <1>1, <2>1, <2>2, <2>3 DEF request, Sends
    <3>3. wantsAnswer' \subseteq 1..sent'
      BY <1>1, <2>2, <2>3 DEF request, Sends, AskerType
    <3> QED
      BY <2>1, <2>5, <3>1, <3>2, <3>3 DEF AskerType
  <2>4. CASE ~cb
    BY <1>1, <2>1, <2>2, <2>4, <2>5 DEF request, Sends, AskerType
  <2> QED
    BY <2>3, <2>4
<1>2. CASE ResponseArrives
  BY <1>2, CallsKeepsType DEF ResponseArrives, AskerType, PacketType
<1>3. CASE loop
  BY <1>3, CallsKeepsType DEF loop, AskerType
<1>4. CASE CallbackReturns
  <2>1. 0 \in 0..sent
    BY Constants DEF AskerType
  <2>2. /\ UNCHANGED <<lastRequestTime, now, sent, wantsAnswer, told>>
        /\ lastReqCb' = 0 /\ waitingResponse' = FALSE
    BY <1>4 DEF CallbackReturns, Returns
  <2> QED
    BY <1>4, <2>1, <2>2, ReturnsKeepsType DEF CallbackReturns, AskerType
<1>5. CASE Time
  <2>1. now' \in Nat
    BY <1>5, Constants DEF Time, AskerType
  <2> QED
    BY <1>5, <2>1 DEF Time, asker, callbacks, AskerType
<1>6. CASE UNCHANGED <<asker, callbacks, now>>
  BY <1>6 DEF asker, callbacks, AskerType
<1> QED
  BY <1>1, <1>2, <1>3, <1>4, <1>5, <1>6
  DEF Next, vars, Registers, Serve, ServeUnknown, LoseRequest, LoseResponse

LEMMA PacketTypeKept ==
  ASSUME AskerType, PacketType, [Next]_vars
  PROVE  PacketType'
<1>1. ASSUME NEW cb \in Callbacks, request(cb) PROVE PacketType'
  BY <1>1 DEF request, Sends, AskerType, PacketType
<1>2. CASE ResponseArrives \/ loop \/ CallbackReturns \/ Time
  BY <1>2 DEF ResponseArrives, loop, CallbackReturns, Returns, Time, asker, PacketType
<1>3. ASSUME NEW r \in asked, Serve(r) PROVE PacketType'
  <2>1. Found(Asks[r])[1] \in Kinds
    BY <1>3, FoundHolds DEF Serve, Holding
  <2>2. r \in Requests
    BY <1>3, Constants DEF PacketType, AskerType, Requests
  <2>3. \A kind \in Kinds : \A a \in Answers(r, kind) : a \subseteq Response
    BY <2>2 DEF Answers, Response, Statuses, Kinds
  <2> QED
    BY <1>3, <2>1, <2>3 DEF Serve, asker, PacketType
<1>4. ASSUME NEW r \in asked, ServeUnknown(r) \/ LoseRequest(r) PROVE PacketType'
  BY <1>4 DEF ServeUnknown, LoseRequest, asker, PacketType
<1>5. ASSUME NEW a \in answers, LoseResponse(a) PROVE PacketType'
  BY <1>5 DEF LoseResponse, asker, PacketType
<1>6. CASE UNCHANGED <<asked, answers, unknown, prompt, sent>>
  BY <1>6 DEF PacketType
<1> QED
  BY <1>1, <1>2, <1>3, <1>4, <1>5, <1>6 DEF Next, vars, asker, Registers

\* Every variable of both sketches and the network keeps its type.
THEOREM TypeCorrect == Spec => []TypeOK
<1>1. TypeOK /\ [Next]_vars => TypeOK'
  BY RegistryTypeKept, AskerTypeKept, PacketTypeKept DEF TypeOK
<1> QED
  BY TypeInitially, <1>1, PTL DEF Spec

-----------------------------------------------------------------------------
(* A callback that has returned is over *)

\* A callback that is kept is that of a request which has not had it called,
\* or it runs, and its calls run one inside another, nothing between them.
CallbackKept ==
  /\ waitingResponse <=> lastReqCb # 0
  /\ lastReqCb \notin over
  /\ Len(running) <= MaxDepth
  /\ \A r \in Requests : Len(told[r]) <= MaxDepth
  /\ \A r \in Requests : r > sent => told[r] = <<>>
  /\ lastReqCb # 0 => Len(told[lastReqCb]) <= Len(running)
  /\ running = <<>> /\ lastReqCb # 0 => told[lastReqCb] = <<>>

LEMMA CallbackKeptInitially == Init => CallbackKept
  BY Constants DEF Init, CallbackKept

LEMMA CallsOnce ==
  ASSUME AskerType, CallbackKept, Len(running) < MaxDepth, NEW a \in Response \cup {R408},
         Calls(a), UNCHANGED sent
  PROVE  CallbackKept'
<1>1. CASE lastReqCb # 0
  <2>1. /\ lastReqCb \in Requests /\ lastReqCb <= sent
        /\ told[lastReqCb] \in Seq(Response \cup {R408}) /\ running \in Seq(1..sent)
    BY <1>1, Constants DEF AskerType, Requests
  <2>2. /\ told' = [told EXCEPT ![lastReqCb] = Append(@, a)]
        /\ running' = Append(running, lastReqCb)
        /\ UNCHANGED <<lastReqCb, waitingResponse, over>>
    BY <1>1 DEF Calls
  <2>3. \A r \in Requests : told'[r] = IF r = lastReqCb THEN Append(told[r], a) ELSE told[r]
    BY <2>1, <2>2 DEF AskerType
  <2>4. Len(running') = Len(running) + 1 /\ running' # <<>> /\ Len(running) \in Nat
    BY <2>1, <2>2
  <2>5. Len(Append(told[lastReqCb], a)) = Len(told[lastReqCb]) + 1 /\ Len(told[lastReqCb]) \in Nat
    BY <2>1
  <2>6. Len(told'[lastReqCb']) <= Len(running') /\ Len(running') <= MaxDepth
    BY <1>1, <2>1, <2>2, <2>3, <2>4, <2>5, Constants DEF CallbackKept
  <2>7. \A r \in Requests : Len(told'[r]) <= MaxDepth
    <3>1. \A r \in Requests : r # lastReqCb => Len(told'[r]) <= MaxDepth
      BY <2>3 DEF CallbackKept
    <3>2. Len(told'[lastReqCb]) <= MaxDepth
      BY <2>1, <2>2, <2>3, <2>4, <2>5, <2>6, Constants
    <3> QED
      BY <3>1, <3>2
  <2>8. \A r \in Requests : r > sent' => told'[r] = <<>>
    BY <2>1, <2>3 DEF CallbackKept, AskerType, Requests
  <2> QED
    BY <1>1, <2>2, <2>4, <2>6, <2>7, <2>8 DEF CallbackKept
<1>2. CASE lastReqCb = 0
  BY <1>2 DEF Calls, callbacks, CallbackKept
<1> QED
  BY <1>1, <1>2

LEMMA CallbackKeptKept ==
  ASSUME TypeOK, CallbackKept, [Next]_vars
  PROVE  CallbackKept'
<1>1. ASSUME NEW cb \in Callbacks, request(cb) PROVE CallbackKept'
  <2>1. lastReqCb = 0 /\ UNCHANGED <<running, over, told>>
    BY <1>1 DEF request, Sends, callbacks, CallbackKept
  <2>2. sent' = sent + 1 /\ sent \in Nat /\ sent' \in Requests
    BY <1>1, Constants DEF request, Sends, TypeOK, AskerType, Requests
  <2>3. \A r \in Requests : r > sent' => told'[r] = <<>>
    BY <2>1, <2>2 DEF CallbackKept, Requests
  <2>4. told'[sent'] = <<>> /\ sent' \notin over /\ Len(running) \in Nat
    BY <2>1, <2>2 DEF CallbackKept, TypeOK, AskerType
  <2>5. CASE cb
    <3>1. lastReqCb' = sent' /\ waitingResponse' = TRUE /\ sent' # 0
      BY <1>1, <2>2, <2>5 DEF request, Sends
    <3>2. Len(told'[lastReqCb']) <= Len(running')
      BY <2>1, <2>4, <3>1
    <3> QED
      BY <2>1, <2>3, <2>4, <3>1, <3>2 DEF CallbackKept
  <2>6. CASE ~cb
    <3>1. UNCHANGED <<lastReqCb, waitingResponse>>
      BY <1>1, <2>6 DEF request, Sends
    <3> QED
      BY <2>1, <2>3, <3>1 DEF CallbackKept
  <2> QED
    BY <2>5, <2>6
<1>2. CASE ResponseArrives
  BY <1>2, CallsOnce DEF ResponseArrives, TypeOK, PacketType
<1>3. CASE loop
  BY <1>3, CallsOnce DEF loop, TypeOK
<1>4. CASE CallbackReturns
  <2>1. Returns /\ lastReqCb' = 0 /\ waitingResponse' = FALSE /\ UNCHANGED <<told, sent>>
    BY <1>4 DEF CallbackReturns, Returns
  <2>2. over' \subseteq 1..sent /\ Len(running') <= Len(running) /\ running' \in Seq(1..sent)
    BY <2>1, ReturnsKeepsType DEF TypeOK
  <2>3. 0 \notin over' /\ Len(running') <= MaxDepth
    BY <2>2, Constants DEF CallbackKept, TypeOK, AskerType
  <2> QED
    BY <2>1, <2>3 DEF CallbackKept
<1>5. CASE UNCHANGED <<asker, callbacks>>
  BY <1>5 DEF asker, callbacks, CallbackKept
<1> QED
  BY <1>1, <1>2, <1>3, <1>4, <1>5
  DEF Next, vars, Registers, Time, Serve, ServeUnknown, LoseRequest, LoseResponse

\* A callback that has returned is never called again, however deep callbacks
\* enter loops inside one another and however the response races the timeout;
\* it is called at most as often as they do, once if none does; and request
\* lets the next one in exactly when none is kept.
THEOREM CallbacksAreOver == Spec => []OverOnReturn
<1>1. TypeOK /\ CallbackKept /\ [Next]_vars => CallbackKept'
  BY CallbackKeptKept
<1>2. CallbackKept => OverOnReturn
  BY DEF CallbackKept, OverOnReturn
<1> QED
  BY TypeCorrect, CallbackKeptInitially, <1>1, <1>2, PTL DEF Spec

-----------------------------------------------------------------------------
(* What the tables hold *)

Count(kind, m) == Cardinality({i \in 1..m : setup[i].kind = kind})

\* The names the first m calls have put into a table.
ServedUpTo(kind, m) ==
  {setup[k].name : k \in {j \in 1..m : setup[j].kind = kind /\ Count(kind, j) <= Room[kind]}}

\* A table holds the names of the calls so far that found room.
Registered ==
  \A kind \in Kinds :
    /\ Len(tables[kind]) = IF Count(kind, made) < Room[kind] THEN Count(kind, made)
                           ELSE Room[kind]
    /\ {tables[kind][i] : i \in DOMAIN tables[kind]} = ServedUpTo(kind, made)

LEMMA RoomIs ==
  \A kind \in Kinds : Room[kind] \in Nat /\ Room[kind] <= VarMax + FuncMax + ServiceMax
  BY Constants DEF Kinds, Room

LEMMA CountStep ==
  ASSUME NEW kind, NEW m \in Nat
  PROVE  /\ Count(kind, m) \in Nat
         /\ Count(kind, 0) = 0
         /\ Count(kind, m + 1) = IF setup[m + 1].kind = kind THEN Count(kind, m) + 1
                                 ELSE Count(kind, m)
<1> DEFINE Upto(n) == {i \in 1..n : setup[i].kind = kind}
<1>1. IsFiniteSet(1..m)
  BY FS_Interval
<1>2. IsFiniteSet(Upto(m)) /\ m + 1 \notin Upto(m)
  BY <1>1, FS_Subset
<1>3. Upto(m + 1) = IF setup[m + 1].kind = kind THEN Upto(m) \cup {m + 1} ELSE Upto(m)
  OBVIOUS
<1>4. Cardinality(Upto(m)) \in Nat
  BY <1>2, FS_CardinalityType
<1>5. Cardinality(Upto(m) \cup {m + 1}) = Cardinality(Upto(m)) + 1
  BY <1>2, FS_AddElement
<1>6. Upto(0) = {} /\ Cardinality({}) = 0
  BY FS_EmptySet
<1> QED
  BY <1>3, <1>4, <1>5, <1>6 DEF Count

LEMMA RegisteredInitially == Init => Registered
<1> SUFFICES ASSUME Init, NEW kind \in Kinds
             PROVE  /\ Len(tables[kind]) = IF Count(kind, made) < Room[kind]
                                           THEN Count(kind, made) ELSE Room[kind]
                    /\ {tables[kind][i] : i \in DOMAIN tables[kind]} = ServedUpTo(kind, made)
  BY DEF Registered
<1>1. tables[kind] = <<>> /\ made = 0
  BY DEF Init
<1>2. Count(kind, 0) = 0 /\ Room[kind] \in Nat
  BY CountStep, RoomIs
<1>3. ServedUpTo(kind, 0) = {}
  BY DEF ServedUpTo
<1> QED
  BY <1>1, <1>2, <1>3

\* What one more call makes of the names a table serves.
LEMMA ServedStep ==
  ASSUME NEW kind, NEW m \in Nat
  PROVE  ServedUpTo(kind, m + 1) =
           IF setup[m + 1].kind = kind /\ Count(kind, m + 1) <= Room[kind]
           THEN ServedUpTo(kind, m) \cup {setup[m + 1].name} ELSE ServedUpTo(kind, m)
<1>1. 1..(m + 1) = 1..m \cup {m + 1}
  OBVIOUS
<1> QED
  BY <1>1 DEF ServedUpTo

LEMMA SetupIsFixed ==
  ASSUME setup' = setup
  PROVE  /\ \A kind, n : Count(kind, n)' = Count(kind, n)
         /\ \A kind, n : ServedUpTo(kind, n)' = ServedUpTo(kind, n)
         /\ \A kind : Served(kind)' = Served(kind)
  BY DEF Count, ServedUpTo, Served

LEMMA RegisteredKept ==
  ASSUME RegistryType, Registered, [Next]_vars
  PROVE  Registered'
<1>1. CASE UNCHANGED registry
  <2>1. setup' = setup /\ made' = made /\ tables' = tables
    BY <1>1 DEF registry
  <2> QED
    BY <2>1, SetupIsFixed DEF Registered
<1>2. CASE Registers
  <2> DEFINE m == made + 1
             name == setup[m].name
  <2>1. /\ made \in Nat /\ made' = m /\ setup' = setup /\ m \in DOMAIN setup
        /\ setup[m].kind \in Kinds
    BY <1>2, SetupIsSequence DEF Registers, RegistryType
  <2>2. Put(setup[m].kind, Room[setup[m].kind], name)
    BY <1>2, <2>1 DEF Registers, variable, variableFloat, function, add, Room
  <2> SUFFICES ASSUME NEW kind \in Kinds
               PROVE  /\ Len(tables'[kind]) = IF Count(kind, m) < Room[kind]
                                              THEN Count(kind, m) ELSE Room[kind]
                      /\ {tables'[kind][i] : i \in DOMAIN tables'[kind]} = ServedUpTo(kind, m)
    BY <2>1, SetupIsFixed DEF Registered
  <2>3. /\ Len(tables[kind]) = IF Count(kind, made) < Room[kind] THEN Count(kind, made)
                               ELSE Room[kind]
        /\ {tables[kind][i] : i \in DOMAIN tables[kind]} = ServedUpTo(kind, made)
        /\ tables[kind] \in Seq(Called)
    BY DEF Registered, RegistryType
  <2>4. /\ Room[kind] \in Nat /\ Count(kind, made) \in Nat
        /\ Count(kind, m) = IF setup[m].kind = kind THEN Count(kind, made) + 1
                            ELSE Count(kind, made)
    BY <2>1, RoomIs, CountStep
  <2>5. ServedUpTo(kind, m) = IF setup[m].kind = kind /\ Count(kind, m) <= Room[kind]
                              THEN ServedUpTo(kind, made) \cup {name}
                              ELSE ServedUpTo(kind, made)
    BY <2>1, ServedStep
  <2>6. CASE setup[m].kind = kind /\ Len(tables[kind]) < Room[kind]
    <3>1. tables'[kind] = Append(tables[kind], name)
      BY <2>2, <2>6 DEF Put, RegistryType
    <3>2. /\ Len(tables'[kind]) = Len(tables[kind]) + 1
          /\ {tables'[kind][i] : i \in DOMAIN tables'[kind]}
               = {tables[kind][i] : i \in DOMAIN tables[kind]} \cup {name}
      BY <2>3, <3>1
    <3>3. Count(kind, m) = Len(tables[kind]) + 1 /\ Count(kind, m) <= Room[kind]
      BY <2>3, <2>4, <2>6
    <3>4. Len(tables'[kind]) = IF Count(kind, m) < Room[kind] THEN Count(kind, m)
                               ELSE Room[kind]
      BY <2>4, <3>2, <3>3
    <3> QED
      BY <2>3, <2>5, <2>6, <3>2, <3>3, <3>4
  <2>7. CASE setup[m].kind # kind
    <3>1. tables'[kind] = tables[kind]
      BY <2>2, <2>7 DEF Put, RegistryType
    <3> QED
      BY <2>3, <2>4, <2>5, <2>7, <3>1
  <2>8. CASE setup[m].kind = kind /\ ~(Len(tables[kind]) < Room[kind])
    <3>1. tables' = tables
      BY <2>2, <2>8 DEF Put
    <3> QED
      BY <2>3, <2>4, <2>5, <2>8, <3>1
  <2> QED
    BY <2>6, <2>7, <2>8
<1> QED
  BY <1>1, <1>2, OnlyRegisters

\* When the sketch has made all its calls, a name is found exactly if a table
\* serves it.
LEMMA FoundIfServed ==
  ASSUME RegistryType, Registered, made = Len(setup), NEW name
  PROVE  /\ Holding(name) # {} => name \in Served(Found(name)[1])
         /\ Holding(name) = {} => \A kind \in Kinds : name \notin Served(kind)
<1>1. \A kind : Served(kind) = ServedUpTo(kind, made)
  BY SetupIsSequence DEF Served, ServedUpTo, Count, RegistryType
<1>2. CASE Holding(name) # {}
  <2>1. PICK e \in Holding(name) : e = Found(name)
    BY <1>2, FoundHolds
  <2>2. e[1] \in Kinds /\ e[2] \in DOMAIN tables[e[1]] /\ tables[e[1]][e[2]] = name
    BY <2>1 DEF Holding
  <2>3. name \in ServedUpTo(e[1], made)
    BY <2>2 DEF Registered
  <2> QED
    BY <1>1, <1>2, <2>1, <2>3
<1>3. CASE Holding(name) = {}
  <2>1. ASSUME NEW kind \in Kinds, name \in Served(kind) PROVE FALSE
    <3>1. PICK i \in DOMAIN tables[kind] : tables[kind][i] = name
      BY <1>1, <2>1 DEF Registered
    <3>2. tables[kind] \in Seq(Called) /\ Len(tables[kind]) <= Room[kind]
      <4>1. Count(kind, made) \in Nat
        BY CountStep, SetupIsSequence DEF RegistryType
      <4> QED
        BY <4>1, RoomIs DEF Registered, RegistryType
    <3>3. i \in 1..VarMax + FuncMax + ServiceMax
      BY <3>1, <3>2, RoomIs, Constants
    <3>4. <<kind, i>> \in Holding(name)
      BY <3>1, <3>3 DEF Holding
    <3> QED
      BY <1>3, <3>4
  <2> QED
    BY <1>3, <2>1
<1> QED
  BY <1>2, <1>3

-----------------------------------------------------------------------------
(* Answers *)

AnswersServed == \A a \in answers : Asks[a.to] \in Served(a.by)

UnknownNotServed == \A r \in unknown : \A kind \in Kinds : Asks[r] \notin Served(kind)

\* Under orderly use nothing is under way but the pending request, then its
\* one response; and nothing at all once its callback runs or its time is up.
OneUnderWay ==
  /\ asked \subseteq {lastReqCb}
  /\ \A a \in answers : a.to = lastReqCb /\ asked = {}
  /\ \A a, b \in answers : a = b
  /\ running # <<>> \/ Old => asked = {} /\ answers = {}

ToldAsAsked ==
  \A r \in Requests : \A k \in DOMAIN told[r] :
    told[r][k] = R408 \/ (told[r][k].to = r /\ Asks[r] \in Served(told[r][k].by))

InOrder == Orderly => OneUnderWay /\ ToldAsAsked

LEMMA AnswersInitially == Init => AnswersServed /\ UnknownNotServed
  BY DEF Init, AnswersServed, UnknownNotServed

\* The answers to a request are one or none, to it and from the table found.
LEMMA AnswersAre ==
  ASSUME NEW r, NEW kind, NEW new \in Answers(r, kind)
  PROVE  /\ \A a \in new : a.to = r /\ a.by = kind
         /\ \A a, b \in new : a = b
  BY DEF Answers

LEMMA AnswersKept ==
  ASSUME TypeOK, Registered, AnswersServed, UnknownNotServed, [Next]_vars
  PROVE  AnswersServed' /\ UnknownNotServed'
<1>1. setup' = setup /\ \A kind : Served(kind)' = Served(kind)
  <2>1. setup' = setup
    BY OnlyRegisters DEF Registers, registry
  <2> QED
    BY <2>1, SetupIsFixed
<1>2. ASSUME NEW r \in asked, Serve(r) PROVE AnswersServed' /\ UnknownNotServed'
  <2>1. made = Len(setup) /\ Holding(Asks[r]) # {} /\ unknown' = unknown
    BY <1>2 DEF Serve
  <2>2. PICK new \in Answers(r, Found(Asks[r])[1]) : answers' = answers \cup new
    BY <1>2 DEF Serve
  <2>3. Asks[r] \in Served(Found(Asks[r])[1])
    BY <2>1, FoundIfServed DEF TypeOK
  <2>4. \A a \in new : Asks[a.to] \in Served(a.by)
    BY <2>2, <2>3, AnswersAre
  <2> QED
    BY <1>1, <2>1, <2>2, <2>4 DEF AnswersServed, UnknownNotServed
<1>3. ASSUME NEW r \in asked, ServeUnknown(r) PROVE AnswersServed' /\ UnknownNotServed'
  <2>1. \A kind \in Kinds : Asks[r] \notin Served(kind)
    BY <1>3, FoundIfServed DEF ServeUnknown, TypeOK
  <2>2. answers' = answers /\ unknown' = unknown \cup {r}
    BY <1>3 DEF ServeUnknown
  <2> QED
    BY <1>1, <2>1, <2>2 DEF AnswersServed, UnknownNotServed
<1>4. CASE answers' \subseteq answers /\ unknown' = unknown
  BY <1>1, <1>4 DEF AnswersServed, UnknownNotServed
<1> QED
  BY <1>2, <1>3, <1>4 DEF Next, vars, request, Sends, ResponseArrives, loop, CallbackReturns,
                          Returns, Time, Registers, LoseRequest, LoseResponse

-----------------------------------------------------------------------------
(* Orderly use *)

\* Once a request came without a callback or from one, or a packet outlived a
\* timeout, the use is never orderly again.
LEMMA OrderlyBefore ==
  ASSUME TypeOK, [Next]_vars, Orderly'
  PROVE  Orderly
<1>1. ASSUME NEW cb \in Callbacks, request(cb) PROVE Orderly
  <2>1. sent \in Nat /\ sent' = sent + 1 /\ prompt' = prompt /\ wantsAnswer \subseteq 1..sent
    BY <1>1, Constants DEF request, Sends, TypeOK, AskerType
  <2>2. wantsAnswer' \subseteq wantsAnswer \cup {sent'}
    BY <1>1 DEF request, Sends
  <2>3. 1..sent \subseteq wantsAnswer
    BY <2>1, <2>2 DEF Orderly
  <2> QED
    BY <2>1, <2>3 DEF Orderly
<1>2. CASE Time
  BY <1>2 DEF Time, asker, Orderly
<1>3. CASE UNCHANGED <<prompt, wantsAnswer, sent>>
  BY <1>3 DEF Orderly
<1> QED
  BY <1>1, <1>2, <1>3 DEF Next, vars, asker, ResponseArrives, loop, CallbackReturns, Returns,
                          Registers, Serve, ServeUnknown, LoseRequest, LoseResponse

\* Under orderly use every request comes with a callback, and from none.
LEMMA OrderlyRequest ==
  ASSUME TypeOK, NEW cb \in Callbacks, request(cb), Orderly'
  PROVE  lastReqCb' = sent' /\ lastRequestTime' = now /\ running = <<>>
<1>1. sent \in Nat /\ sent' = sent + 1 /\ wantsAnswer \subseteq 1..sent
  BY Constants DEF request, Sends, TypeOK, AskerType
<1>2. sent' \in wantsAnswer'
  BY <1>1 DEF Orderly
<1>3. CASE cb
  <2>1. running = <<>>
    BY <1>1, <1>2, <1>3 DEF request, Sends
  <2> QED
    BY <1>3, <2>1 DEF request, Sends
<1>4. CASE ~cb
  BY <1>1, <1>2, <1>4 DEF request, Sends
<1> QED
  BY <1>3, <1>4

LEMMA InOrderInitially == Init => InOrder
  BY DEF Init, InOrder, OneUnderWay, ToldAsAsked

LEMMA OneUnderWayKept ==
  ASSUME TypeOK, CallbackKept, OneUnderWay, Orderly, Orderly', [Next]_vars
  PROVE  OneUnderWay'
<1>1. \A a \in answers : a.to \in Requests /\ a.to # 0
  BY Constants DEF TypeOK, PacketType, Response, Requests
<1>2. /\ lastReqCb = 0 => asked = {} /\ answers = {}
      /\ sent \in Nat /\ asked \subseteq 1..sent
  BY <1>1, Constants DEF OneUnderWay, TypeOK, AskerType, PacketType
<1>3. ASSUME NEW cb \in Callbacks, request(cb) PROVE OneUnderWay'
  <2>1. lastReqCb' = sent' /\ lastRequestTime' = now /\ running = <<>>
    BY <1>3, OrderlyRequest
  <2>2. /\ lastReqCb = 0 /\ asked' = asked \cup {sent'} /\ answers' = answers
        /\ UNCHANGED <<running, now>>
    BY <1>3 DEF request, Sends, callbacks, CallbackKept
  <2>3. running' = <<>>
    BY <2>1, <2>2
  <2>4. asked' = {lastReqCb'} /\ answers' = {}
    BY <1>2, <2>1, <2>2
  <2>5. ~Old'
    BY <2>1, <2>2, Constants DEF Old, TypeOK, AskerType
  <2> QED
    BY <2>2, <2>3, <2>4, <2>5 DEF OneUnderWay
<1>4. CASE ResponseArrives
  <2>1. PICK a \in answers : Calls(a) /\ answers' = answers \ {a}
    BY <1>4 DEF ResponseArrives
  <2>2. lastReqCb' = lastReqCb /\ asked' = asked
    BY <1>4, <2>1 DEF ResponseArrives, Calls
  <2>3. answers' = {} /\ asked' = {}
    BY <2>1, <2>2 DEF OneUnderWay
  <2> QED
    BY <2>3 DEF OneUnderWay
<1>5. CASE loop
  <2>1. answers' = {} /\ asked' = {}
    BY <1>5 DEF loop, OneUnderWay
  <2> QED
    BY <2>1 DEF OneUnderWay
<1>6. CASE CallbackReturns
  <2>1. answers' = {} /\ asked' = {}
    BY <1>6 DEF CallbackReturns, Returns, OneUnderWay
  <2> QED
    BY <2>1 DEF OneUnderWay
<1>7. CASE Time
  <2>1. Old' => asked = {} /\ answers = {}
    BY <1>7 DEF Time, Orderly
  <2> QED
    BY <1>7, <2>1 DEF Time, asker, callbacks, OneUnderWay
<1>8. ASSUME NEW r \in asked, Serve(r) PROVE OneUnderWay'
  <2>1. r = lastReqCb /\ answers = {} /\ asked' = {} /\ running = <<>> /\ ~Old
    BY <1>8 DEF OneUnderWay, Serve
  <2>2. PICK kind : \E new \in Answers(r, kind) : answers' = answers \cup new
    BY <1>8 DEF Serve
  <2>3. \A a, b \in answers' : a.to = r /\ a = b
    BY <2>1, <2>2, AnswersAre
  <2>4. UNCHANGED <<lastReqCb, running, lastRequestTime, now>>
    BY <1>8 DEF Serve, asker, callbacks
  <2> QED
    BY <2>1, <2>3, <2>4 DEF OneUnderWay, Old
<1>9. CASE /\ asked' \subseteq asked /\ answers' \subseteq answers
           /\ UNCHANGED <<lastReqCb, running, lastRequestTime, now>>
  BY <1>9 DEF OneUnderWay, Old
<1> QED
  BY <1>3, <1>4, <1>5, <1>6, <1>7, <1>8, <1>9
  DEF Next, vars, asker, callbacks, Registers, ServeUnknown, LoseRequest, LoseResponse

LEMMA ToldAsAskedKept ==
  ASSUME TypeOK, CallbackKept, AnswersServed, OneUnderWay, ToldAsAsked, [Next]_vars
  PROVE  ToldAsAsked'
<1> DEFINE Right(r, a) == a = R408 \/ (a.to = r /\ Asks[r] \in Served(a.by))
<1>1. \A kind : Served(kind)' = Served(kind)
  <2>1. setup' = setup
    BY OnlyRegisters DEF Registers, registry
  <2> QED
    BY <2>1, SetupIsFixed
<1>2. ASSUME NEW a \in Response \cup {R408}, Calls(a),
             lastReqCb # 0 => Right(lastReqCb, a)
      PROVE  ToldAsAsked'
  <2>1. CASE lastReqCb # 0
    <3>1. lastReqCb \in Requests /\ told[lastReqCb] \in Seq(Response \cup {R408})
      BY <1>2, <2>1, Constants DEF TypeOK, AskerType, Requests
    <3>2. told' = [told EXCEPT ![lastReqCb] = Append(@, a)]
      BY <1>2, <2>1 DEF Calls
    <3>3. \A r \in Requests :
            told'[r] = IF r = lastReqCb THEN Append(told[r], a) ELSE told[r]
      BY <3>1, <3>2 DEF TypeOK, AskerType
    <3>4. \A k \in DOMAIN Append(told[lastReqCb], a) :
            \/ k \in DOMAIN told[lastReqCb] /\ Append(told[lastReqCb], a)[k] = told[lastReqCb][k]
            \/ Append(told[lastReqCb], a)[k] = a
      BY <3>1
    <3>5. ASSUME NEW k \in DOMAIN told'[lastReqCb]
          PROVE  Right(lastReqCb, told'[lastReqCb][k])
      <4>1. told'[lastReqCb] = Append(told[lastReqCb], a)
        BY <3>1, <3>3
      <4>2. CASE k \in DOMAIN told[lastReqCb] /\ told'[lastReqCb][k] = told[lastReqCb][k]
        BY <3>1, <4>2 DEF ToldAsAsked
      <4>3. CASE told'[lastReqCb][k] = a
        BY <1>2, <2>1, <4>3
      <4> QED
        BY <3>4, <4>1, <4>2, <4>3
    <3>6. ASSUME NEW r \in Requests, r # lastReqCb, NEW k \in DOMAIN told'[r]
          PROVE  Right(r, told'[r][k])
      <4>1. told'[r] = told[r] /\ k \in DOMAIN told[r]
        BY <3>3, <3>6
      <4> QED
        BY <4>1 DEF ToldAsAsked
    <3>7. \A r \in Requests : \A k \in DOMAIN told'[r] : Right(r, told'[r][k])
      BY <3>5, <3>6
    <3> QED
      BY <1>1, <3>7 DEF ToldAsAsked
  <2>2. CASE lastReqCb = 0
    BY <1>1, <1>2, <2>2 DEF Calls, callbacks, ToldAsAsked
  <2> QED
    BY <2>1, <2>2
<1>3. CASE ResponseArrives
  <2>1. PICK a \in answers : Calls(a)
    BY <1>3 DEF ResponseArrives
  <2>2. a \in Response /\ Right(lastReqCb, a)
    BY <2>1 DEF TypeOK, PacketType, OneUnderWay, AnswersServed
  <2> QED
    BY <1>2, <1>3, <2>1, <2>2 DEF ResponseArrives
<1>4. CASE loop
  BY <1>2, <1>4 DEF loop
<1>5. CASE told' = told
  BY <1>1, <1>5 DEF ToldAsAsked
<1> QED
  BY <1>3, <1>4, <1>5 DEF Next, vars, callbacks, request, Sends, CallbackReturns, Returns, Time,
                          Registers, Serve, ServeUnknown, LoseRequest, LoseResponse

AskedInv == TypeOK /\ CallbackKept /\ Registered /\ AnswersServed /\ UnknownNotServed /\ InOrder

\* A request goes unanswered as unknown only if no table has room for the name
\* it asks for; and if every request comes with a callback and from none, and no
\* packet outlives the timeout, a callback gets the response to its own request, from
\* a table that serves the name, or R408.
THEOREM AnswersAsAsked == Spec => []AnsweredAsAsked
<1>1. Init => AskedInv
  BY TypeInitially, CallbackKeptInitially, RegisteredInitially, AnswersInitially,
     InOrderInitially DEF AskedInv
<1>2. AskedInv /\ [Next]_vars => AskedInv'
  <2> SUFFICES ASSUME AskedInv, [Next]_vars PROVE AskedInv'
    OBVIOUS
  <2>1. TypeOK' /\ Registered'
    BY RegistryTypeKept, AskerTypeKept, PacketTypeKept, RegisteredKept DEF AskedInv, TypeOK
  <2>2. CallbackKept' /\ AnswersServed' /\ UnknownNotServed'
    BY CallbackKeptKept, AnswersKept DEF AskedInv
  <2>3. InOrder'
    <3> SUFFICES ASSUME Orderly' PROVE OneUnderWay' /\ ToldAsAsked'
      BY DEF InOrder
    <3>1. Orderly /\ OneUnderWay /\ ToldAsAsked
      BY OrderlyBefore DEF AskedInv, InOrder
    <3> QED
      BY <3>1, OneUnderWayKept, ToldAsAskedKept DEF AskedInv
  <2> QED
    BY <2>1, <2>2, <2>3 DEF AskedInv
<1>3. AskedInv => AnsweredAsAsked
  BY DEF AskedInv, AnsweredAsAsked, UnknownNotServed, InOrder, ToldAsAsked, OwnResponse
<1> QED
  BY <1>1, <1>2, <1>3, PTL DEF Spec

=============================================================================
