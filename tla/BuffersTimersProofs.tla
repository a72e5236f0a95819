------------------------- MODULE BuffersTimersProofs -------------------------
(***************************************************************************)
(* The buffers and the timers of the libraries, for every size:            *)
(*   - the ring of Mesh keeps its pointers and its count in agreement, and *)
(*     is a bounded queue;                                                 *)
(*   - the timers of SimpleTimer are called back when they are due;        *)
(*   - the rings of WSerial and of SoftwareSerial lose and reorder nothing *)
(*     but what the code drops;                                            *)
(*   - the timers of the network stack keep time, however many are in the  *)
(*     list.                                                               *)
(***************************************************************************)
EXTENDS PacketBuffer, SimpleTimer, WSerial, SoftwareSerial, SysTimer, DataLemmas,
        SequenceTheorems, FiniteSetTheorems, NaturalsInduction, WellFoundedInduction, TLAPS

-----------------------------------------------------------------------------
(* PacketBuffer *)

IInv == TypeOK /\ Agreement

LEMMA InitIInv == Init => IInv
  BY SizeAssumption, SMT DEF Init, IInv, TypeOK, Agreement, Wrap, First, Place, Indices

LEMMA InsertIInv ==
  ASSUME IInv, Insert
  PROVE  IInv'
  <1> USE SizeAssumption DEF IInv, TypeOK, Agreement, Wrap, First, Place, Indices, consumer
  <1>1. ASSUME NEW p \in Packets, InsertCheck(p)
        PROVE  IInv'
    BY <1>1 DEF InsertCheck
  <1>2. CASE InsertCopy
    BY <1>2 DEF InsertCopy
  <1>3. CASE InsertAdvance
    BY <1>3 DEF InsertAdvance, Next1
  <1>4. CASE InsertPublish
    BY <1>4 DEF InsertPublish
  <1> QED
    BY <1>1, <1>2, <1>3, <1>4 DEF Insert

LEMMA RemoveIInv ==
  ASSUME IInv, RemovePacket
  PROVE  IInv'
  <1> USE SizeAssumption DEF IInv, TypeOK, Agreement, Wrap, First, Place, Indices, producer
  <1>1. CASE RemoveCheck
    BY <1>1 DEF RemoveCheck
  <1>2. CASE RemoveCopy
    BY <1>2 DEF RemoveCopy
  <1>3. CASE RemoveAdvance
    BY <1>3 DEF RemoveAdvance, Next1
  <1>4. CASE RemoveRelease
    BY <1>4 DEF RemoveRelease
  <1> QED
    BY <1>1, <1>2, <1>3, <1>4 DEF RemovePacket

LEMMA Invariance == Spec => []IInv
  <1>1. IInv /\ [Next]_vars => IInv'
    <2> SUFFICES ASSUME IInv, [Next]_vars PROVE IInv'
      OBVIOUS
    <2>1. CASE UNCHANGED vars
      BY <2>1 DEF vars, producer, consumer, IInv, TypeOK, Agreement, First, Place
    <2> QED
      BY <2>1, InsertIInv, RemoveIInv DEF Next
  <1> QED
    BY <1>1, InitIInv, PTL DEF Spec

\* The pointers, the count and the packets under way agree between any two
\* statements of RxBuffer_insert and RxBuffer_remove.
THEOREM RingAgrees == Spec => []Agreement
  <1>1. IInv => Agreement
    BY DEF IInv
  <1> QED
    BY <1>1, Invariance, PTL

-----------------------------------------------------------------------------
(* Refinement *)

LEMMA HeldType ==
  ASSUME IInv
  PROVE  /\ Held \in Seq(Packets) /\ Len(Held) = count
         /\ \A k \in 1..count : Place(k) \in Indices /\ Held[k] = slots[Place(k)]
  <1>1. count \in Nat
    BY SizeAssumption DEF IInv, TypeOK
  <1>2. \A k \in 1..count : Place(k) \in Indices
    BY SizeAssumption DEF IInv, TypeOK, Place, First, Wrap, Indices
  <1>3. \A k \in 1..count : slots[Place(k)] \in Packets
    BY <1>2 DEF IInv, TypeOK
  <1> QED
    BY <1>1, <1>2, <1>3, IsASeq DEF Held

\* A step that moves no packet in or out shows the queue nothing.
LEMMA Stutters ==
  ASSUME IInv, IInv', count' = count, out' = out,
         \A k \in 1..count : Place(k)' = Place(k) /\ slots'[Place(k)] = slots[Place(k)]
  PROVE  UNCHANGED Queue!fvars
  <1>1. Held' = Held
    BY DEF Held
  <1> QED
    BY <1>1 DEF Queue!fvars

LEMMA Publishes ==
  ASSUME IInv, IInv', InsertPublish
  PROVE  Queue!Put(item)
  <1>1. /\ count \in 0..Size /\ count < Size /\ count' = count + 1
        /\ slots' = slots /\ out' = out /\ item \in Packets
        /\ slots[Place(count + 1)] = item
    BY DEF IInv, TypeOK, Agreement, InsertPublish, consumer
  <1>2. \A k \in 1..(count + 1) : Place(k)' = Place(k)
    BY DEF Place, First, InsertPublish, consumer, Wrap
  <1>3. /\ Held \in Seq(Packets) /\ Len(Held) = count
        /\ Held' \in Seq(Packets) /\ Len(Held') = count + 1
        /\ \A k \in 1..count : Held[k] = slots[Place(k)]
        /\ \A k \in 1..(count + 1) : Held'[k] = slots[Place(k)]
    <2>1. Held' = [k \in 1..(count + 1) |-> slots[Place(k)]]
      BY <1>1, <1>2 DEF Held
    <2>2. \A k \in 1..(count + 1) : Place(k) \in Indices /\ slots[Place(k)] \in Packets
      BY <1>1, SizeAssumption DEF IInv, TypeOK, Place, First, Wrap, Indices
    <2>3. Held' \in Seq(Packets) /\ Len(Held') = count + 1
      BY <1>1, <2>1, <2>2, IsASeq
    <2> QED
      BY <2>1, <2>3, HeldType
  <1>4. Held' = Append(Held, item)
    <2>1. /\ Append(Held, item) \in Seq(Packets) /\ Len(Append(Held, item)) = count + 1
          /\ \A k \in 1..count : Append(Held, item)[k] = Held[k]
          /\ Append(Held, item)[count + 1] = item
      BY <1>1, <1>3, AppendProperties
    <2>2. \A k \in 1..(count + 1) : Held'[k] = Append(Held, item)[k]
      BY <1>1, <1>3, <2>1, SizeAssumption
    <2> QED
      BY <1>3, <2>1, <2>2, SeqEqual
  <1> QED
    BY <1>1, <1>3, <1>4 DEF Queue!Put

LEMMA Releases ==
  ASSUME IInv, IInv', RemoveRelease
  PROVE  Queue!Get
  <1>1. /\ count \in 1..Size /\ count' = count - 1
        /\ slots' = slots /\ out' = taken
        /\ slots[First] = taken /\ First \in Indices
    BY SizeAssumption DEF IInv, TypeOK, Agreement, RemoveRelease, First, Indices
  <1>2. \A k \in 1..(count - 1) : Place(k)' = Place(k + 1)
    BY <1>1, SizeAssumption DEF IInv, TypeOK, Place, First, RemoveRelease, Wrap, Indices
  <1>3. Place(1) = First
    BY <1>1, SizeAssumption DEF Place, Wrap, Indices
  <1>4. /\ Held \in Seq(Packets) /\ Len(Held) = count
        /\ Held' \in Seq(Packets) /\ Len(Held') = count - 1
        /\ \A k \in 1..count : Held[k] = slots[Place(k)]
        /\ \A k \in 1..(count - 1) : Held'[k] = slots[Place(k + 1)]
    <2>1. Held' = [k \in 1..(count - 1) |-> slots[Place(k + 1)]]
      BY <1>1, <1>2 DEF Held
    <2>2. \A k \in 1..(count - 1) : slots[Place(k + 1)] \in Packets
      BY <1>1, SizeAssumption DEF IInv, TypeOK, Place, First, Wrap, Indices
    <2>3. Held' \in Seq(Packets) /\ Len(Held') = count - 1
      BY <1>1, <2>1, <2>2, IsASeq
    <2> QED
      BY <2>1, <2>3, HeldType
  <1>5. Held # <<>> /\ Held[1] = taken
    BY <1>1, <1>3, <1>4
  <1>6. Held' = Tail(Held)
    <2>1. /\ Tail(Held) \in Seq(Packets) /\ Len(Tail(Held)) = count - 1
          /\ \A k \in 1..(count - 1) : Tail(Held)[k] = Held[k + 1]
      BY <1>4, <1>5, HeadTailProperties
    <2>2. \A k \in 1..(count - 1) : Held'[k] = Tail(Held)[k]
      BY <1>1, <1>4, <2>1, SMTT(20)
    <2> QED
      BY <1>4, <2>1, <2>2, SeqEqual
  <1>7. Head(Held) = taken
    BY <1>4, <1>5
  <1> QED
    BY <1>1, <1>5, <1>6, <1>7 DEF Queue!Get

\* RxBuffer and TxBuffer are bounded queues: a packet comes out once, whole,
\* in the order it went in, between whatever statements of the other side.
THEOREM RingIsQueue == Spec => ImplementsFifo
  <1>1. Init => Queue!Init
    <2> SUFFICES ASSUME Init PROVE Queue!Init
      OBVIOUS
    <2>1. Held = <<>> /\ out \in Packets
      BY DEF Init, Held
    <2> QED
      BY <2>1 DEF Queue!Init
  <1>2. IInv /\ IInv' /\ [Next]_vars => [Queue!Next]_Queue!fvars
    <2> SUFFICES ASSUME IInv, IInv', [Next]_vars
                 PROVE  Queue!Next \/ UNCHANGED Queue!fvars
      OBVIOUS
    <2>1. CASE InsertPublish
      BY <2>1, Publishes DEF Queue!Next, IInv, TypeOK
    <2>2. CASE RemoveRelease
      BY <2>2, Releases DEF Queue!Next
    <2>3. CASE InsertCopy
      <3>1. \A k \in 1..count : Place(k) # head
        BY <2>3, SizeAssumption
           DEF IInv, TypeOK, Agreement, InsertCopy, Place, First, Wrap, Indices
      <3>2. \A k \in 1..count : Place(k) \in Indices /\ Place(k)' = Place(k)
        BY <2>3, HeldType DEF InsertCopy, consumer, Place, First, Wrap
      <3>3. \A k \in 1..count : slots'[Place(k)] = slots[Place(k)]
        BY <2>3, <3>1, <3>2 DEF InsertCopy, IInv, TypeOK
      <3> QED
        BY <2>3, <3>2, <3>3, Stutters DEF InsertCopy, consumer
    <2>4. CASE RemoveAdvance
      <3>1. First' = First
        BY <2>4, SizeAssumption DEF IInv, TypeOK, RemoveAdvance, Next1, First, Indices
      <3> QED
        BY <2>4, <3>1, Stutters DEF RemoveAdvance, Place
    <2>5. CASE (\E p \in Packets : InsertCheck(p)) \/ InsertAdvance
      <3>1. UNCHANGED <<slots, tail, count, remover, out>>
        BY <2>5 DEF InsertCheck, InsertAdvance, consumer
      <3> QED
        BY <3>1, Stutters DEF Place, First
    <2>6. CASE RemoveCheck \/ RemoveCopy
      <3>1. UNCHANGED <<slots, tail, count, out>> /\ First' = First
        BY <2>6 DEF RemoveCheck, RemoveCopy, First
      <3> QED
        BY <3>1, Stutters DEF Place
    <2>7. CASE UNCHANGED vars
      BY <2>7, Stutters DEF vars, consumer, Place, First
    <2> QED
      BY <2>1, <2>2, <2>3, <2>4, <2>5, <2>6, <2>7 DEF Next, Insert, RemovePacket
  <1> QED
    BY <1>1, <1>2, Invariance, PTL DEF Spec, Queue!Spec, ImplementsFifo

-----------------------------------------------------------------------------
(* Arithmetic *)

LEMMA DivMod ==
  ASSUME NEW S \in Nat \ {0}, NEW a \in Int
  PROVE  (a % S) \in 0..(S - 1) /\ a \div S \in Int /\ a = S * (a \div S) + (a % S)
  OBVIOUS

\* Only one multiple of S lies between -S and S.
LEMMA SmallMultiple ==
  ASSUME NEW S \in Nat \ {0}, NEW k \in Int, S * k < S, -S < S * k
  PROVE  k = 0
<1>1. CASE k >= 1
  <2>1. S * k = S + S * (k - 1)
    OBVIOUS
  <2>2. S * (k - 1) >= 0
    BY <1>1
  <2> QED
    BY <2>1, <2>2, S * (k - 1) \in Int
<1>2. CASE k <= -1
  <2>1. S * k = -S + S * (k + 1)
    OBVIOUS
  <2>2. S * (k + 1) <= 0
    BY <1>2
  <2> QED
    BY <2>1, <2>2, S * (k + 1) \in Int
<1> QED
  BY <1>1, <1>2

LEMMA RemainderIs ==
  ASSUME NEW S \in Nat \ {0}, NEW q \in Int, NEW r \in 0..(S - 1), NEW a \in Int, a = S * q + r
  PROVE  (a % S) = r
<1> DEFINE p == a \div S
<1>1. (a % S) \in 0..(S - 1) /\ p \in Int /\ a = S * p + (a % S)
  BY DivMod
<1> HIDE DEF p
<1>2. S * (p - q) = S * p - S * q
  BY <1>1
<1>3. S * (p - q) = r - (a % S)
  BY <1>1, <1>2
<1>4. p - q = 0
  BY <1>1, <1>3, SmallMultiple
<1>5. p = q
  BY <1>1, <1>4
<1> QED
  BY <1>1, <1>5

\* Numbers that differ by a multiple of S have one remainder.
LEMMA SameRemainder ==
  ASSUME NEW S \in Nat \ {0}, NEW a \in Int, NEW b \in Int, NEW k \in Int, a = b + S * k
  PROVE  (a % S) = (b % S)
<1> DEFINE q == b \div S
           r == b % S
<1>1. r \in 0..(S - 1) /\ q \in Int /\ b = S * q + r
  BY DivMod
<1> HIDE DEF q, r
<1>2. S * (q + k) = S * q + S * k /\ q + k \in Int
  BY <1>1
<1>3. a = S * (q + k) + r
  BY <1>1, <1>2
<1>4. (a % S) = r
  BY <1>1, <1>2, <1>3, RemainderIs
<1> QED
  BY <1>4 DEF r

\* What wraps before an addition or a subtraction may as well wrap after it.
LEMMA WrapsLater ==
  ASSUME NEW S \in Nat \ {0}, NEW a \in Int, NEW b \in Int
  PROVE  /\ ((a % S) + b) % S = (a + b) % S
         /\ ((a % S) - (b % S)) % S = (a - b) % S
         /\ (a % S) \in Int /\ (b % S) \in Int
<1> DEFINE p == a \div S
           q == b \div S
           r == a % S
           t == b % S
<1>1. r \in 0..(S - 1) /\ p \in Int /\ a = S * p + r
  BY DivMod
<1>2. t \in 0..(S - 1) /\ q \in Int /\ b = S * q + t
  BY DivMod
<1> HIDE DEF p, q, r, t
<1>3. S * (q - p) = S * q - S * p /\ S * (-p) = -(S * p) /\ q - p \in Int /\ -p \in Int
  BY <1>1, <1>2
<1>4. r + b = a + b + S * (-p) /\ r - t = a - b + S * (q - p)
  BY <1>1, <1>2, <1>3
<1> DEFINE x == r + b
           y == a + b
           z == r - t
           w == a - b
           m == q - p
<1>5. /\ x \in Int /\ y \in Int /\ x = y + S * (-p)
      /\ z \in Int /\ w \in Int /\ z = w + S * m /\ m \in Int
  BY <1>1, <1>2, <1>4
<1> HIDE DEF x, y, z, w, m
<1>6. (x % S) = (y % S)
  BY <1>3, <1>5, SameRemainder
<1>7. (z % S) = (w % S)
  BY <1>5, SameRemainder
<1> QED
  BY <1>1, <1>2, <1>6, <1>7 DEF r, t, x, y, z, w

\* A remainder is no more than the number.
LEMMA RemainderIsLess ==
  ASSUME NEW S \in Nat \ {0}, NEW a \in Nat
  PROVE  (a % S) \in Nat /\ (a % S) <= a
<1> DEFINE q == a \div S
           r == a % S
<1>1. r \in 0..(S - 1) /\ q \in Int /\ a = S * q + r
  BY DivMod
<1> HIDE DEF q, r
<1>2. q >= 0
  <2>1. SUFFICES ASSUME q <= -1 PROVE FALSE
    BY <1>1
  <2>2. S * q = -S + S * (q + 1) /\ S * (q + 1) <= 0 /\ S * (q + 1) \in Int
    BY <1>1, <2>1
  <2> QED
    BY <1>1, <2>2
<1>3. S * q >= 0 /\ S * q \in Int
  BY <1>1, <1>2
<1> QED
  BY <1>1, <1>3 DEF r

Less == {p \in Nat \X Nat : p[1] < p[2]}

LEMMA MinIsOne ==
  ASSUME NEW T \in SUBSET Nat, T # {}
  PROVE  Min(T) \in T
<1>1. IsWellFoundedOn(Less, Nat)
  BY NatLessThanWellFounded, Zenon DEF OpToRel, Less
<1>2. PICK x \in T : \A y \in T : <<y, x>> \notin Less
  BY <1>1, WFMin, Zenon
<1>3. ASSUME NEW y \in T PROVE x =< y
  <2>1. x \in Nat /\ y \in Nat /\ <<y, x>> \notin Less
    BY <1>2
  <2>2. ~(y < x)
    BY <2>1 DEF Less
  <2> QED
    BY <2>1, <2>2
<1> QED
  BY <1>2, <1>3 DEF Min

-----------------------------------------------------------------------------
(* SimpleTimer *)

\* The slots run has still to call back in this pass, and how often.
Pending(i) ==
  /\ pass # -1 /\ toBeCalled[i] # "dontRun"
  /\ i > pass \/ (i = pass /\ called = "no")
Left(i) == IF Pending(i) THEN 1 ELSE 0

TimerType ==
  [callback : BOOLEAN, delay : Nat, max : Nat, runs : Nat, enabled : BOOLEAN,
   prev : 0..(ClockRange - 1), born : Nat, called : Nat]

TimerTypes ==
  /\ slot \in [Slots -> TimerType] /\ clock \in Nat /\ orderly \in BOOLEAN
  /\ toBeCalled \in [Slots -> {"dontRun", "runOnly", "runAndDel"}]
  /\ pass \in Slots \cup {-1} /\ called \in {"no", "runOnly", "runAndDel"}
  /\ called # "no" => pass # -1

\* prev stands for a moment p in the past; every call, made or collected, is
\* a delay of its own between the timer's setting and p.
Elapsed(i) ==
  slot[i].callback =>
    \E p \in 0..clock : /\ p % ClockRange = slot[i].prev
                        /\ slot[i].born + (slot[i].called + Left(i)) * slot[i].delay <= p

\* Runs that are counted are called back, and the last one comes last.
RunsCounted(i) ==
  /\ Pending(i) => slot[i].callback
  /\ slot[i].runs <= slot[i].called + Left(i)
  /\ ~slot[i].callback => slot[i].runs = 0
  /\ Pending(i) /\ toBeCalled[i] = "runAndDel" => slot[i].runs >= slot[i].max

\* The timer whose callback runs is still there, and has had its runs when
\* run means to delete it.
CallerStays ==
  called # "no" /\ orderly =>
    /\ slot[pass].callback
    /\ called = "runAndDel" => slot[pass].called >= slot[pass].max

InUseTimers == {i \in Slots : slot[i].callback}

TimerInv ==
  /\ TimerTypes
  /\ \A i \in Slots : Elapsed(i) /\ RunsCounted(i)
  /\ CallerStays
  /\ numTimers = Cardinality(InUseTimers) /\ (orderly => ~cut)

LEMMA TimerConstants ==
  MaxTimers \in Nat \ {0} /\ ClockRange \in Nat \ {0} /\ Delays \subseteq Nat /\ Runs \subseteq Nat
  BY SimpleTimerAssumption

LEMMA ElapsedNowType ==
  ASSUME clock \in Nat
  PROVE  elapsedNow \in 0..(ClockRange - 1)
  BY TimerConstants, DivMod DEF elapsedNow

\* A product with one factor one larger.
LEMMA OnceMore ==
  ASSUME NEW c \in Nat, NEW d \in Nat
  PROVE  (c + 1) * d = c * d + d /\ c * d \in Nat
  OBVIOUS

LEMMA TimersInitially == SimpleTimerInit => TimerInv
<1> SUFFICES ASSUME SimpleTimerInit PROVE TimerInv
  OBVIOUS
<1> USE TimerConstants
<1>1. TimerTypes
  <2>1. NoTimer \in TimerType
    BY DEF NoTimer, TimerType
  <2>2. orderly \in BOOLEAN
    BY DEF SimpleTimerInit
  <2> QED
    BY <2>1, <2>2 DEF SimpleTimerInit, TimerTypes
<1>2. \A i \in Slots : ~slot[i].callback /\ slot[i].runs = 0 /\ slot[i].called = 0 /\ ~Pending(i)
  BY DEF SimpleTimerInit, NoTimer, Pending
<1>3. InUseTimers = {} /\ ~cut
  BY <1>2 DEF InUseTimers, SimpleTimerInit
<1> QED
  BY <1>1, <1>2, <1>3, FS_EmptySet DEF TimerInv, Elapsed, RunsCounted, Left, CallerStays, SimpleTimerInit

-----------------------------------------------------------------------------
(* One slot in one step *)

\* Nothing happens to a timer but that time passes.
LEMMA SlotKept ==
  ASSUME TimerTypes, NEW i \in Slots, Elapsed(i), RunsCounted(i),
         clock' \in Nat, clock <= clock',
         slot'[i] = slot[i], toBeCalled'[i] = toBeCalled[i], Pending(i)' <=> Pending(i)
  PROVE  Elapsed(i)' /\ RunsCounted(i)'
<1>1. Left(i)' = Left(i)
  BY DEF Left
<1>2. 0..clock \subseteq 0..clock'
  BY DEF TimerTypes
<1>3. Elapsed(i)'
  BY <1>1, <1>2 DEF Elapsed
<1> QED
  BY <1>1, <1>3 DEF RunsCounted

\* A slot is free, and nothing is collected for it.
LEMMA SlotFreed ==
  ASSUME NEW i \in Slots, slot'[i].callback = FALSE, slot'[i].runs = 0, slot'[i].called = 0,
         ~Pending(i)'
  PROVE  Elapsed(i)' /\ RunsCounted(i)'
  BY DEF Elapsed, RunsCounted, Left

\* The next moment a period can start from: now.
LEMMA StartsNow ==
  ASSUME TimerTypes, TimerTypes', NEW i \in Slots,
         clock' = clock, slot'[i].prev = elapsedNow,
         slot'[i].born + (slot'[i].called + Left(i)') * slot'[i].delay <= clock
  PROVE  Elapsed(i)'
  BY DEF Elapsed, TimerTypes, elapsedNow

LEMMA SlotRestarted ==
  ASSUME TimerTypes, TimerTypes', NEW i \in Slots, Elapsed(i), RunsCounted(i),
         slot'[i] = [slot[i] EXCEPT !.prev = elapsedNow],
         UNCHANGED <<clock, toBeCalled, pass, called>>
  PROVE  Elapsed(i)' /\ RunsCounted(i)'
<1>0. slot[i] \in TimerType /\ clock \in Nat
  BY DEF TimerTypes
<1>1. /\ slot'[i].prev = elapsedNow /\ slot'[i].callback = slot[i].callback
      /\ slot'[i].born = slot[i].born /\ slot'[i].called = slot[i].called
      /\ slot'[i].delay = slot[i].delay /\ slot'[i].runs = slot[i].runs
      /\ slot'[i].max = slot[i].max
  BY <1>0 DEF TimerType
<1>2. (Pending(i)' <=> Pending(i)) /\ Left(i)' = Left(i)
  BY DEF Pending, Left
<1>3. Elapsed(i)'
  <2>1. SUFFICES ASSUME slot[i].callback PROVE Elapsed(i)'
    BY <1>1 DEF Elapsed
  <2>2. PICK p \in 0..clock : slot[i].born + (slot[i].called + Left(i)) * slot[i].delay <= p
    BY <2>1 DEF Elapsed
  <2>3. (slot[i].called + Left(i)) * slot[i].delay \in Nat
    <3>1. slot[i].called + Left(i) \in Nat /\ slot[i].delay \in Nat
      BY <1>0 DEF TimerType, Left
    <3> QED
      BY <3>1
  <2>4. slot[i].born + (slot[i].called + Left(i)) * slot[i].delay <= clock
    BY <1>0, <2>2, <2>3 DEF TimerType
  <2> QED
    BY <1>1, <1>2, <2>4, StartsNow
<1> QED
  BY <1>1, <1>2, <1>3 DEF RunsCounted

\* run collects: what is due has a period more, and a call more to come.
LEMMA SlotCollected ==
  ASSUME TimerTypes, TimerTypes', NEW i \in Slots, Elapsed(i), RunsCounted(i), Collect
  PROVE  Elapsed(i)' /\ RunsCounted(i)'
<1> DEFINE t == slot[i]
<1>0. /\ t.callback \in BOOLEAN /\ t.delay \in Nat /\ t.max \in Nat /\ t.runs \in Nat
      /\ t.prev \in 0..(ClockRange - 1) /\ t.born \in Nat /\ t.called \in Nat
      /\ clock \in Nat /\ MaxTimers \in Nat \ {0}
  BY TimerConstants DEF TimerTypes, TimerType
<1>1. /\ slot'[i] = [t EXCEPT !.prev = IF IsDue(t) THEN (@ + t.delay) % ClockRange ELSE @,
                              !.runs = IF Counts(t) THEN @ + 1 ELSE @]
      /\ toBeCalled'[i] = Collected(t)
      /\ pass = -1 /\ pass' = 0 /\ called' = called /\ clock' = clock
  BY DEF Collect
<1>2. /\ slot'[i].prev = IF IsDue(t) THEN (t.prev + t.delay) % ClockRange ELSE t.prev
      /\ slot'[i].runs = IF Counts(t) THEN t.runs + 1 ELSE t.runs
      /\ slot'[i].callback = t.callback /\ slot'[i].delay = t.delay /\ slot'[i].max = t.max
      /\ slot'[i].born = t.born /\ slot'[i].called = t.called
  <2>1. t \in TimerType
    BY DEF TimerTypes
  <2> QED
    BY <1>1, <2>1 DEF TimerType
<1>3. ~Pending(i) /\ Left(i) = 0
  BY <1>1 DEF Pending, Left
<1>4. Pending(i)' => IsDue(t)
  BY <1>1 DEF Pending, Collected, Counts
<1>5. (Counts(t) => Pending(i)') /\ (Pending(i)' /\ toBeCalled'[i] = "runAndDel" => Counts(t) /\ t.runs + 1 >= t.max)
  <2>1. called = "no"
    BY <1>1 DEF TimerTypes
  <2>2. i > 0 \/ i = 0
    BY DEF Slots
  <2> QED
    BY <1>0, <1>1, <2>1, <2>2 DEF Pending, Collected, Slots
<1> HIDE DEF t
<1>6. RunsCounted(i)'
  <2>1. t.runs <= t.called /\ (~t.callback => t.runs = 0)
    BY <1>0, <1>3 DEF RunsCounted, t
  <2>2. Pending(i)' => t.callback
    BY <1>4 DEF IsDue
  <2>3. slot'[i].runs <= t.called + Left(i)'
    BY <1>0, <1>2, <1>5, <2>1 DEF Left
  <2>4. ~t.callback => ~Counts(t)
    BY DEF Counts, IsDue
  <2> QED
    BY <1>0, <1>2, <1>5, <2>1, <2>2, <2>3, <2>4 DEF RunsCounted
<1>7. Elapsed(i)'
  <2> SUFFICES ASSUME t.callback
               PROVE  \E p \in 0..clock : /\ p % ClockRange = slot'[i].prev
                                          /\ t.born + (t.called + Left(i)') * t.delay <= p
    BY <1>1, <1>2 DEF Elapsed
  <2>1. PICK p \in 0..clock : p % ClockRange = t.prev /\ t.born + t.called * t.delay <= p
    BY <1>0, <1>3 DEF Elapsed, t
  <2>2. CASE IsDue(t)
    <3>0. p \in Int /\ t.delay \in Int /\ clock \in Int /\ ClockRange \in Nat \ {0}
      BY <1>0, TimerConstants
    <3>1. (p + t.delay) % ClockRange = (t.prev + t.delay) % ClockRange
      <4>1. ((p % ClockRange) + t.delay) % ClockRange = (p + t.delay) % ClockRange
        BY <3>0, WrapsLater, Zenon
      <4> QED
        BY <2>1, <4>1, Zenon
    <3>2. ((clock - p) % ClockRange) >= t.delay
      <4>1. ((clock % ClockRange) - (p % ClockRange)) % ClockRange = (clock - p) % ClockRange
        BY <3>0, WrapsLater, Zenon
      <4>2. (elapsedNow - t.prev) % ClockRange = (clock - p) % ClockRange
        BY <2>1, <4>1, Zenon DEF elapsedNow
      <4>3. ((elapsedNow - t.prev) % ClockRange) >= t.delay
        BY <2>2, Zenon DEF IsDue
      <4> QED
        BY <4>2, <4>3, Zenon
    <3>3. p + t.delay \in 0..clock
      <4>1. clock - p \in Nat /\ p \in Nat
        BY <1>0
      <4>2. ((clock - p) % ClockRange) \in Nat /\ ((clock - p) % ClockRange) <= clock - p
        BY <4>1, RemainderIsLess, TimerConstants
      <4> DEFINE e == (clock - p) % ClockRange
      <4>3. e \in Nat /\ e <= clock - p /\ e >= t.delay
        BY <3>2, <4>2
      <4> HIDE DEF e
      <4> QED
        BY <1>0, <4>1, <4>3
    <3>4. t.born + (t.called + Left(i)') * t.delay <= p + t.delay
      <4>1. CASE Left(i)' = 0
        <5>1. (t.called + Left(i)') * t.delay = t.called * t.delay /\ t.called * t.delay \in Nat
          BY <1>0, <4>1, OnceMore
        <5> QED
          BY <1>0, <2>1, <5>1
      <4>2. CASE Left(i)' = 1
        <5>1. (t.called + Left(i)') * t.delay = t.called * t.delay + t.delay /\ t.called * t.delay \in Nat
          BY <1>0, <4>2, OnceMore
        <5> QED
          BY <1>0, <2>1, <5>1
      <4> QED
        BY <4>1, <4>2 DEF Left
    <3> QED
      BY <1>2, <2>2, <3>1, <3>3, <3>4
  <2>3. CASE ~IsDue(t)
    <3>1. Left(i)' = 0 /\ t.called + Left(i)' = t.called
      BY <1>0, <1>4, <2>3 DEF Left
    <3> QED
      BY <1>2, <2>1, <2>3, <3>1
  <2> QED
    BY <2>2, <2>3
<1> QED
  BY <1>6, <1>7

\* The callback is called: the call to come is one that was made.
LEMMA SlotCalled ==
  ASSUME TimerTypes, TimerTypes', NEW i \in Slots, Elapsed(i), RunsCounted(i), CallsBack
  PROVE  Elapsed(i)' /\ RunsCounted(i)'
<1>1. CASE i # pass
  <2>1. slot'[i] = slot[i] /\ toBeCalled' = toBeCalled /\ clock' = clock /\ clock \in Nat
    BY <1>1 DEF CallsBack, TimerTypes
  <2>2. Pending(i)' <=> Pending(i)
    BY <1>1 DEF CallsBack, Pending
  <2> QED
    BY <2>1, <2>2, SlotKept
<1>2. CASE i = pass
  <2>0. slot[i] \in TimerType /\ slot[i].called \in Nat /\ i \in Int
    BY TimerConstants DEF TimerTypes, TimerType, Slots
  <2>1. slot'[i] = [slot[i] EXCEPT !.called = @ + 1] /\ clock' = clock /\ toBeCalled' = toBeCalled
    BY <1>2 DEF CallsBack, TimerTypes
  <2>2. /\ slot'[i].called = slot[i].called + 1 /\ slot'[i].callback = slot[i].callback
        /\ slot'[i].delay = slot[i].delay /\ slot'[i].max = slot[i].max
        /\ slot'[i].born = slot[i].born /\ slot'[i].runs = slot[i].runs
        /\ slot'[i].prev = slot[i].prev
    BY <2>0, <2>1 DEF TimerType
  <2>3. Pending(i) /\ Left(i) = 1 /\ ~Pending(i)' /\ Left(i)' = 0
    <3>1. called' # "no" /\ called = "no" /\ pass' = pass /\ toBeCalled[pass] # "dontRun" /\ pass # -1
      BY <1>2 DEF CallsBack, TimerTypes
    <3> QED
      BY <1>2, <2>0, <3>1 DEF Pending, Left
  <2>4. slot'[i].called + Left(i)' = slot[i].called + Left(i)
    BY <2>0, <2>2, <2>3
  <2> QED
    BY <2>1, <2>2, <2>3, <2>4 DEF Elapsed, RunsCounted
<1> QED
  BY <1>1, <1>2

-----------------------------------------------------------------------------
(* Every step keeps the invariant *)

LEMMA SlotsAreFinite == IsFiniteSet(Slots) /\ Cardinality(Slots) = MaxTimers /\ Slots \subseteq Nat
  BY TimerConstants, FS_Interval DEF Slots

LEMMA InUseFinite == IsFiniteSet(InUseTimers) /\ InUseTimers \subseteq Slots
<1>1. InUseTimers \in SUBSET Slots
  BY DEF InUseTimers
<1> QED
  BY <1>1, SlotsAreFinite, FS_Subset

\* With fewer timers than slots, findFirstFreeSlot finds a free one.
LEMMA FreeIsFree ==
  ASSUME TimerInv, NEW f \in findFirstFreeSlot
  PROVE  f \in Slots /\ ~slot[f].callback
<1> DEFINE FreeSlots == {i \in Slots : ~slot[i].callback}
<1>1. numTimers < MaxTimers /\ f = Min(FreeSlots)
  <2>1. ~(numTimers >= MaxTimers) /\ f = Min(FreeSlots)
    BY DEF findFirstFreeSlot
  <2>2. numTimers \in Nat /\ MaxTimers \in Nat
    BY InUseFinite, FS_CardinalityType, TimerConstants DEF TimerInv
  <2> QED
    BY <2>1, <2>2
<1>2. FreeSlots # {}
  <2>1. SUFFICES ASSUME FreeSlots = {} PROVE FALSE
    OBVIOUS
  <2>2. InUseTimers = Slots
    BY <2>1 DEF InUseTimers
  <2> QED
    BY <1>1, <2>2, SlotsAreFinite, TimerConstants DEF TimerInv
<1>3. FreeSlots \in SUBSET Nat
  BY SlotsAreFinite
<1>4. Min(FreeSlots) \in FreeSlots
  BY <1>2, <1>3, MinIsOne
<1> QED
  BY <1>1, <1>4

\* The sketch acts between two passes, or in a callback: what is still to be
\* called back stays so as long as neither pass nor the table of it changes.
LEMMA PendingStays ==
  ASSUME NEW i \in Slots, UNCHANGED <<pass, called>>, toBeCalled'[i] = toBeCalled[i]
  PROVE  Pending(i)' <=> Pending(i)
  BY DEF Pending

LEMMA SetKeeps ==
  ASSUME TimerInv, NEW d \in Delays, NEW n \in Runs, setTimer(d, n)
  PROVE  TimerInv'
<1> DEFINE New(f) == [slot[f] EXCEPT !.callback = TRUE, !.delay = d, !.max = n, !.enabled = TRUE,
                                     !.prev = elapsedNow, !.born = clock, !.called = 0]
<1>1. PICK f \in findFirstFreeSlot : slot' = [slot EXCEPT ![f] = New(f)]
  BY Zenon DEF setTimer
<1>2. f \in Slots /\ ~slot[f].callback
  BY <1>1, FreeIsFree
<1>3. /\ TimerTypes /\ CallerStays /\ slot[f] \in TimerType /\ d \in Nat /\ n \in Nat
      /\ elapsedNow \in 0..(ClockRange - 1) /\ clock \in Nat
  BY <1>2, TimerConstants, ElapsedNowType DEF TimerInv, TimerTypes
<1>4. UNCHANGED <<toBeCalled, pass, called, clock, orderly, cut>> /\ numTimers' = numTimers + 1
  BY DEF setTimer
<1>5. /\ New(f) \in TimerType /\ New(f).callback = TRUE /\ New(f).delay = d /\ New(f).max = n
      /\ New(f).prev = elapsedNow /\ New(f).born = clock /\ New(f).called = 0
      /\ New(f).runs = slot[f].runs
  BY <1>3 DEF TimerType
<1> HIDE DEF New
<1>6. slot'[f] = New(f) /\ \A i \in Slots \ {f} : slot'[i] = slot[i]
  BY <1>1, <1>2, <1>3 DEF TimerTypes
<1>7. TimerTypes'
  <2>1. slot' \in [Slots -> TimerType]
    BY <1>1, <1>2, <1>3, <1>5 DEF TimerTypes
  <2> QED
    BY <1>3, <1>4, <2>1 DEF TimerTypes
<1>8. \A i \in Slots : Pending(i)' <=> Pending(i)
  BY <1>4, PendingStays
<1>9. ASSUME NEW i \in Slots PROVE Elapsed(i)' /\ RunsCounted(i)'
  <2>1. CASE i # f
    BY <1>3, <1>4, <1>6, <1>8, <2>1, SlotKept DEF TimerInv
  <2>2. CASE i = f
    <3>1. ~Pending(f) /\ slot[f].runs = 0
      BY <1>2 DEF TimerInv, RunsCounted
    <3>2. ~Pending(f)' /\ Left(f)' = 0
      BY <1>2, <1>8, <3>1 DEF Left
    <3>3. (slot'[f].called + Left(f)') * slot'[f].delay = 0
      BY <1>3, <1>5, <1>6, <3>2
    <3>4. Elapsed(f)'
      BY <1>2, <1>3, <1>4, <1>5, <1>6, <1>7, <3>3, StartsNow
    <3> QED
      BY <1>5, <1>6, <2>2, <3>1, <3>2, <3>4 DEF RunsCounted
  <2> QED
    BY <2>1, <2>2
<1>10. CallerStays'
  <2>1. called # "no" => pass \in Slots
    BY <1>3 DEF TimerTypes
  <2>2. called # "no" /\ orderly => pass # f
    BY <1>2, <1>3 DEF CallerStays
  <2> QED
    BY <1>3, <1>4, <1>6, <2>1, <2>2 DEF CallerStays
<1>11. numTimers' = Cardinality(InUseTimers')
  <2>1. InUseTimers' = InUseTimers \cup {f} /\ f \notin InUseTimers
    BY <1>2, <1>5, <1>6 DEF InUseTimers
  <2> QED
    BY <1>4, <2>1, InUseFinite, FS_AddElement DEF TimerInv
<1> QED
  BY <1>4, <1>7, <1>9, <1>10, <1>11 DEF TimerInv

\* What deleteTimer does to the table, wherever it is called.
LEMMA DeletesKeeps ==
  ASSUME TimerInv, NEW x \in Slots, Deletes(x), UNCHANGED <<clock, orderly>>,
         pass' \in Slots \cup {-1}, called' \in {"no", "runOnly", "runAndDel"},
         called' # "no" => pass' # -1,
         \A i \in Slots : toBeCalled'[i] = toBeCalled[i] => (Pending(i)' <=> Pending(i))
  PROVE  /\ TimerTypes' /\ \A i \in Slots : Elapsed(i)' /\ RunsCounted(i)'
         /\ \A i \in Slots \ {x} : slot'[i] = slot[i]
         /\ numTimers' = Cardinality(InUseTimers')
<1>0. TimerTypes /\ slot[x] \in TimerType /\ clock \in Nat
  BY DEF TimerInv, TimerTypes
<1>1. CASE ~slot[x].callback
  <2>1. UNCHANGED <<slot, toBeCalled, numTimers>>
    BY <1>1 DEF Deletes
  <2>2. TimerTypes'
    BY <1>0, <2>1 DEF TimerTypes
  <2>3. ASSUME NEW i \in Slots PROVE Elapsed(i)' /\ RunsCounted(i)'
    BY <1>0, <2>1, SlotKept DEF TimerInv
  <2>4. InUseTimers' = InUseTimers
    BY <2>1 DEF InUseTimers
  <2> QED
    BY <2>1, <2>2, <2>3, <2>4 DEF TimerInv
<1>2. CASE slot[x].callback
  <2> DEFINE Gone == [NoTimer EXCEPT !.prev = slot[x].prev, !.max = slot[x].max]
  <2>1. /\ slot' = [slot EXCEPT ![x] = Gone] /\ toBeCalled' = [toBeCalled EXCEPT ![x] = "dontRun"]
        /\ numTimers' = numTimers - 1
    BY <1>2, Zenon DEF Deletes
  <2>2. Gone \in TimerType /\ Gone.callback = FALSE /\ Gone.runs = 0 /\ Gone.called = 0
    BY <1>0 DEF NoTimer, TimerType
  <2> HIDE DEF Gone
  <2>3. /\ slot'[x] = Gone /\ toBeCalled'[x] = "dontRun"
        /\ \A i \in Slots \ {x} : slot'[i] = slot[i] /\ toBeCalled'[i] = toBeCalled[i]
    BY <1>0, <2>1 DEF TimerTypes
  <2>4. TimerTypes'
    <3>1. slot' \in [Slots -> TimerType]
      BY <1>0, <2>1, <2>2 DEF TimerTypes
    <3>2. toBeCalled' \in [Slots -> {"dontRun", "runOnly", "runAndDel"}]
      BY <1>0, <2>1 DEF TimerTypes
    <3> QED
      BY <1>0, <3>1, <3>2 DEF TimerTypes
  <2>5. ASSUME NEW i \in Slots PROVE Elapsed(i)' /\ RunsCounted(i)'
    <3>1. CASE i # x
      BY <1>0, <2>3, <3>1, SlotKept DEF TimerInv
    <3>2. CASE i = x
      <4>1. ~Pending(x)'
        BY <2>3 DEF Pending
      <4> QED
        BY <2>2, <2>3, <3>2, <4>1, SlotFreed
    <3> QED
      BY <3>1, <3>2
  <2>6. InUseTimers' = InUseTimers \ {x} /\ x \in InUseTimers
    BY <1>2, <2>2, <2>3 DEF InUseTimers
  <2>7. numTimers' = Cardinality(InUseTimers')
    BY <2>1, <2>6, InUseFinite, FS_RemoveElement DEF TimerInv
  <2> QED
    BY <2>3, <2>4, <2>5, <2>7
<1> QED
  BY <1>1, <1>2

LEMMA DeleteKeeps ==
  ASSUME TimerInv, NEW x \in Slots, deleteTimer(x)
  PROVE  TimerInv'
<1>1. /\ Deletes(x) /\ UNCHANGED <<pass, called, clock, orderly, cut>>
      /\ (orderly => ~Own(x))
  BY DEF deleteTimer
<1>2. TimerTypes
  BY DEF TimerInv
<1>3. \A i \in Slots : toBeCalled'[i] = toBeCalled[i] => (Pending(i)' <=> Pending(i))
  BY <1>1, PendingStays
<1>4. /\ TimerTypes' /\ \A i \in Slots : Elapsed(i)' /\ RunsCounted(i)'
      /\ \A i \in Slots \ {x} : slot'[i] = slot[i]
      /\ numTimers' = Cardinality(InUseTimers')
  BY <1>1, <1>2, <1>3, DeletesKeeps DEF TimerTypes
<1>5. CallerStays'
  <2>1. called # "no" => pass \in Slots
    BY <1>2 DEF TimerTypes
  <2>2. called # "no" /\ orderly => pass # x
    BY <1>1 DEF Own
  <2> QED
    BY <1>1, <1>4, <2>1, <2>2 DEF CallerStays, TimerInv
<1> QED
  BY <1>1, <1>4, <1>5 DEF TimerInv

LEMMA RestartKeeps ==
  ASSUME TimerInv, NEW x \in Slots, restartTimer(x)
  PROVE  TimerInv'
<1>0. TimerTypes /\ slot[x] \in TimerType /\ elapsedNow \in 0..(ClockRange - 1)
  BY ElapsedNowType DEF TimerInv, TimerTypes
<1>1. /\ slot' = [slot EXCEPT ![x].prev = elapsedNow]
      /\ UNCHANGED <<numTimers, toBeCalled, pass, called, clock, orderly, cut>>
  BY DEF restartTimer
<1>2. slot'[x] = [slot[x] EXCEPT !.prev = elapsedNow] /\ \A i \in Slots \ {x} : slot'[i] = slot[i]
  BY <1>0, <1>1 DEF TimerTypes
<1>3. /\ slot'[x] \in TimerType /\ slot'[x].callback = slot[x].callback
      /\ slot'[x].called = slot[x].called /\ slot'[x].max = slot[x].max
  BY <1>0, <1>2 DEF TimerType
<1>4. TimerTypes'
  <2>1. slot' \in [Slots -> TimerType]
    BY <1>0, <1>1, <1>2, <1>3 DEF TimerTypes
  <2> QED
    BY <1>0, <1>1, <2>1 DEF TimerTypes
<1>5. ASSUME NEW i \in Slots PROVE Elapsed(i)' /\ RunsCounted(i)'
  <2>1. CASE i = x
    BY <1>0, <1>1, <1>2, <1>4, <2>1, SlotRestarted DEF TimerInv
  <2>2. CASE i # x
    <3>1. Pending(i)' <=> Pending(i)
      BY <1>1, PendingStays
    <3> QED
      BY <1>0, <1>1, <1>2, <2>2, <3>1, SlotKept DEF TimerInv, TimerTypes
  <2> QED
    BY <2>1, <2>2
<1>6. \A i \in Slots : slot'[i].callback = slot[i].callback /\ slot'[i].called = slot[i].called
                       /\ slot'[i].max = slot[i].max
  BY <1>2, <1>3
<1>7. InUseTimers' = InUseTimers
  BY <1>6 DEF InUseTimers
<1>8. CallerStays'
  BY <1>0, <1>1, <1>6 DEF CallerStays, TimerInv, TimerTypes
<1> QED
  BY <1>1, <1>4, <1>5, <1>7, <1>8 DEF TimerInv

LEMMA SwitchKeeps ==
  ASSUME TimerInv, NEW x \in Slots, Switch(x)
  PROVE  TimerInv'
<1>0. TimerTypes /\ slot[x] \in TimerType
  BY DEF TimerInv, TimerTypes
<1>1. PICK on \in {TRUE, FALSE, ~slot[x].enabled} : slot' = [slot EXCEPT ![x].enabled = on]
  BY Zenon DEF Switch
<1>2. UNCHANGED <<numTimers, toBeCalled, pass, called, clock, orderly, cut>>
  BY DEF Switch
<1>3. on \in BOOLEAN
  BY <1>0, Zenon
<1>4. slot'[x] = [slot[x] EXCEPT !.enabled = on] /\ \A i \in Slots \ {x} : slot'[i] = slot[i]
  BY <1>0, <1>1 DEF TimerTypes
<1>5. /\ slot'[x].callback = slot[x].callback /\ slot'[x].delay = slot[x].delay
      /\ slot'[x].max = slot[x].max /\ slot'[x].runs = slot[x].runs
      /\ slot'[x].prev = slot[x].prev /\ slot'[x].born = slot[x].born
      /\ slot'[x].called = slot[x].called
  BY <1>0, <1>4 DEF TimerType
<1>6. slot'[x] \in TimerType
  BY <1>0, <1>3, <1>4 DEF TimerType
<1>7. TimerTypes'
  <2>1. slot' \in [Slots -> TimerType]
    BY <1>0, <1>1, <1>4, <1>6 DEF TimerTypes
  <2> QED
    BY <1>0, <1>2, <2>1 DEF TimerTypes
<1>8. \A i \in Slots : /\ slot'[i].callback = slot[i].callback /\ slot'[i].delay = slot[i].delay
                       /\ slot'[i].max = slot[i].max /\ slot'[i].runs = slot[i].runs
                       /\ slot'[i].prev = slot[i].prev /\ slot'[i].born = slot[i].born
                       /\ slot'[i].called = slot[i].called
                       /\ (Pending(i)' <=> Pending(i)) /\ Left(i)' = Left(i)
  BY <1>2, <1>4, <1>5 DEF Pending, Left
<1>9. ASSUME NEW i \in Slots PROVE Elapsed(i)' /\ RunsCounted(i)'
  BY <1>2, <1>8 DEF TimerInv, Elapsed, RunsCounted
<1>10. InUseTimers' = InUseTimers
  BY <1>8 DEF InUseTimers
<1>11. CallerStays'
  BY <1>0, <1>2, <1>8 DEF CallerStays, TimerInv, TimerTypes
<1> QED
  BY <1>2, <1>7, <1>9, <1>10, <1>11 DEF TimerInv

LEMMA CollectKeeps ==
  ASSUME TimerInv, Collect
  PROVE  TimerInv'
<1>0. TimerTypes /\ 0 \in Slots
  BY TimerConstants DEF TimerInv, Slots
<1>1. /\ toBeCalled' = [i \in Slots |-> Collected(slot[i])]
      /\ slot' = [i \in Slots |->
           [slot[i] EXCEPT !.prev = IF IsDue(slot[i]) THEN (@ + slot[i].delay) % ClockRange ELSE @,
                           !.runs = IF Counts(slot[i]) THEN @ + 1 ELSE @]]
      /\ pass = -1 /\ pass' = 0
      /\ UNCHANGED <<numTimers, called, clock, orderly, cut>>
  BY DEF Collect
<1>2. ASSUME NEW i \in Slots
      PROVE  slot'[i] \in TimerType /\ slot'[i].callback = slot[i].callback
  <2>1. slot[i] \in TimerType
    BY <1>0 DEF TimerTypes
  <2>2. slot[i].delay \in Nat /\ slot[i].prev \in Nat /\ slot[i].runs + 1 \in Nat
    BY <2>1, TimerConstants DEF TimerType
  <2>3. ((slot[i].prev + slot[i].delay) % ClockRange) \in 0..(ClockRange - 1)
    BY <2>2, TimerConstants, DivMod
  <2>4. slot'[i] = [slot[i] EXCEPT !.prev = IF IsDue(slot[i]) THEN (@ + slot[i].delay) % ClockRange ELSE @,
                                   !.runs = IF Counts(slot[i]) THEN @ + 1 ELSE @]
    BY <1>1
  <2> QED
    BY <2>1, <2>2, <2>3, <2>4 DEF TimerType
<1>3. TimerTypes'
  <2>1. slot' \in [Slots -> TimerType]
    BY <1>1, <1>2
  <2>2. toBeCalled' \in [Slots -> {"dontRun", "runOnly", "runAndDel"}]
    BY <1>1 DEF Collected
  <2> QED
    BY <1>0, <1>1, <2>1, <2>2 DEF TimerTypes
<1>4. \A i \in Slots : Elapsed(i)' /\ RunsCounted(i)'
  BY <1>0, <1>3, SlotCollected DEF TimerInv
<1>5. InUseTimers' = InUseTimers
  BY <1>2 DEF InUseTimers
<1>6. CallerStays'
  BY <1>0, <1>1 DEF CallerStays, TimerTypes
<1> QED
  BY <1>1, <1>3, <1>4, <1>5, <1>6 DEF TimerInv

\* The second pass goes on to the next slot with nothing left of this one.
LEMMA PassOn ==
  ASSUME TimerTypes, pass # -1, NEW i \in Slots, toBeCalled'[i] = toBeCalled[i],
         pass' = After(pass), called' = "no",
         called # "no" \/ toBeCalled[pass] = "dontRun"
  PROVE  Pending(i)' <=> Pending(i)
<1>1. pass \in 0..(MaxTimers - 1) /\ i \in 0..(MaxTimers - 1) /\ MaxTimers \in Nat \ {0}
  BY TimerConstants DEF TimerTypes, Slots
<1>2. pass' = IF pass + 1 = MaxTimers THEN -1 ELSE pass + 1
  BY DEF After
<1> QED
  BY <1>1, <1>2 DEF Pending

LEMMA AfterType ==
  ASSUME TimerTypes, pass # -1
  PROVE  After(pass) \in Slots \cup {-1}
  BY TimerConstants DEF TimerTypes, Slots, After

LEMMA PassesOverKeeps ==
  ASSUME TimerInv, PassesOver
  PROVE  TimerInv'
<1>0. TimerTypes
  BY DEF TimerInv
<1>1. /\ pass # -1 /\ called = "no" /\ toBeCalled[pass] = "dontRun" /\ pass' = After(pass)
      /\ UNCHANGED <<slot, numTimers, toBeCalled, called, clock, orderly, cut>>
  BY DEF PassesOver
<1>2. TimerTypes'
  BY <1>0, <1>1, AfterType DEF TimerTypes
<1>3. ASSUME NEW i \in Slots PROVE Elapsed(i)' /\ RunsCounted(i)'
  <2>1. Pending(i)' <=> Pending(i)
    BY <1>0, <1>1, PassOn
  <2> QED
    BY <1>0, <1>1, <2>1, SlotKept DEF TimerInv, TimerTypes
<1>4. InUseTimers' = InUseTimers /\ CallerStays'
  BY <1>1 DEF InUseTimers, CallerStays
<1> QED
  BY <1>1, <1>2, <1>3, <1>4 DEF TimerInv

LEMMA CallsBackKeeps ==
  ASSUME TimerInv, CallsBack
  PROVE  TimerInv'
<1>0. TimerTypes /\ pass \in Slots /\ slot[pass] \in TimerType
  BY DEF TimerInv, TimerTypes, CallsBack
<1>1. /\ pass # -1 /\ called = "no" /\ toBeCalled[pass] # "dontRun" /\ called' = toBeCalled[pass]
      /\ slot' = [slot EXCEPT ![pass].called = @ + 1]
      /\ UNCHANGED <<numTimers, toBeCalled, pass, clock, orderly, cut>>
  BY DEF CallsBack
<1>2. /\ slot'[pass] = [slot[pass] EXCEPT !.called = @ + 1]
      /\ \A i \in Slots \ {pass} : slot'[i] = slot[i]
  BY <1>0, <1>1 DEF TimerTypes
<1>3. /\ slot'[pass] \in TimerType /\ slot'[pass].callback = slot[pass].callback
      /\ slot'[pass].called = slot[pass].called + 1 /\ slot'[pass].max = slot[pass].max
  BY <1>0, <1>2 DEF TimerType
<1>4. TimerTypes'
  <2>1. slot' \in [Slots -> TimerType]
    BY <1>0, <1>1, <1>2, <1>3 DEF TimerTypes
  <2> QED
    BY <1>0, <1>1, <2>1 DEF TimerTypes
<1>5. \A i \in Slots : Elapsed(i)' /\ RunsCounted(i)'
  BY <1>0, <1>4, SlotCalled DEF TimerInv
<1>6. InUseTimers' = InUseTimers
  BY <1>0, <1>2, <1>3 DEF InUseTimers
<1>7. CallerStays'
  <2>1. Pending(pass) /\ Left(pass) = 1
    BY <1>1 DEF Pending, Left
  <2>2. /\ slot[pass].callback /\ slot[pass].runs <= slot[pass].called + 1
        /\ toBeCalled[pass] = "runAndDel" => slot[pass].runs >= slot[pass].max
    BY <1>0, <2>1 DEF TimerInv, RunsCounted
  <2>3. toBeCalled[pass] = "runAndDel" => slot'[pass].called >= slot'[pass].max
    BY <1>0, <1>3, <2>2 DEF TimerType
  <2> QED
    BY <1>1, <1>3, <2>2, <2>3 DEF CallerStays
<1> QED
  BY <1>1, <1>4, <1>5, <1>6, <1>7 DEF TimerInv

LEMMA ReturnsKeeps ==
  ASSUME TimerInv, Returns
  PROVE  TimerInv'
<1>0. TimerTypes /\ pass \in Slots /\ pass # -1 /\ called # "no"
  BY DEF TimerInv, TimerTypes, Returns
<1>1. /\ called' = "no" /\ pass' = After(pass) /\ UNCHANGED <<clock, orderly>>
      /\ pass' \in Slots \cup {-1}
  BY <1>0, AfterType DEF Returns
<1>2. \A i \in Slots : toBeCalled'[i] = toBeCalled[i] => (Pending(i)' <=> Pending(i))
  BY <1>0, <1>1, PassOn
<1>3. CallerStays'
  BY <1>1 DEF CallerStays
<1>4. CASE called = "runAndDel"
  <2>1. Deletes(pass) /\ cut' = (cut \/ (slot[pass].callback /\ slot[pass].called < slot[pass].max))
    BY <1>4 DEF Returns
  <2>2. /\ TimerTypes' /\ \A i \in Slots : Elapsed(i)' /\ RunsCounted(i)'
        /\ numTimers' = Cardinality(InUseTimers')
    BY <1>0, <1>1, <1>2, <2>1, DeletesKeeps
  <2>3. orderly => ~cut'
    <3>1. slot[pass] \in TimerType
      BY <1>0 DEF TimerTypes
    <3>2. orderly => slot[pass].called >= slot[pass].max
      BY <1>0, <1>4 DEF TimerInv, CallerStays
    <3>3. slot[pass].called \in Nat /\ slot[pass].max \in Nat
      BY <3>1 DEF TimerType
    <3>4. orderly => ~(slot[pass].called < slot[pass].max)
      BY <3>2, <3>3
    <3> QED
      BY <2>1, <3>4 DEF TimerInv
  <2> QED
    BY <1>1, <1>3, <2>2, <2>3 DEF TimerInv
<1>5. CASE called # "runAndDel"
  <2>1. UNCHANGED <<slot, toBeCalled, numTimers, cut>>
    BY <1>5 DEF Returns
  <2>2. TimerTypes'
    BY <1>0, <1>1, <2>1 DEF TimerTypes
  <2>3. ASSUME NEW i \in Slots PROVE Elapsed(i)' /\ RunsCounted(i)'
    BY <1>0, <1>1, <1>2, <2>1, SlotKept DEF TimerInv, TimerTypes
  <2>4. InUseTimers' = InUseTimers
    BY <2>1 DEF InUseTimers
  <2> QED
    BY <1>1, <1>3, <2>1, <2>2, <2>3, <2>4 DEF TimerInv
<1> QED
  BY <1>4, <1>5

LEMMA TicksKeep ==
  ASSUME TimerInv, ClockTicks
  PROVE  TimerInv'
<1>0. TimerTypes
  BY DEF TimerInv
<1>1. clock' = clock + 1 /\ UNCHANGED <<slot, numTimers, toBeCalled, pass, called, orderly, cut>>
  BY DEF ClockTicks
<1>2. TimerTypes' /\ clock' \in Nat /\ clock <= clock'
  BY <1>0, <1>1 DEF TimerTypes
<1>3. ASSUME NEW i \in Slots PROVE Elapsed(i)' /\ RunsCounted(i)'
  <2>1. Pending(i)' <=> Pending(i)
    BY <1>1, PendingStays
  <2> QED
    BY <1>0, <1>1, <1>2, <2>1, SlotKept DEF TimerInv
<1>4. InUseTimers' = InUseTimers /\ CallerStays'
  BY <1>1 DEF InUseTimers, CallerStays, TimerInv
<1> QED
  BY <1>1, <1>2, <1>3, <1>4 DEF TimerInv

LEMMA TimerInvKept == TimerInv /\ [SimpleTimerNext]_simpleTimerVars => TimerInv'
<1> SUFFICES ASSUME TimerInv, [SimpleTimerNext]_simpleTimerVars PROVE TimerInv'
  OBVIOUS
<1>1. CASE UNCHANGED simpleTimerVars
  BY <1>1 DEF simpleTimerVars, TimerInv, TimerTypes, Elapsed, RunsCounted, CallerStays,
              InUseTimers, Pending, Left
<1> QED
  BY <1>1, SetKeeps, DeleteKeeps, RestartKeeps, SwitchKeeps, CollectKeeps, PassesOverKeeps,
     CallsBackKeeps, ReturnsKeeps, TicksKeep DEF SimpleTimerNext

LEMMA TimersExact ==
  ASSUME TimerInv
  PROVE  TimersAreExact
<1>0. TimerTypes
  BY DEF TimerInv
<1>1. pass # -1 /\ called = "no" /\ toBeCalled[pass] # "dontRun" => slot[pass].callback
  <2>1. SUFFICES ASSUME pass # -1, called = "no", toBeCalled[pass] # "dontRun"
                 PROVE  slot[pass].callback
    OBVIOUS
  <2>2. pass \in Slots /\ Pending(pass)
    BY <1>0, <2>1 DEF TimerTypes, Pending
  <2> QED
    BY <2>2 DEF TimerInv, RunsCounted
<1>2. ASSUME NEW i \in Slots, slot[i].callback
      PROVE  slot[i].called * slot[i].delay <= clock - slot[i].born
  <2>1. PICK p \in 0..clock : slot[i].born + (slot[i].called + Left(i)) * slot[i].delay <= p
    BY <1>2 DEF TimerInv, Elapsed
  <2>2. /\ slot[i].born \in Nat /\ slot[i].called \in Nat /\ slot[i].delay \in Nat
        /\ clock \in Nat
    BY <1>0 DEF TimerTypes, TimerType
  <2>3. /\ slot[i].called * slot[i].delay <= (slot[i].called + Left(i)) * slot[i].delay
        /\ slot[i].called * slot[i].delay \in Nat
        /\ (slot[i].called + Left(i)) * slot[i].delay \in Nat
    <3>1. CASE Left(i) = 0
      BY <2>2, <3>1, OnceMore
    <3>2. CASE Left(i) = 1
      BY <2>2, <3>2, OnceMore
    <3> QED
      BY <3>1, <3>2 DEF Left
  <2> QED
    BY <2>1, <2>2, <2>3
<1> QED
  BY <1>1, <1>2 DEF TimersAreExact, CallsAreDue, RunsAreFull, TimerInv, InUseTimers

\* A timer is called back when its delay says since it was set, as often as it
\* was set for, and what is called back is a timer, for every number of slots,
\* every delay and every wrap of millis(), although callbacks delete timers
\* that are collected and set others in their slots.
THEOREM TimersExactAlways ==
  SimpleTimerInit /\ [][SimpleTimerNext]_simpleTimerVars => []TimersAreExact
<1>1. TimerInv => TimersAreExact
  BY TimersExact
<1> QED
  BY <1>1, TimersInitially, TimerInvKept, PTL

-----------------------------------------------------------------------------
(* Rings *)

\* A sum that goes once round at most.
Round(S, x) == IF x < S THEN x ELSE x - S

LEMMA IsRound ==
  ASSUME NEW S \in Nat \ {0}, NEW x \in 0..(2 * S - 1)
  PROVE  (x % S) = Round(S, x)
<1>1. CASE x < S
  <2>1. x \in 0..(S - 1) /\ x = S * 0 + x /\ 0 \in Int /\ x \in Int
    BY <1>1
  <2> QED
    BY <1>1, <2>1, RemainderIs DEF Round
<1>2. CASE x >= S
  <2> DEFINE r == x - S
  <2>1. r \in 0..(S - 1) /\ x = S * 1 + r /\ 1 \in Int /\ x \in Int
    BY <1>2
  <2> HIDE DEF r
  <2>2. (x % S) = r
    BY <2>1, RemainderIs
  <2>3. Round(S, x) = x - S
    BY <1>2 DEF Round
  <2> QED
    BY <2>2, <2>3 DEF r
<1> QED
  BY <1>1, <1>2

\* How many places from t up to h.
Distance(S, h, t) == IF h >= t THEN h - t ELSE S + h - t

LEMMA IsDistance ==
  ASSUME NEW S \in Nat \ {0}, NEW h \in 0..(S - 1), NEW t \in 0..(S - 1)
  PROVE  /\ ((S + h - t) % S) = Distance(S, h, t)
         /\ ((h + S - t) % S) = Distance(S, h, t)
<1> DEFINE x == S + h - t
<1>1. x \in 0..(2 * S - 1) /\ h + S - t = x
  BY DEF x
<1>2. Round(S, x) = Distance(S, h, t)
  BY DEF Round, Distance
<1> HIDE DEF x
<1>3. (x % S) = Distance(S, h, t)
  BY <1>1, <1>2, IsRound
<1> QED
  BY <1>1, <1>3 DEF x

\* The n places of a ring from one on.
Ring(S, buffer, from, n) == [k \in 1..n |-> buffer[Round(S, from + k - 1)]]

LEMMA RingIsSeq ==
  ASSUME NEW S \in Nat \ {0}, NEW T, NEW buffer \in [0..(S - 1) -> T],
         NEW from \in 0..(S - 1), NEW n \in 0..S
  PROVE  /\ Ring(S, buffer, from, n) \in Seq(T) /\ Len(Ring(S, buffer, from, n)) = n
         /\ \A k \in 1..n : /\ Ring(S, buffer, from, n)[k] = buffer[Round(S, from + k - 1)]
                            /\ Round(S, from + k - 1) \in 0..(S - 1)
<1>1. \A k \in 1..n : Round(S, from + k - 1) \in 0..(S - 1)
  BY DEF Round
<1>2. \A k \in 1..n : buffer[Round(S, from + k - 1)] \in T
  BY <1>1
<1>3. n \in Nat
  OBVIOUS
<1> QED
  BY <1>1, <1>2, <1>3, IsASeq DEF Ring

\* What stands in a ring the code reads with remainders.
LEMMA RingIs ==
  ASSUME NEW S \in Nat \ {0}, NEW buffer, NEW from \in 0..(S - 1), NEW n \in 0..S
  PROVE  [k \in 1..n |-> buffer[(from + k - 1) % S]] = Ring(S, buffer, from, n)
<1>1. ASSUME NEW k \in 1..n PROVE ((from + k - 1) % S) = Round(S, from + k - 1)
  <2> DEFINE x == from + k - 1
  <2>1. x \in 0..(2 * S - 1)
    OBVIOUS
  <2> HIDE DEF x
  <2>2. (x % S) = Round(S, x)
    BY <2>1, IsRound
  <2> QED
    BY <2>2 DEF x
<1> QED
  BY <1>1, Zenon DEF Ring

\* One sequence is another with an element, or with more, behind it.
Appends(new, old, e) == new = Append(old, e)
Follows(new, old, more) == new = old \o more

\* Two rings differ in one place at most.
OnlyAt(S, after, buffer, at) == \A i \in 0..(S - 1) : i # at => after[i] = buffer[i]

\* One more is put behind the others.
LEMMA RingPut ==
  ASSUME NEW S \in Nat \ {0}, NEW T, NEW buffer \in [0..(S - 1) -> T],
         NEW after \in [0..(S - 1) -> T],
         NEW from \in 0..(S - 1), NEW n \in 0..(S - 1), NEW at, at = Round(S, from + n),
         OnlyAt(S, after, buffer, at)
  PROVE  Appends(Ring(S, after, from, n + 1), Ring(S, buffer, from, n), after[at])
<1> DEFINE old == Ring(S, buffer, from, n)
           new == Ring(S, after, from, n + 1)
<1>0. at \in 0..(S - 1) /\ after[at] \in T
  BY DEF Round
<1>1. /\ old \in Seq(T) /\ Len(old) = n
      /\ \A k \in 1..n : /\ old[k] = buffer[Round(S, from + k - 1)]
                         /\ Round(S, from + k - 1) \in 0..(S - 1)
  <2>1. n \in 0..S
    OBVIOUS
  <2> QED
    BY <2>1, RingIsSeq, Zenon
<1>2. n + 1 \in 0..S
  OBVIOUS
<1>3. /\ new \in Seq(T) /\ Len(new) = n + 1
      /\ \A k \in 1..(n + 1) : /\ new[k] = after[Round(S, from + k - 1)]
                               /\ Round(S, from + k - 1) \in 0..(S - 1)
  BY <1>2, RingIsSeq, Zenon
<1>4. \A k \in 1..n : Round(S, from + k - 1) # at
  BY DEF Round
<1>5. from + (n + 1) - 1 = from + n
  OBVIOUS
<1> HIDE DEF old, new
<1>6. /\ Append(old, after[at]) \in Seq(T) /\ Len(Append(old, after[at])) = n + 1
      /\ \A k \in 1..n : Append(old, after[at])[k] = old[k]
      /\ Append(old, after[at])[n + 1] = after[at]
  BY <1>0, <1>1, AppendProperties
<1>7. ASSUME NEW k \in 1..(n + 1) PROVE new[k] = Append(old, after[at])[k]
  <2>0. k = n + 1 \/ k \in 1..n
    OBVIOUS
  <2>1. CASE k = n + 1
    <3>1. new[k] = after[Round(S, from + k - 1)] /\ from + k - 1 = from + n
      BY <1>3, <1>5, <2>1
    <3> QED
      BY <1>6, <2>1, <3>1
  <2>2. CASE k \in 1..n
    <3>1. /\ new[k] = after[Round(S, from + k - 1)] /\ old[k] = buffer[Round(S, from + k - 1)]
          /\ Round(S, from + k - 1) \in 0..(S - 1) /\ Round(S, from + k - 1) # at
      BY <1>1, <1>3, <1>4, <2>2
    <3>2. after[Round(S, from + k - 1)] = buffer[Round(S, from + k - 1)]
      BY <3>1, Zenon DEF OnlyAt
    <3> QED
      BY <1>6, <2>2, <3>1, <3>2
  <2> QED
    BY <2>0, <2>1, <2>2, Zenon
<1>8. new = Append(old, after[at])
  BY <1>3, <1>6, <1>7, SeqEqual
<1> QED
  BY <1>8 DEF old, new, Appends

\* One is taken from the front.
LEMMA RingGet ==
  ASSUME NEW S \in Nat \ {0}, NEW T, NEW buffer \in [0..(S - 1) -> T],
         NEW from \in 0..(S - 1), NEW n \in 1..S
  PROVE  /\ Ring(S, buffer, from, n) # <<>>
         /\ Head(Ring(S, buffer, from, n)) = buffer[from]
         /\ Ring(S, buffer, Round(S, from + 1), n - 1) = Tail(Ring(S, buffer, from, n))
<1> DEFINE old == Ring(S, buffer, from, n)
           next == Round(S, from + 1)
           new == Ring(S, buffer, next, n - 1)
<1>0. next \in 0..(S - 1) /\ n \in 0..S /\ n - 1 \in 0..S /\ Round(S, from) = from
  BY DEF Round
<1>1. /\ old \in Seq(T) /\ Len(old) = n
      /\ \A k \in 1..n : /\ old[k] = buffer[Round(S, from + k - 1)]
                         /\ Round(S, from + k - 1) \in 0..(S - 1)
  BY <1>0, RingIsSeq, Zenon
<1>2. \A k \in 1..(n - 1) : Round(S, next + k - 1) = Round(S, from + (k + 1) - 1)
  BY DEF Round
<1> HIDE DEF next
<1>3. /\ new \in Seq(T) /\ Len(new) = n - 1
      /\ \A k \in 1..(n - 1) : /\ new[k] = buffer[Round(S, next + k - 1)]
                               /\ Round(S, next + k - 1) \in 0..(S - 1)
  BY <1>0, RingIsSeq, Zenon
<1> HIDE DEF old, new
<1>4. old # <<>> /\ old[1] = buffer[from]
  BY <1>0, <1>1
<1>5. /\ Tail(old) \in Seq(T) /\ Len(Tail(old)) = n - 1
      /\ \A k \in 1..(n - 1) : Tail(old)[k] = old[k + 1]
  BY <1>1, <1>4, HeadTailProperties
<1>6. ASSUME NEW k \in 1..(n - 1) PROVE new[k] = Tail(old)[k]
  <2>1. k + 1 \in 1..n
    OBVIOUS
  <2>2. new[k] = buffer[Round(S, next + k - 1)] /\ old[k + 1] = buffer[Round(S, from + (k + 1) - 1)]
    BY <1>1, <1>3, <2>1, Zenon
  <2> QED
    BY <1>2, <1>5, <2>2, Zenon
<1>7. new = Tail(old)
  BY <1>3, <1>5, <1>6, SeqEqual
<1>8. Head(old) = buffer[from]
  BY <1>1, <1>4
<1> QED
  BY <1>4, <1>7, <1>8 DEF old, new, next

\* Some places on from h.
LEMMA PlacesOn ==
  ASSUME NEW S \in Nat \ {0}, NEW h \in 0..(S - 1), NEW t \in 0..(S - 1), NEW size \in 1..S,
         Distance(S, h, t) + size < S
  PROVE  /\ ((h + size) % S) = Round(S, h + size) /\ Round(S, h + size) \in 0..(S - 1)
         /\ Distance(S, Round(S, h + size), t) = Distance(S, h, t) + size
         /\ \A k \in 1..Distance(S, h, t) : ~(Distance(S, Round(S, t + k - 1), h) < size)
         /\ \A j \in 1..size :
              Distance(S, Round(S, t + (Distance(S, h, t) + j) - 1), h) = j - 1
<1> DEFINE x == h + size
<1>1. x \in 0..(2 * S - 1) /\ Round(S, x) \in 0..(S - 1)
      /\ Distance(S, Round(S, x), t) = Distance(S, h, t) + size
  BY DEF Distance, Round
<1>2. \A k \in 1..Distance(S, h, t) : ~(Distance(S, Round(S, t + k - 1), h) < size)
  BY DEF Distance, Round
<1>3. \A j \in 1..size : Distance(S, Round(S, t + (Distance(S, h, t) + j) - 1), h) = j - 1
  BY DEF Distance, Round
<1> HIDE DEF x
<1>4. (x % S) = Round(S, x)
  BY <1>1, IsRound
<1> QED
  BY <1>1, <1>2, <1>3, <1>4 DEF x

\* A ring has the numbers after base in the places from h on.
NumbersFrom(S, after, buffer, h, size, base) ==
  \A k \in 0..(S - 1) :
    after[k] = IF Distance(S, k, h) < size THEN base + Distance(S, k, h) + 1 ELSE buffer[k]

\* Several numbers are put behind the others.
LEMMA RingPutMore ==
  ASSUME NEW S \in Nat \ {0}, NEW h \in 0..(S - 1), NEW t \in 0..(S - 1), NEW size \in 1..S,
         Distance(S, h, t) + size < S, NEW base \in Nat,
         NEW buffer \in [0..(S - 1) -> Nat], NEW after \in [0..(S - 1) -> Nat],
         NumbersFrom(S, after, buffer, h, size, base)
  PROVE  Follows(Ring(S, after, t, Distance(S, h, t) + size),
                 Ring(S, buffer, t, Distance(S, h, t)), [k \in 1..size |-> base + k])
<1> DEFINE n == Distance(S, h, t)
           old == Ring(S, buffer, t, n)
           more == [k \in 1..size |-> base + k]
           new == Ring(S, after, t, n + size)
<1>1. n \in 0..S /\ n + size \in 0..S /\ n \in Nat
  BY DEF Distance
<1>2. /\ \A k \in 1..n : ~(Distance(S, Round(S, t + k - 1), h) < size)
      /\ \A j \in 1..size : Distance(S, Round(S, t + (n + j) - 1), h) = j - 1
  BY PlacesOn, SMTT(90)
<1> HIDE DEF n
<1>3. /\ old \in Seq(Nat) /\ Len(old) = n
      /\ \A k \in 1..n : /\ old[k] = buffer[Round(S, t + k - 1)]
                         /\ Round(S, t + k - 1) \in 0..(S - 1)
  BY <1>1, RingIsSeq, Zenon
<1>4. /\ new \in Seq(Nat) /\ Len(new) = n + size
      /\ \A k \in 1..(n + size) : /\ new[k] = after[Round(S, t + k - 1)]
                                  /\ Round(S, t + k - 1) \in 0..(S - 1)
  BY <1>1, RingIsSeq, Zenon
<1>5. more \in Seq(Nat) /\ Len(more) = size /\ \A j \in 1..size : more[j] = base + j
  <2>1. size \in Nat /\ \A k \in 1..size : base + k \in Nat
    OBVIOUS
  <2>2. more \in Seq(Nat)
    BY <2>1, IsASeq
  <2> QED
    BY <2>1, <2>2
<1> HIDE DEF old, new, more
<1>6. /\ old \o more \in Seq(Nat) /\ Len(old \o more) = n + size
      /\ \A k \in 1..(n + size) : (old \o more)[k] = IF k <= n THEN old[k] ELSE more[k - n]
  <2>1. /\ old \o more \in Seq(Nat) /\ Len(old \o more) = Len(old) + Len(more)
        /\ \A i \in 1..(Len(old) + Len(more)) :
             (old \o more)[i] = IF i <= Len(old) THEN old[i] ELSE more[i - Len(old)]
    BY <1>3, <1>5, ConcatProperties, ZenonT(30)
  <2>2. Len(old) = n /\ Len(more) = size
    BY <1>3, <1>5, Zenon
  <2> QED
    BY <2>1, <2>2, Zenon
<1>7. ASSUME NEW k \in 1..(n + size) PROVE new[k] = (old \o more)[k]
  <2>1. new[k] = after[Round(S, t + k - 1)] /\ Round(S, t + k - 1) \in 0..(S - 1)
    BY <1>4
  <2>2. CASE k <= n
    <3>1. k \in 1..n
      BY <1>1, <2>2
    <3>2. old[k] = buffer[Round(S, t + k - 1)]
      BY <1>3, <3>1
    <3>3. after[Round(S, t + k - 1)] = buffer[Round(S, t + k - 1)]
      BY <1>2, <2>1, <3>1 DEF NumbersFrom
    <3> QED
      BY <1>6, <2>1, <2>2, <3>2, <3>3
  <2>3. CASE ~(k <= n)
    <3> DEFINE j == k - n
    <3>1. j \in 1..size /\ k = n + j
      BY <1>1, <2>3
    <3>2. (old \o more)[k] = more[j]
      BY <1>6, <2>3
    <3> HIDE DEF j
    <3>3. Distance(S, Round(S, t + k - 1), h) = j - 1
      BY <1>2, <3>1
    <3> DEFINE i == Round(S, t + k - 1)
    <3>4. after[i] = IF Distance(S, i, h) < size THEN base + Distance(S, i, h) + 1 ELSE buffer[i]
      BY <2>1, Zenon DEF NumbersFrom
    <3> HIDE DEF i
    <3>5. new[k] = after[i] /\ Distance(S, i, h) = j - 1
      BY <2>1, <3>3 DEF i
    <3>6. new[k] = base + j
      BY <3>1, <3>4, <3>5
    <3> QED
      BY <1>5, <3>1, <3>2, <3>6
  <2> QED
    BY <2>2, <2>3
<1>8. new = old \o more
  BY <1>4, <1>6, <1>7, SeqEqual
<1> QED
  BY <1>8 DEF old, new, more, n, Follows

-----------------------------------------------------------------------------
(* WSerial *)

WSerialInv ==
  /\ outRing \in [0..(WSize - 1) -> Nat] /\ outHead \in 0..(WSize - 1) /\ outTail \in 0..(WSize - 1)
  /\ written \in Nat /\ outOwed \in Seq(Nat)
  /\ inRing \in [0..(WSize - 1) -> Nat] /\ inHead \in 0..(WSize - 1) /\ inTail \in 0..(WSize - 1)
  /\ heard \in Nat /\ inOwed \in Seq(Nat)
  /\ WritesAreExact /\ HeardIsExact

LEMMA WSizeType == WSize \in Nat \ {0}
  BY WSerialAssumption

LEMMA ContentIs ==
  ASSUME NEW buffer, NEW h \in 0..(WSize - 1), NEW t \in 0..(WSize - 1)
  PROVE  /\ Content(buffer, h, t) = Ring(WSize, buffer, t, Distance(WSize, h, t))
         /\ Used(h, t) = Distance(WSize, h, t)
         /\ Distance(WSize, h, t) \in 0..(WSize - 1)
<1>1. Used(h, t) = Distance(WSize, h, t)
  BY WSizeType, IsDistance DEF Used
<1> DEFINE n == Distance(WSize, h, t)
<1>2. n \in 0..WSize /\ n \in 0..(WSize - 1)
  BY WSizeType DEF Distance
<1> HIDE DEF n
<1>3. [k \in 1..n |-> buffer[(t + k - 1) % WSize]] = Ring(WSize, buffer, t, n)
  BY <1>2, WSizeType, RingIs, Zenon
<1> QED
  BY <1>1, <1>2, <1>3, Zenon DEF Content, n

LEMMA EmptyContent ==
  ASSUME NEW buffer, NEW h \in 0..(WSize - 1)
  PROVE  Content(buffer, h, h) = <<>>
<1>1. Distance(WSize, h, h) = 0
  BY WSizeType DEF Distance
<1>2. Content(buffer, h, h) = Ring(WSize, buffer, h, Distance(WSize, h, h))
  BY ContentIs
<1>3. Ring(WSize, buffer, h, 0) = <<>>
  BY DEF Ring
<1> QED
  BY <1>1, <1>2, <1>3

LEMMA NextPlace ==
  ASSUME NEW h \in 0..(WSize - 1)
  PROVE  ((h + 1) % WSize) = Round(WSize, h + 1) /\ Round(WSize, h + 1) \in 0..(WSize - 1)
<1> DEFINE x == h + 1
<1>1. x \in 0..(2 * WSize - 1) /\ Round(WSize, x) \in 0..(WSize - 1)
  BY WSizeType DEF Round
<1> HIDE DEF x
<1>2. (x % WSize) = Round(WSize, x)
  BY <1>1, WSizeType, IsRound
<1> QED
  BY <1>1, <1>2 DEF x

\* One byte more: the head moves on.
LEMMA ContentPut ==
  ASSUME NEW h \in 0..(WSize - 1), NEW t \in 0..(WSize - 1), Round(WSize, h + 1) # t,
         NEW buffer \in [0..(WSize - 1) -> Nat], NEW after \in [0..(WSize - 1) -> Nat],
         OnlyAt(WSize, after, buffer, h)
  PROVE  Content(after, Round(WSize, h + 1), t) = Append(Content(buffer, h, t), after[h])
<1> DEFINE n == Distance(WSize, h, t)
           next == Round(WSize, h + 1)
<1>1. next # t /\ next \in 0..(WSize - 1)
  BY WSizeType DEF Round
<1>2. n \in 0..(WSize - 1) /\ h = Round(WSize, t + n) /\ Distance(WSize, next, t) = n + 1
  BY <1>1, WSizeType DEF Distance, Round
<1>3. /\ Content(buffer, h, t) = Ring(WSize, buffer, t, n)
      /\ Content(after, next, t) = Ring(WSize, after, t, n + 1)
  BY <1>1, <1>2, ContentIs
<1> HIDE DEF n, next
<1>4. Appends(Ring(WSize, after, t, n + 1), Ring(WSize, buffer, t, n), after[h])
  <2>1. n \in 0..(WSize - 1)
    BY <1>2
  <2>2. h = Round(WSize, t + n)
    BY <1>2
  <2> QED
    BY <2>1, <2>2, WSizeType, RingPut, Zenon
<1> QED
  BY <1>3, <1>4 DEF next, Appends

\* One byte less: the tail moves on.
LEMMA ContentGet ==
  ASSUME NEW h \in 0..(WSize - 1), NEW t \in 0..(WSize - 1), h # t,
         NEW buffer \in [0..(WSize - 1) -> Nat]
  PROVE  /\ Content(buffer, h, t) # <<>>
         /\ Content(buffer, h, (t + 1) % WSize) = Tail(Content(buffer, h, t))
<1> DEFINE n == Distance(WSize, h, t)
           next == Round(WSize, t + 1)
<1>1. next \in 0..(WSize - 1) /\ ((t + 1) % WSize) = next
  BY NextPlace
<1>2. n \in 1..WSize /\ Distance(WSize, h, next) = n - 1
  BY WSizeType DEF Distance, Round
<1>3. /\ Content(buffer, h, t) = Ring(WSize, buffer, t, n)
      /\ Content(buffer, h, next) = Ring(WSize, buffer, next, n - 1)
  BY <1>1, <1>2, ContentIs
<1> HIDE DEF n
<1>4. /\ Ring(WSize, buffer, t, n) # <<>>
      /\ Ring(WSize, buffer, next, n - 1) = Tail(Ring(WSize, buffer, t, n))
  BY <1>2, WSizeType, RingGet, Zenon DEF next
<1> QED
  BY <1>1, <1>3, <1>4

\* Bytes of a packet put behind what is there leave it alone and follow it.
LEMMA ContentReceives ==
  ASSUME NEW h \in 0..(WSize - 1), NEW t \in 0..(WSize - 1), NEW size \in 1..WSize,
         Distance(WSize, h, t) + size < WSize, NEW base \in Nat,
         NEW buffer \in [0..(WSize - 1) -> Nat], NEW after \in [0..(WSize - 1) -> Nat],
         NumbersFrom(WSize, after, buffer, h, size, base)
  PROVE  /\ Content(after, Round(WSize, h + size), t)
               = Content(buffer, h, t) \o [k \in 1..size |-> base + k]
         /\ ((h + size) % WSize) = Round(WSize, h + size)
<1> DEFINE n == Distance(WSize, h, t)
           next == Round(WSize, h + size)
<1>1. Follows(Ring(WSize, after, t, n + size), Ring(WSize, buffer, t, n),
              [k \in 1..size |-> base + k])
  BY WSizeType, RingPutMore, ZenonT(30)
<1>2. /\ ((h + size) % WSize) = next /\ next \in 0..(WSize - 1)
      /\ Distance(WSize, next, t) = n + size
  BY WSizeType, PlacesOn
<1> HIDE DEF next, n
<1>3. /\ Content(buffer, h, t) = Ring(WSize, buffer, t, n)
      /\ Content(after, next, t) = Ring(WSize, after, t, n + size)
  BY <1>2, ContentIs DEF n
<1> QED
  BY <1>1, <1>2, <1>3 DEF next, Follows

LEMMA WSerialInitially == WSerialInit => WSerialInv
<1> SUFFICES ASSUME WSerialInit PROVE WSerialInv
  OBVIOUS
<1>1. 0 \in 0..(WSize - 1)
  BY WSizeType
<1>2. Content(outRing, 0, 0) = <<>> /\ Content(inRing, 0, 0) = <<>>
  BY <1>1, EmptyContent
<1> QED
  BY <1>1, <1>2 DEF WSerialInit, WSerialInv, WritesAreExact, HeardIsExact

\* What the ring of bytes to send keeps when only the other one changes, and
\* the other way round.
OutKept == WSerialInv /\ UNCHANGED <<outRing, outHead, outTail, written, outOwed, outLost>>
InKept == WSerialInv /\ UNCHANGED <<inRing, inHead, inTail, heard, inOwed, inLost>>

OutInv ==
  /\ outRing \in [0..(WSize - 1) -> Nat] /\ outHead \in 0..(WSize - 1) /\ outTail \in 0..(WSize - 1)
  /\ written \in Nat /\ outOwed \in Seq(Nat) /\ WritesAreExact
InInv ==
  /\ inRing \in [0..(WSize - 1) -> Nat] /\ inHead \in 0..(WSize - 1) /\ inTail \in 0..(WSize - 1)
  /\ heard \in Nat /\ inOwed \in Seq(Nat) /\ HeardIsExact

LEMMA Halves == (WSerialInv <=> OutInv /\ InInv) /\ (OutKept => OutInv') /\ (InKept => InInv')
<1>1. WSerialInv <=> OutInv /\ InInv
  BY DEF WSerialInv, OutInv, InInv
<1>2. OutKept => OutInv'
  BY DEF WSerialInv, OutKept, OutInv, WritesAreExact
<1>3. InKept => InInv'
  BY DEF WSerialInv, InKept, InInv, HeardIsExact
<1> QED
  BY <1>1, <1>2, <1>3

LEMMA HalvesPrimed == OutInv' /\ InInv' => WSerialInv'
  BY DEF WSerialInv, OutInv, InInv

LEMMA WritesKeep ==
  ASSUME WSerialInv, NEW accepted \in BOOLEAN, write8(accepted)
  PROVE  WSerialInv'
<1>0. /\ outRing \in [0..(WSize - 1) -> Nat] /\ outHead \in 0..(WSize - 1)
      /\ outTail \in 0..(WSize - 1) /\ written \in Nat /\ outOwed \in Seq(Nat)
      /\ WritesAreExact
  BY DEF WSerialInv
<1>1. written' = written + 1 /\ written' \in Nat /\ InInv'
  BY <1>0, Halves DEF write8, InKept, inVars
<1>2. CASE OutFull /\ CanSend
  <2>1. /\ outRing' = [outRing EXCEPT ![outTail] = written'] /\ outTail' = outTail
        /\ outHead' = (outTail + 1) % WSize /\ outOwed' = <<written'>>
    BY <1>2, Zenon DEF write8, Puts
  <2>2. Round(WSize, outTail + 1) # outTail
    BY <1>0, <1>2, WSizeType DEF CanSend, Round
  <2>3. /\ outHead' = Round(WSize, outTail + 1) /\ outHead' \in 0..(WSize - 1)
    BY <1>0, <2>1, NextPlace
  <2>4. /\ outRing' \in [0..(WSize - 1) -> Nat] /\ outRing'[outTail] = written'
        /\ OnlyAt(WSize, outRing', outRing, outTail)
    BY <1>0, <1>1, <2>1 DEF OnlyAt
  <2>5. Content(outRing', outHead', outTail) = Append(Content(outRing, outTail, outTail), written')
    BY <1>0, <2>2, <2>3, <2>4, ContentPut
  <2>6. Content(outRing, outTail, outTail) = <<>>
    BY <1>0, EmptyContent
  <2>7. Content(outRing', outHead', outTail') = outOwed'
    BY <2>1, <2>5, <2>6
  <2>8. OutInv'
    BY <1>0, <1>1, <2>1, <2>3, <2>4, <2>7 DEF OutInv, WritesAreExact
  <2> QED
    BY <1>1, <2>8, HalvesPrimed
<1>3. CASE ~(OutFull /\ CanSend)
  <2>1. /\ outRing' = [outRing EXCEPT ![outHead] = written'] /\ outTail' = outTail
        /\ outHead' = (outHead + 1) % WSize /\ outOwed' = Append(outOwed, written')
        /\ outLost' = (outLost \/ OutFull)
    BY <1>3, Zenon DEF write8, Puts
  <2>2. outHead' = Round(WSize, outHead + 1) /\ outHead' \in 0..(WSize - 1)
    BY <1>0, <2>1, NextPlace
  <2>3. /\ outRing' \in [0..(WSize - 1) -> Nat] /\ outRing'[outHead] = written'
        /\ OnlyAt(WSize, outRing', outRing, outHead)
    BY <1>0, <1>1, <2>1 DEF OnlyAt
  <2>4. ASSUME ~outLost' PROVE Content(outRing', outHead', outTail') = outOwed'
    <3>1. ~outLost /\ ~OutFull
      BY <2>1, <2>4
    <3>2. Round(WSize, outHead + 1) # outTail
      BY <2>1, <2>2, <3>1 DEF OutFull
    <3>3. Content(outRing', outHead', outTail) = Append(Content(outRing, outHead, outTail), written')
      BY <1>0, <2>2, <2>3, <3>2, ContentPut
    <3>4. Content(outRing, outHead, outTail) = outOwed
      BY <1>0, <3>1 DEF WritesAreExact
    <3> QED
      BY <2>1, <3>3, <3>4
  <2>5. outOwed' \in Seq(Nat)
    BY <1>0, <1>1, <2>1
  <2>6. OutInv'
    BY <1>0, <1>1, <2>1, <2>2, <2>3, <2>4, <2>5 DEF OutInv, WritesAreExact
  <2> QED
    BY <1>1, <2>6, HalvesPrimed
<1> QED
  BY <1>2, <1>3

LEMMA SendsKeep ==
  ASSUME WSerialInv, NEW accepted \in BOOLEAN, sendPacketNow(accepted)
  PROVE  WSerialInv'
<1>0. outTail \in 0..(WSize - 1) /\ Content(outRing, outTail, outTail) = <<>>
  BY EmptyContent DEF WSerialInv
<1>1. /\ outHead' = outTail /\ outOwed' = <<>> /\ UNCHANGED <<outRing, outTail, written>>
      /\ InInv'
  BY Halves DEF sendPacketNow, InKept, inVars
<1>2. OutInv'
  BY <1>0, <1>1 DEF OutInv, WSerialInv, WritesAreExact
<1> QED
  BY <1>1, <1>2, HalvesPrimed

LEMMA ReadsKeep ==
  ASSUME WSerialInv, read8
  PROVE  WSerialInv'
<1>0. /\ inRing \in [0..(WSize - 1) -> Nat] /\ inHead \in 0..(WSize - 1)
      /\ inTail \in 0..(WSize - 1) /\ heard \in Nat /\ inOwed \in Seq(Nat) /\ HeardIsExact
  BY DEF WSerialInv
<1>1. /\ inHead # inTail /\ inTail' = (inTail + 1) % WSize
      /\ inOwed' = (IF inOwed = <<>> THEN inOwed ELSE Tail(inOwed))
      /\ UNCHANGED <<inRing, inHead, heard, inLost>> /\ OutInv'
  BY Halves DEF read8, OutKept, outVars
<1>2. inTail' \in 0..(WSize - 1)
  BY <1>0, <1>1, NextPlace
<1>3. inOwed' \in Seq(Nat)
  <2>1. CASE inOwed = <<>>
    BY <1>0, <1>1, <2>1
  <2>2. CASE inOwed # <<>>
    BY <1>0, <1>1, <2>2, HeadTailProperties
  <2> QED
    BY <2>1, <2>2
<1>4. HeardIsExact'
  <2> SUFFICES ASSUME ~inLost PROVE Content(inRing', inHead', inTail') = inOwed'
    BY <1>1 DEF HeardIsExact
  <2>1. /\ Content(inRing, inHead, inTail) # <<>>
        /\ Content(inRing, inHead, (inTail + 1) % WSize) = Tail(Content(inRing, inHead, inTail))
    BY <1>0, <1>1, ContentGet
  <2>2. Content(inRing, inHead, inTail) = inOwed
    BY <1>0 DEF HeardIsExact
  <2> QED
    BY <1>1, <2>1, <2>2
<1>5. InInv'
  BY <1>0, <1>1, <1>2, <1>3, <1>4 DEF InInv
<1> QED
  BY <1>1, <1>5, HalvesPrimed

LEMMA ReceivesKeep ==
  ASSUME WSerialInv, NEW src, NEW size \in 1..WSize, receiveMessage(src, size)
  PROVE  WSerialInv'
<1>0. /\ inRing \in [0..(WSize - 1) -> Nat] /\ inHead \in 0..(WSize - 1)
      /\ inTail \in 0..(WSize - 1) /\ heard \in Nat /\ inOwed \in Seq(Nat) /\ HeardIsExact
  BY DEF WSerialInv
<1>1. heard' = heard + size /\ heard' \in Nat /\ inTail' = inTail /\ OutInv'
  BY <1>0, Halves DEF receiveMessage, OutKept, outVars
<1>2. CASE ~Accepts(src) \/ ~Fits(size)
  <2>1. UNCHANGED <<inRing, inHead, inOwed, inLost>>
    BY <1>2 DEF receiveMessage
  <2>2. InInv'
    BY <1>0, <1>1, <2>1 DEF InInv, HeardIsExact
  <2> QED
    BY <1>1, <2>2, HalvesPrimed
<1>3. CASE Accepts(src) /\ Fits(size)
  <2> DEFINE more == [k \in 1..size |-> heard + k]
  <2>1. /\ inRing' = [k \in 0..(WSize - 1) |->
                        LET i == (k + WSize - inHead) % WSize
                        IN  IF i < size THEN heard + i + 1 ELSE inRing[k]]
        /\ inHead' = (inHead + size) % WSize /\ inOwed' = inOwed \o more
        /\ inLost' = (inLost \/ size = WSize - Used(inHead, inTail))
    BY <1>3, Zenon DEF receiveMessage
  <2>2. /\ Used(inHead, inTail) = Distance(WSize, inHead, inTail)
        /\ Distance(WSize, inHead, inTail) \in 0..(WSize - 1)
    BY <1>0, ContentIs
  <2>3. \A k \in 0..(WSize - 1) : ((k + WSize - inHead) % WSize) = Distance(WSize, k, inHead)
    BY <1>0, WSizeType, IsDistance
  <2>4. \A k \in 0..(WSize - 1) :
          inRing'[k] = IF Distance(WSize, k, inHead) < size
                         THEN heard + Distance(WSize, k, inHead) + 1 ELSE inRing[k]
    BY <2>1, <2>3, Zenon
  <2>5. inRing' \in [0..(WSize - 1) -> Nat]
    <3>1. inRing' = [k \in 0..(WSize - 1) |-> inRing'[k]]
      BY <2>1, Zenon
    <3>2. \A k \in 0..(WSize - 1) : inRing[k] \in Nat /\ Distance(WSize, k, inHead) \in Nat
      BY <1>0, WSizeType DEF Distance
    <3>3. \A k \in 0..(WSize - 1) : inRing'[k] \in Nat
      BY <1>0, <2>4, <3>2, SMTT(20)
    <3> QED
      BY <3>1, <3>3, Zenon
  <2>6. NumbersFrom(WSize, inRing', inRing, inHead, size, heard)
    BY <2>4 DEF NumbersFrom
  <2>7. inHead' \in 0..(WSize - 1)
    BY <1>0, <2>1, WSizeType, DivMod
  <2>8. more \in Seq(Nat)
    <3>1. size \in Nat /\ \A k \in 1..size : heard + k \in Nat
      BY <1>0
    <3> QED
      BY <3>1, IsASeq
  <2> HIDE DEF more
  <2>9. inOwed' \in Seq(Nat)
    BY <1>0, <2>1, <2>8
  <2>10. ASSUME ~inLost' PROVE Content(inRing', inHead', inTail') = inOwed'
    <3>1. ~inLost /\ size # WSize - Distance(WSize, inHead, inTail)
      BY <2>1, <2>2, <2>10
    <3>2. size <= WSize - Distance(WSize, inHead, inTail)
      BY <1>3, <2>2 DEF Fits
    <3>3. Distance(WSize, inHead, inTail) + size < WSize
      BY <2>2, <3>1, <3>2, WSizeType
    <3>4. /\ Content(inRing', Round(WSize, inHead + size), inTail)
               = Content(inRing, inHead, inTail) \o more
          /\ ((inHead + size) % WSize) = Round(WSize, inHead + size)
      BY <1>0, <2>5, <2>6, <3>3, ContentReceives DEF more
    <3>5. Content(inRing, inHead, inTail) = inOwed
      BY <1>0, <3>1 DEF HeardIsExact
    <3> QED
      BY <1>1, <2>1, <3>4, <3>5
  <2>11. InInv'
    BY <1>0, <1>1, <2>5, <2>7, <2>9, <2>10 DEF InInv, HeardIsExact
  <2> QED
    BY <1>1, <2>11, HalvesPrimed
<1> QED
  BY <1>2, <1>3

LEMMA BeginKeeps ==
  ASSUME WSerialInv, NEW address, begin(address)
  PROVE  WSerialInv'
<1>1. 0 \in 0..(WSize - 1)
  BY WSizeType
<1>2. Content(outRing, 0, 0) = <<>> /\ Content(inRing, 0, 0) = <<>>
  BY <1>1, EmptyContent
<1>3. OutInv' /\ InInv'
  BY <1>1, <1>2 DEF begin, WSerialInv, OutInv, InInv, WritesAreExact, HeardIsExact
<1> QED
  BY <1>3, HalvesPrimed

LEMMA WSerialInvKept == WSerialInv /\ [WSerialNext]_wserialVars => WSerialInv'
<1> SUFFICES ASSUME WSerialInv, [WSerialNext]_wserialVars PROVE WSerialInv'
  OBVIOUS
<1>1. ASSUME OutKept, InKept PROVE WSerialInv'
  BY <1>1, Halves, HalvesPrimed
<1>2. CASE UNCHANGED wserialVars
  BY <1>1, <1>2 DEF wserialVars, outVars, inVars, OutKept, InKept
<1>3. CASE appDataCb
  BY <1>1, <1>3 DEF appDataCb, outVars, inVars, OutKept, InKept
<1>4. ASSUME NEW address, setDest(address) PROVE WSerialInv'
  BY <1>1, <1>4 DEF setDest, outVars, inVars, OutKept, InKept
<1>5. ASSUME NEW allow, setAllowFromAny(allow) PROVE WSerialInv'
  BY <1>1, <1>5 DEF setAllowFromAny, outVars, inVars, OutKept, InKept
<1>6. ASSUME NEW accepted \in BOOLEAN, flushRing(accepted) PROVE WSerialInv'
  BY <1>6, SendsKeep DEF flushRing
<1>7. ASSUME NEW accepted \in BOOLEAN, loop(accepted) PROVE WSerialInv'
  <2>1. sendPacketNow(accepted) \/ UNCHANGED <<outVars, inVars>>
    BY <1>7, Zenon DEF loop
  <2>2. UNCHANGED <<outVars, inVars>> => OutKept /\ InKept
    BY DEF outVars, inVars, OutKept, InKept
  <2> QED
    BY <1>1, <2>1, <2>2, SendsKeep
<1>8. CASE MillisecondPasses
  BY <1>1, <1>8 DEF MillisecondPasses, outVars, inVars, OutKept, InKept
<1>9. CASE read8
  BY <1>9, ReadsKeep
<1>10. ASSUME NEW accepted \in BOOLEAN, write8(accepted) PROVE WSerialInv'
  BY <1>10, WritesKeep
<1>11. ASSUME NEW src, NEW size \in 1..WSize, receiveMessage(src, size) PROVE WSerialInv'
  BY <1>11, ReceivesKeep
<1>12. ASSUME NEW address, begin(address) PROVE WSerialInv'
  BY <1>12, BeginKeeps
<1> QED
  BY <1>2, <1>3, <1>4, <1>5, <1>6, <1>7, <1>8, <1>9, <1>10, <1>11, <1>12, Zenon
  DEF WSerialNext, endConnection

\* Every byte written is sent once and in order until the ring is filled while
\* a packet is under way, and every byte accepted is read once and in order
\* until a packet fills its ring to the last place, for rings of any size.
THEOREM BytesExact == WSerialSpec => []BytesAreExact
<1>1. WSerialInv => BytesAreExact
  BY DEF WSerialInv, BytesAreExact
<1> QED
  BY <1>1, WSerialInitially, WSerialInvKept, PTL DEF WSerialSpec

-----------------------------------------------------------------------------
(* SoftwareSerial *)

BytesIn(buffer, h, t) == Ring(RingSize, buffer, h, Distance(RingSize, t, h))

SerialTypes ==
  /\ lines \in [Serials -> [byte : Bytes, at : 0..StopBit]]
  /\ activeObject \in Serials \cup {None}
  /\ cpu \in [does : {"sketch", "recv", "write"}, bit : 0..DataBits] /\ bits \in Bytes
  /\ ring \in [0..(RingSize - 1) -> Bytes]
  /\ ringHead \in 0..(RingSize - 1) /\ ringTail \in 0..(RingSize - 1)
  /\ owed \in Seq(Bytes)
  /\ cpu.does = "recv" => activeObject # None

\* recv is where the byte on the line is, or about to be started by its start
\* bit; between two bytes it does not run.
InStep ==
  clean /\ activeObject # None =>
    LET l == lines[activeObject]
    IN  /\ Between(l) => cpu.does # "recv"
        /\ ~Between(l) =>
             /\ activeObject \in timed
             /\ \/ l.at = 1 /\ AtSketch /\ pcif
                \/ /\ cpu.does = "recv" /\ cpu.bit = l.at - 1
                   /\ \A b \in 1..cpu.bit : bits[b] = l.byte[b]

Exact ==
  clean => /\ BytesIn(ring, ringHead, ringTail) = owed
           /\ got # <<>> => owed # <<>> /\ got = <<Head(owed)>>

SerialInv == SerialTypes /\ InStep /\ Exact

LEMMA SerialConstants ==
  RingSize \in Nat \ {0} /\ DataBits \in Nat \ {0} /\ None \notin Serials /\ StopBit = DataBits + 2
  BY SoftwareSerialAssumption DEF StopBit

LEMMA RingBytesIs ==
  ASSUME NEW buffer, NEW h \in 0..(RingSize - 1), NEW t \in 0..(RingSize - 1)
  PROVE  /\ [k \in 1..((t + RingSize - h) % RingSize) |-> buffer[(h + k - 1) % RingSize]]
               = BytesIn(buffer, h, t)
         /\ Distance(RingSize, t, h) \in 0..(RingSize - 1)
<1> DEFINE n == Distance(RingSize, t, h)
<1>1. ((t + RingSize - h) % RingSize) = n
  BY SerialConstants, IsDistance
<1>2. n \in 0..RingSize /\ n \in 0..(RingSize - 1)
  BY SerialConstants DEF Distance
<1> HIDE DEF n
<1>3. [k \in 1..n |-> buffer[(h + k - 1) % RingSize]] = Ring(RingSize, buffer, h, n)
  BY <1>2, SerialConstants, RingIs, Zenon
<1> QED
  BY <1>1, <1>2, <1>3, Zenon DEF BytesIn, n

LEMMA NextByte ==
  ASSUME NEW h \in 0..(RingSize - 1)
  PROVE  ((h + 1) % RingSize) = Round(RingSize, h + 1) /\ Round(RingSize, h + 1) \in 0..(RingSize - 1)
<1> DEFINE x == h + 1
<1>1. x \in 0..(2 * RingSize - 1) /\ Round(RingSize, x) \in 0..(RingSize - 1)
  BY SerialConstants DEF Round
<1> HIDE DEF x
<1>2. (x % RingSize) = Round(RingSize, x)
  BY <1>1, SerialConstants, IsRound
<1> QED
  BY <1>1, <1>2 DEF x

LEMMA NoBytes ==
  ASSUME NEW buffer, NEW h \in 0..(RingSize - 1)
  PROVE  BytesIn(buffer, h, h) = <<>>
<1>1. Distance(RingSize, h, h) = 0
  BY SerialConstants DEF Distance
<1> QED
  BY <1>1 DEF BytesIn, Ring

\* The ring is full when the tail would run onto the head.
LEMMA BytesType ==
  ASSUME NEW buffer \in [0..(RingSize - 1) -> Bytes],
         NEW h \in 0..(RingSize - 1), NEW t \in 0..(RingSize - 1)
  PROVE  /\ BytesIn(buffer, h, t) \in Seq(Bytes)
         /\ Len(BytesIn(buffer, h, t)) = Distance(RingSize, t, h)
         /\ Len(BytesIn(buffer, h, t)) < RingSize - 1 <=> Round(RingSize, t + 1) # h
<1> DEFINE n == Distance(RingSize, t, h)
<1>1. n \in 0..RingSize
  BY SerialConstants DEF Distance
<1>2. n < RingSize - 1 <=> Round(RingSize, t + 1) # h
  BY SerialConstants DEF Distance, Round
<1> HIDE DEF n
<1>3. /\ Ring(RingSize, buffer, h, n) \in Seq(Bytes) /\ Len(Ring(RingSize, buffer, h, n)) = n
      /\ \A k \in 1..n : /\ Ring(RingSize, buffer, h, n)[k] = buffer[Round(RingSize, h + k - 1)]
                         /\ Round(RingSize, h + k - 1) \in 0..(RingSize - 1)
  BY <1>1, SerialConstants, RingIsSeq, Zenon
<1> QED
  BY <1>2, <1>3 DEF BytesIn, n

LEMMA BytesPut ==
  ASSUME NEW h \in 0..(RingSize - 1), NEW t \in 0..(RingSize - 1), Round(RingSize, t + 1) # h,
         NEW buffer \in [0..(RingSize - 1) -> Bytes], NEW after \in [0..(RingSize - 1) -> Bytes],
         OnlyAt(RingSize, after, buffer, t)
  PROVE  BytesIn(after, h, Round(RingSize, t + 1)) = Append(BytesIn(buffer, h, t), after[t])
<1> DEFINE n == Distance(RingSize, t, h)
           next == Round(RingSize, t + 1)
<1>1. next # h /\ next \in 0..(RingSize - 1)
  BY SerialConstants DEF Round
<1>2. n \in 0..(RingSize - 1) /\ t = Round(RingSize, h + n) /\ Distance(RingSize, next, h) = n + 1
  BY <1>1, SerialConstants DEF Distance, Round
<1> HIDE DEF n, next
<1>3. Appends(Ring(RingSize, after, h, n + 1), Ring(RingSize, buffer, h, n), after[t])
  <2>1. n \in 0..(RingSize - 1)
    BY <1>2
  <2>2. t = Round(RingSize, h + n)
    BY <1>2
  <2> QED
    BY <2>1, <2>2, SerialConstants, RingPut, Zenon
<1> QED
  BY <1>2, <1>3 DEF next, n, Appends, BytesIn

LEMMA BytesGet ==
  ASSUME NEW h \in 0..(RingSize - 1), NEW t \in 0..(RingSize - 1), h # t,
         NEW buffer \in [0..(RingSize - 1) -> Bytes]
  PROVE  /\ BytesIn(buffer, h, t) # <<>> /\ Head(BytesIn(buffer, h, t)) = buffer[h]
         /\ BytesIn(buffer, Round(RingSize, h + 1), t) = Tail(BytesIn(buffer, h, t))
<1> DEFINE n == Distance(RingSize, t, h)
<1>1. n \in 1..RingSize /\ Distance(RingSize, t, Round(RingSize, h + 1)) = n - 1
  BY SerialConstants DEF Distance, Round
<1> HIDE DEF n
<1>2. /\ Ring(RingSize, buffer, h, n) # <<>>
      /\ Head(Ring(RingSize, buffer, h, n)) = buffer[h]
      /\ Ring(RingSize, buffer, Round(RingSize, h + 1), n - 1) = Tail(Ring(RingSize, buffer, h, n))
  BY <1>1, SerialConstants, RingGet, Zenon
<1> QED
  BY <1>1, <1>2 DEF BytesIn, n

LEMMA SerialInitially == SoftwareSerialInit => SerialInv
<1> SUFFICES ASSUME SoftwareSerialInit PROVE SerialInv
  OBVIOUS
<1>1. 0 \in 0..(RingSize - 1) /\ 0 \in 0..StopBit /\ 0 \in 0..DataBits
  BY SerialConstants
<1>2. Zeros \in Bytes
  BY DEF Zeros, Bytes
<1>3. Rest \in [byte : Bytes, at : 0..StopBit]
  BY <1>1, <1>2 DEF Rest
<1>4. SerialTypes
  BY <1>1, <1>2, <1>3 DEF SoftwareSerialInit, SerialTypes, Idle
<1>5. BytesIn(ring, ringHead, ringTail) = <<>>
  BY <1>1, NoBytes DEF SoftwareSerialInit
<1> QED
  BY <1>4, <1>5 DEF SoftwareSerialInit, SerialInv, InStep, Exact

\* The end of recv: the byte is put behind the others if there is room.
LEMMA StoreStores ==
  ASSUME SerialTypes, NEW d \in Bytes, Store(d), ringHead' = ringHead
  PROVE  /\ ring' \in [0..(RingSize - 1) -> Bytes] /\ ringTail' \in 0..(RingSize - 1)
         /\ BytesIn(ring', ringHead', ringTail')
              = IF Len(BytesIn(ring, ringHead, ringTail)) < RingSize - 1
                THEN Append(BytesIn(ring, ringHead, ringTail), d)
                ELSE BytesIn(ring, ringHead, ringTail)
<1>0. /\ ring \in [0..(RingSize - 1) -> Bytes] /\ ringHead \in 0..(RingSize - 1)
      /\ ringTail \in 0..(RingSize - 1)
  BY DEF SerialTypes
<1>1. /\ ((ringTail + 1) % RingSize) = Round(RingSize, ringTail + 1)
      /\ Round(RingSize, ringTail + 1) \in 0..(RingSize - 1)
      /\ Len(BytesIn(ring, ringHead, ringTail)) < RingSize - 1 <=> Round(RingSize, ringTail + 1) # ringHead
  BY <1>0, NextByte, BytesType
<1>2. CASE Round(RingSize, ringTail + 1) # ringHead
  <2>1. ring' = [ring EXCEPT ![ringTail] = d] /\ ringTail' = Round(RingSize, ringTail + 1)
    BY <1>1, <1>2 DEF Store
  <2>2. /\ ring' \in [0..(RingSize - 1) -> Bytes] /\ ring'[ringTail] = d
        /\ OnlyAt(RingSize, ring', ring, ringTail)
    BY <1>0, <2>1 DEF OnlyAt
  <2>3. BytesIn(ring', ringHead, Round(RingSize, ringTail + 1))
          = Append(BytesIn(ring, ringHead, ringTail), ring'[ringTail])
    BY <1>0, <1>2, <2>2, BytesPut
  <2> QED
    BY <1>1, <1>2, <2>1, <2>2, <2>3
<1>3. CASE Round(RingSize, ringTail + 1) = ringHead
  <2>1. UNCHANGED <<ring, ringTail>>
    BY <1>1, <1>3 DEF Store
  <2> QED
    BY <1>0, <1>1, <1>3, <2>1
<1> QED
  BY <1>2, <1>3

LineType == [byte : Bytes, at : 0..StopBit]

\* A line between two bytes rests or starts one, and in a byte it goes on.
LEMMA LineGoesOn ==
  ASSUME NEW l \in LineType, NEW k \in Later(l)
  PROVE  /\ k \in LineType /\ Level(k) \in {0, 1}
         /\ Between(l) => k.at = 0 \/ (k.at = 1 /\ Level(k) = 0 /\ Level(l) = 1)
         /\ ~Between(l) => k.byte = l.byte /\ k.at = l.at + 1 /\ l.at \in 1..(DataBits + 1)
         /\ k.at \in 2..(DataBits + 1) => Level(k) = k.byte[k.at - 1]
<1>0. StopBit = DataBits + 2 /\ DataBits \in Nat \ {0}
  BY SerialConstants
<1>1. Zeros \in Bytes /\ \A b \in Bytes : \A i \in 1..DataBits : b[i] \in {0, 1}
  BY DEF Zeros, Bytes
<1>2. l.byte \in Bytes /\ l.at \in 0..StopBit /\ l = [byte |-> l.byte, at |-> l.at]
  BY DEF LineType
<1>3. CASE ~Between(l)
  <2>1. k = [l EXCEPT !.at = l.at + 1]
    BY <1>3 DEF Later
  <2>2. k.byte = l.byte /\ k.at = l.at + 1 /\ k = [byte |-> l.byte, at |-> l.at + 1]
    BY <1>2, <2>1
  <2>3. l.at \in 1..(DataBits + 1)
    BY <1>0, <1>2, <1>3 DEF Between
  <2>4. k.at \in 2..StopBit /\ k \in LineType
    BY <1>0, <1>2, <2>2, <2>3 DEF LineType
  <2>5. k.at # StopBit => k.at - 1 \in 1..DataBits /\ Level(k) = k.byte[k.at - 1]
    BY <1>0, <2>4 DEF Level
  <2>6. k.at = StopBit => Level(k) = 1 /\ ~(k.at \in 2..(DataBits + 1))
    BY <1>0 DEF Level
  <2>7. Level(k) \in {0, 1}
    BY <1>1, <1>2, <2>2, <2>5, <2>6
  <2>8. k.at \in 2..(DataBits + 1) => Level(k) = k.byte[k.at - 1]
    BY <2>5, <2>6
  <2> QED
    BY <1>3, <2>2, <2>3, <2>4, <2>7, <2>8
<1>4. CASE Between(l)
  <2>1. k \in {Rest} \cup {[byte |-> b, at |-> 1] : b \in Bytes}
    BY <1>4 DEF Later
  <2>2. Level(l) = 1
    BY <1>4 DEF Level, Between
  <2>3. CASE k = Rest
    <3>1. k.at = 0 /\ k \in LineType
      BY <1>0, <1>1, <2>3 DEF Rest, LineType
    <3> QED
      BY <1>4, <3>1 DEF Level
  <2>4. ASSUME NEW b \in Bytes, k = [byte |-> b, at |-> 1]
        PROVE  k.at = 1 /\ k \in LineType /\ Level(k) = 0
    <3>1. k.at = 1 /\ k \in LineType /\ 1 # StopBit
      BY <1>0, <2>4 DEF LineType
    <3> QED
      BY <3>1 DEF Level
  <2> QED
    BY <1>4, <2>1, <2>2, <2>3, <2>4
<1> QED
  BY <1>3, <1>4

\* What the steps of recv and write leave of the types, and the byte that
\* is put into the ring.
LEMMA RecvTypes ==
  ASSUME SerialTypes, cpu.does = "recv", NEW level \in {0, 1}, RecvTicks(level), ringHead' = ringHead
  PROVE  /\ cpu' \in [does : {"sketch", "recv", "write"}, bit : 0..DataBits] /\ bits' \in Bytes
         /\ ring' \in [0..(RingSize - 1) -> Bytes] /\ ringTail' \in 0..(RingSize - 1)
         /\ cpu'.does \in {"recv", "sketch"}
<1>0. /\ cpu \in [does : {"sketch", "recv", "write"}, bit : 0..DataBits] /\ bits \in Bytes
      /\ ring \in [0..(RingSize - 1) -> Bytes] /\ ringTail \in 0..(RingSize - 1) /\ DataBits \in Nat
  BY SerialConstants DEF SerialTypes
<1>1. CASE cpu.bit < DataBits
  <2>1. /\ cpu' = [cpu EXCEPT !.bit = cpu.bit + 1] /\ UNCHANGED <<ring, ringTail>>
        /\ bits' = [bits EXCEPT ![cpu.bit + 1] = level]
    BY <1>1 DEF RecvTicks
  <2>2. cpu.bit + 1 \in 1..DataBits
    BY <1>0, <1>1
  <2>3. bits' \in Bytes
    BY <1>0, <2>1, <2>2 DEF Bytes
  <2>4. cpu' \in [does : {"sketch", "recv", "write"}, bit : 0..DataBits] /\ cpu'.does = "recv"
    BY <1>0, <2>1, <2>2
  <2> QED
    BY <1>0, <2>1, <2>3, <2>4
<1>2. CASE ~(cpu.bit < DataBits)
  <2>1. cpu' = Idle /\ bits' = Zeros /\ Store(bits)
    BY <1>2 DEF RecvTicks
  <2>2. Zeros \in Bytes /\ Idle \in [does : {"sketch", "recv", "write"}, bit : 0..DataBits]
        /\ Idle.does = "sketch"
    BY <1>0 DEF Zeros, Bytes, Idle
  <2>3. ring' \in [0..(RingSize - 1) -> Bytes] /\ ringTail' \in 0..(RingSize - 1)
    BY <1>0, <2>1, StoreStores
  <2> QED
    BY <2>1, <2>2, <2>3
<1> QED
  BY <1>1, <1>2

\* Lines and recv keep step from bit to bit.
LEMMA TickKeeps == SerialInv /\ Tick => SerialInv'
<1> SUFFICES ASSUME SerialInv, Tick PROVE SerialInv'
  OBVIOUS
<1>0. /\ SerialTypes /\ InStep /\ Exact /\ ~(AtSketch /\ pcif)
      /\ UNCHANGED <<pcmsk, timed, activeObject, ringHead, got, asked>>
  BY DEF SerialInv, Tick
<1>1. PICK next \in [Serials -> UNION {Later(lines[s]) : s \in Serials}] :
        /\ \A s \in Serials : next[s] \in Later(lines[s])
        /\ lines' = next
        /\ pcif' = (pcif \/ \E s \in pcmsk : Level(next[s]) # Level(lines[s]))
        /\ IF activeObject = None THEN UNCHANGED <<owed, clean>> ELSE Carries(next[activeObject])
        /\ CASE cpu.does = "recv" -> RecvTicks(Level(next[activeObject]))
             [] cpu.does = "write" -> WriteTicks
             [] OTHER -> UNCHANGED <<cpu, bits, ring, ringTail, overflow>>
  BY DEF Tick
<1>2. /\ \A s \in Serials : lines[s] \in LineType
      /\ activeObject \in Serials \cup {None} /\ None \notin Serials
      /\ cpu \in [does : {"sketch", "recv", "write"}, bit : 0..DataBits] /\ bits \in Bytes
      /\ ring \in [0..(RingSize - 1) -> Bytes] /\ ringTail \in 0..(RingSize - 1)
      /\ ringHead \in 0..(RingSize - 1) /\ owed \in Seq(Bytes)
      /\ (cpu.does = "recv" => activeObject # None) /\ DataBits \in Nat \ {0}
  BY <1>0, SerialConstants DEF SerialTypes, LineType
<1>3. lines' \in [Serials -> LineType]
  <2>1. \A s \in Serials : next[s] \in LineType
    BY <1>1, <1>2, LineGoesOn
  <2> QED
    BY <1>1, <2>1
<1>4. ASSUME cpu.does # "recv"
      PROVE  /\ UNCHANGED <<bits, ring, ringTail>> /\ cpu'.does # "recv"
             /\ cpu' \in [does : {"sketch", "recv", "write"}, bit : 0..DataBits]
             /\ cpu.does # "write" => UNCHANGED cpu
  <2>1. CASE cpu.does = "write"
    <3>1. WriteTicks
      BY <1>1, <2>1
    <3>2. CASE cpu.bit < DataBits
      <4>1. cpu' = [cpu EXCEPT !.bit = cpu.bit + 1] /\ UNCHANGED <<bits, ring, ringTail>>
        BY <3>1, <3>2 DEF WriteTicks
      <4>2. cpu.bit + 1 \in 0..DataBits
        BY <1>2, <3>2
      <4> QED
        BY <1>2, <2>1, <4>1, <4>2
    <3>3. CASE ~(cpu.bit < DataBits)
      <4>1. cpu' = Idle /\ UNCHANGED <<bits, ring, ringTail>>
        BY <3>1, <3>3 DEF WriteTicks
      <4> QED
        BY <1>2, <2>1, <4>1 DEF Idle
    <3> QED
      BY <3>2, <3>3
  <2>2. CASE cpu.does # "write"
    <3>1. UNCHANGED <<cpu, bits, ring, ringTail, overflow>>
      BY <1>1, <1>4, <2>2
    <3> QED
      BY <1>2, <1>4, <2>2, <3>1
  <2> QED
    BY <2>1, <2>2
<1>5. CASE activeObject = None
  <2>1. cpu.does # "recv" /\ UNCHANGED <<owed, clean, activeObject, ringHead, got>>
    BY <1>0, <1>1, <1>2, <1>5
  <2>2. UNCHANGED <<bits, ring, ringTail>> /\ cpu'.does # "recv"
        /\ cpu' \in [does : {"sketch", "recv", "write"}, bit : 0..DataBits]
    BY <1>4, <2>1
  <2>3. SerialTypes'
    BY <1>2, <1>3, <2>1, <2>2 DEF SerialTypes, LineType
  <2>4. InStep'
    BY <1>5, <2>1 DEF InStep
  <2>5. Exact'
    BY <1>0, <2>1, <2>2 DEF Exact
  <2> QED
    BY <2>3, <2>4, <2>5 DEF SerialInv
<1>6. CASE activeObject # None
  <2> DEFINE l == lines[activeObject]
             k == next[activeObject]
  <2>0. activeObject \in Serials
    BY <1>2, <1>6
  <2>1. l \in LineType /\ k \in Later(l) /\ lines'[activeObject'] = k
    BY <1>0, <1>1, <1>2, <2>0
  <2>2. /\ Carries(k)
        /\ cpu.does = "recv" => RecvTicks(Level(k))
        /\ activeObject \in pcmsk /\ Level(k) # Level(l) => pcif'
    BY <1>1, <1>6
  <2> HIDE DEF l, k
  <2>3. /\ k \in LineType /\ Level(k) \in {0, 1}
        /\ Between(l) => k.at = 0 \/ (k.at = 1 /\ Level(k) = 0 /\ Level(l) = 1)
        /\ ~Between(l) => k.byte = l.byte /\ k.at = l.at + 1 /\ l.at \in 1..(DataBits + 1)
        /\ k.at \in 2..(DataBits + 1) => Level(k) = k.byte[k.at - 1]
    BY <2>1, LineGoesOn
  <2>4. /\ cpu' \in [does : {"sketch", "recv", "write"}, bit : 0..DataBits] /\ bits' \in Bytes
        /\ ring' \in [0..(RingSize - 1) -> Bytes] /\ ringTail' \in 0..(RingSize - 1)
    <3>1. CASE cpu.does = "recv"
      BY <1>0, <2>2, <2>3, <3>1, RecvTypes
    <3>2. CASE cpu.does # "recv"
      BY <1>2, <1>4, <3>2
    <3> QED
      BY <3>1, <3>2
  <2>5. owed' \in Seq(Bytes)
        /\ clean' = (clean /\ (Between(k) \/ (cpu.does # "write" /\ activeObject \in pcmsk
                                              /\ activeObject \in timed)))
        /\ owed' = IF k.at = StopBit /\ Len(owed) < RingSize - 1 THEN Append(owed, k.byte)
                   ELSE owed
    <3>1. k.byte \in Bytes
      BY <2>3 DEF LineType
    <3>2. /\ owed' = IF k.at = StopBit /\ Len(owed) < RingSize - 1 THEN Append(owed, k.byte)
                     ELSE owed
          /\ clean' = (clean /\ (Between(k) \/ (cpu.does # "write" /\ activeObject \in pcmsk
                                              /\ activeObject \in timed)))
      BY <2>2 DEF Carries
    <3>3. Append(owed, k.byte) \in Seq(Bytes)
      BY <1>2, <3>1
    <3> QED
      BY <1>2, <3>2, <3>3
  <2>6. SerialTypes'
    <3>1. activeObject' # None /\ activeObject' \in Serials \cup {None}
      BY <1>0, <1>2, <1>6
    <3>2. ringHead' \in 0..(RingSize - 1)
      BY <1>0, <1>2
    <3> QED
      BY <1>3, <2>4, <2>5, <3>1, <3>2 DEF SerialTypes, LineType
  <2>7. ASSUME clean'
        PROVE  /\ Between(k) => cpu'.does # "recv"
               /\ ~Between(k) =>
                    /\ activeObject \in timed
                    /\ \/ k.at = 1 /\ cpu'.does = "sketch" /\ pcif'
                       \/ /\ cpu'.does = "recv" /\ cpu'.bit = k.at - 1
                          /\ \A b \in 1..cpu'.bit : bits'[b] = k.byte[b]
               /\ BytesIn(ring', ringHead', ringTail') = owed'
               /\ owed # <<>> => owed' # <<>> /\ Head(owed') = Head(owed)
    <3>0. clean /\ BytesIn(ring, ringHead, ringTail) = owed /\ ringHead' = ringHead
      BY <1>0, <2>5, <2>7 DEF Exact
    <3>1. StopBit = DataBits + 2 /\ DataBits \in Nat \ {0}
      BY SerialConstants
    <3>2. /\ Between(l) => cpu.does # "recv"
          /\ ~Between(l) =>
               /\ activeObject \in timed
               /\ \/ l.at = 1 /\ AtSketch /\ pcif
                  \/ /\ cpu.does = "recv" /\ cpu.bit = l.at - 1
                     /\ \A b \in 1..cpu.bit : bits[b] = l.byte[b]
      BY <1>0, <1>6, <3>0 DEF InStep, l
    <3>3. CASE Between(l)
      <4>1. /\ UNCHANGED <<bits, ring, ringTail>> /\ cpu'.does # "recv"
            /\ cpu.does # "write" => UNCHANGED cpu
        BY <1>4, <3>2, <3>3
      <4>2. CASE k.at = 0
        <5>1. Between(k) /\ owed' = owed
          BY <2>5, <3>1, <4>2 DEF Between
        <5> QED
          BY <3>0, <4>1, <5>1
      <4>3. CASE k.at = 1 /\ Level(k) = 0 /\ Level(l) = 1
        <5>1. ~Between(k) /\ owed' = owed
          BY <2>5, <3>1, <4>3 DEF Between
        <5>2. cpu.does # "write" /\ activeObject \in pcmsk /\ activeObject \in timed
          BY <2>5, <2>7, <5>1
        <5>3. pcif' /\ cpu' = cpu /\ cpu.does = "sketch"
          BY <1>2, <2>2, <3>2, <3>3, <4>1, <4>3, <5>2
        <5> QED
          BY <3>0, <4>1, <4>3, <5>1, <5>2, <5>3
      <4> QED
        BY <2>3, <3>3, <4>2, <4>3
    <3>4. CASE ~Between(l)
      <4>1. /\ activeObject \in timed /\ cpu.does = "recv" /\ cpu.bit = l.at - 1
            /\ \A b \in 1..cpu.bit : bits[b] = l.byte[b]
        BY <1>0, <3>2, <3>4
      <4>2. k.byte = l.byte /\ k.at = l.at + 1 /\ l.at \in 1..(DataBits + 1)
        BY <2>3, <3>4
      <4>3. RecvTicks(Level(k))
        BY <2>2, <4>1
      <4>4. CASE cpu.bit < DataBits
        <5>1. cpu' = [cpu EXCEPT !.bit = cpu.bit + 1] /\ UNCHANGED <<ring, ringTail>>
              /\ bits' = [bits EXCEPT ![cpu.bit + 1] = Level(k)]
          BY <4>3, <4>4 DEF RecvTicks
        <5>2. k.at \in 2..(DataBits + 1) /\ cpu.bit + 1 = k.at - 1 /\ cpu.bit + 1 \in 1..DataBits
              /\ cpu.bit \in 0..DataBits
          BY <1>2, <3>1, <4>1, <4>2, <4>4
        <5>3. ~Between(k) /\ owed' = owed
          BY <2>5, <3>1, <5>2 DEF Between
        <5>4. cpu'.does = "recv" /\ cpu'.bit = k.at - 1 /\ cpu'.bit = cpu.bit + 1
          BY <1>2, <4>1, <5>1, <5>2
        <5>5. Level(k) = k.byte[cpu.bit + 1]
          BY <2>3, <5>2
        <5>6. ASSUME NEW b \in 1..cpu'.bit PROVE bits'[b] = k.byte[b]
          <6>1. CASE b = cpu.bit + 1
            BY <1>2, <5>1, <5>2, <5>5, <6>1 DEF Bytes
          <6>2. CASE b # cpu.bit + 1
            <7>1. b \in 1..cpu.bit
              BY <5>2, <5>4, <6>2
            <7> QED
              BY <1>2, <4>1, <4>2, <5>1, <5>2, <6>2, <7>1 DEF Bytes
          <6> QED
            BY <6>1, <6>2
        <5> QED
          BY <3>0, <4>1, <5>1, <5>3, <5>4, <5>6
      <4>5. CASE ~(cpu.bit < DataBits)
        <5>1. cpu' = Idle /\ Store(bits)
          BY <4>3, <4>5 DEF RecvTicks
        <5>2. cpu.bit = DataBits /\ k.at = StopBit
          BY <1>2, <3>1, <4>1, <4>2, <4>5
        <5>3. bits = k.byte
          <6>1. k.byte \in Bytes
            BY <2>3 DEF LineType
          <6>2. \A b \in 1..DataBits : bits[b] = k.byte[b]
            BY <4>1, <4>2, <5>2
          <6> QED
            BY <1>2, <6>1, <6>2 DEF Bytes
        <5>4. BytesIn(ring', ringHead', ringTail')
                = IF Len(owed) < RingSize - 1 THEN Append(owed, k.byte) ELSE owed
          BY <1>0, <1>2, <3>0, <5>1, <5>3, StoreStores
        <5>5. BytesIn(ring', ringHead', ringTail') = owed'
          BY <2>5, <5>2, <5>4
        <5>6. owed # <<>> => owed' # <<>> /\ Head(owed') = Head(owed)
          <6>1. k.byte \in Bytes
            BY <2>3 DEF LineType
          <6>2. owed' = owed \/ owed' = Append(owed, k.byte)
            BY <2>5
          <6> QED
            BY <1>2, <6>1, <6>2
        <5>7. Between(k) /\ cpu'.does # "recv"
          BY <5>1, <5>2 DEF Between, Idle
        <5> QED
          BY <5>5, <5>6, <5>7
      <4> QED
        BY <4>4, <4>5
    <3> QED
      BY <3>3, <3>4
  <2>8. InStep'
    BY <1>0, <2>1, <2>7, Zenon DEF InStep, AtSketch
  <2>9. Exact'
    <3>1. got' = got /\ (clean' => clean)
      BY <1>0, <2>5
    <3>2. clean => (got # <<>> => owed # <<>> /\ got = <<Head(owed)>>)
      BY <1>0 DEF Exact
    <3> QED
      BY <2>7, <3>1, <3>2 DEF Exact
  <2> QED
    BY <2>6, <2>8, <2>9 DEF SerialInv
<1> QED
  BY <1>5, <1>6

LEMMA InterruptKeeps == SerialInv /\ HandleInterrupt => SerialInv'
<1> SUFFICES ASSUME SerialInv, HandleInterrupt PROVE SerialInv'
  OBVIOUS
<1>0. /\ SerialTypes /\ InStep /\ Exact /\ AtSketch /\ pcif /\ pcif' = FALSE
      /\ UNCHANGED <<lines, received, pcmsk, timed, activeObject, ringHead, got, asked, owed, clean>>
  BY DEF SerialInv, HandleInterrupt
<1>1. /\ cpu \in [does : {"sketch", "recv", "write"}, bit : 0..DataBits] /\ bits \in Bytes
      /\ ring \in [0..(RingSize - 1) -> Bytes] /\ ringTail \in 0..(RingSize - 1)
      /\ Zeros \in Bytes /\ cpu.does = "sketch"
  BY <1>0 DEF SerialTypes, AtSketch, Zeros, Bytes
<1>2. DataBits \in Nat \ {0} /\ StopBit = DataBits + 2 /\ 0 \in 0..DataBits
  BY SerialConstants
<1>3. clean /\ activeObject # None =>
        /\ Between(lines[activeObject]) => ~StartBitSeen
        /\ ~Between(lines[activeObject]) =>
             StartBitSeen /\ activeObject \in timed /\ lines[activeObject].at = 1
  <2>1. SUFFICES ASSUME clean, activeObject # None
                 PROVE  /\ Between(lines[activeObject]) => ~StartBitSeen
                        /\ ~Between(lines[activeObject]) =>
                             StartBitSeen /\ activeObject \in timed /\ lines[activeObject].at = 1
    OBVIOUS
  <2> DEFINE l == lines[activeObject]
  <2>2. ~Between(l) => activeObject \in timed /\ l.at = 1
    BY <1>0, <1>1, <2>1 DEF InStep
  <2>3. StartBitSeen <=> Level(l) = 0
    BY DEF StartBitSeen
  <2> HIDE DEF l
  <2>4. Between(l) => Level(l) # 0
    BY DEF Between, Level
  <2>5. l.at = 1 => Level(l) = 0
    BY <1>2 DEF Level
  <2> QED
    BY <2>2, <2>3, <2>4, <2>5 DEF l
<1>4. CASE activeObject = None \/ ~StartBitSeen
  <2>1. UNCHANGED <<cpu, bits, ring, ringTail>>
    BY <1>4 DEF HandleInterrupt
  <2>2. SerialTypes'
    BY <1>0, <2>1 DEF SerialTypes
  <2>3. InStep'
    BY <1>0, <1>1, <1>3, <1>4, <2>1 DEF InStep
  <2>4. Exact'
    BY <1>0, <2>1 DEF Exact
  <2> QED
    BY <2>2, <2>3, <2>4 DEF SerialInv
<1>5. CASE activeObject # None /\ StartBitSeen /\ activeObject \in timed
  <2>1. cpu' = [does |-> "recv", bit |-> 0] /\ bits' = Zeros /\ UNCHANGED <<ring, ringTail>>
    BY <1>5 DEF HandleInterrupt
  <2>2. cpu' \in [does : {"sketch", "recv", "write"}, bit : 0..DataBits]
        /\ cpu'.does = "recv" /\ cpu'.bit = 0
    BY <1>2, <2>1
  <2>3. SerialTypes'
    BY <1>0, <1>1, <1>5, <2>1, <2>2 DEF SerialTypes
  <2>4. InStep'
    <3>1. ASSUME clean
          PROVE  ~Between(lines[activeObject]) /\ cpu'.bit = lines[activeObject].at - 1
                 /\ \A b \in 1..cpu'.bit : bits'[b] = lines[activeObject].byte[b]
      <4>1. ~Between(lines[activeObject]) /\ lines[activeObject].at = 1
        BY <1>3, <1>5, <3>1
      <4>2. 1..cpu'.bit = {}
        BY <2>2
      <4> QED
        BY <2>2, <4>1, <4>2
    <3> QED
      BY <1>0, <1>5, <2>2, <3>1 DEF InStep
  <2>5. Exact'
    BY <1>0, <2>1 DEF Exact
  <2> QED
    BY <2>3, <2>4, <2>5 DEF SerialInv
<1>6. CASE activeObject # None /\ StartBitSeen /\ activeObject \notin timed
  <2>1. Store(Zeros) /\ UNCHANGED <<cpu, bits>>
    BY <1>6 DEF HandleInterrupt
  <2>2. ring' \in [0..(RingSize - 1) -> Bytes] /\ ringTail' \in 0..(RingSize - 1)
    BY <1>0, <1>1, <2>1, StoreStores
  <2>3. ~clean'
    BY <1>0, <1>3, <1>6
  <2>4. SerialTypes'
    BY <1>0, <1>1, <2>1, <2>2 DEF SerialTypes
  <2> QED
    BY <2>3, <2>4 DEF SerialInv, InStep, Exact
<1> QED
  BY <1>4, <1>5, <1>6

\* The sketch is at a call of its own between the bytes of its line.
LEMMA SketchIsBetween ==
  ASSUME SerialInv, AtSketch, ~pcif, clean, activeObject # None
  PROVE  Between(lines[activeObject])
  BY DEF SerialInv, InStep, AtSketch

\* A listener hears the next byte from its start.
LEMMA ListenKeeps ==
  ASSUME SerialInv, SketchSteps, NEW s \in Serials, Listen(s),
         UNCHANGED <<lines, cpu, bits, ring, got>>
  PROVE  SerialInv'
<1>0. /\ SerialTypes /\ InStep /\ Exact /\ AtSketch /\ ~pcif /\ got = <<>> /\ activeObject' = s
      /\ s # None /\ cpu.does = "sketch"
  BY SerialConstants DEF SerialInv, SketchSteps, Listen, AtSketch
<1>1. CASE s = activeObject
  <2>1. UNCHANGED <<ringHead, ringTail, owed, clean, activeObject>>
    BY <1>1 DEF Listen
  <2>2. clean => Between(lines[activeObject])
    BY <1>0, <1>1, SketchIsBetween
  <2>3. SerialTypes'
    BY <1>0, <2>1 DEF SerialTypes
  <2>4. InStep'
    BY <1>0, <2>1, <2>2 DEF InStep
  <2>5. Exact'
    BY <1>0, <2>1 DEF Exact
  <2> QED
    BY <2>3, <2>4, <2>5 DEF SerialInv
<1>2. CASE s # activeObject
  <2>1. ringHead' = 0 /\ ringTail' = 0 /\ owed' = <<>> /\ clean' = Between(lines[s])
    BY <1>2 DEF Listen
  <2>2. 0 \in 0..(RingSize - 1) /\ owed' \in Seq(Bytes)
    BY <2>1, SerialConstants
  <2>3. SerialTypes'
    BY <1>0, <2>1, <2>2 DEF SerialTypes
  <2>4. InStep'
    BY <1>0, <2>1 DEF InStep
  <2>5. Exact'
    BY <1>0, <2>1, <2>2, NoBytes DEF Exact
  <2> QED
    BY <2>3, <2>4, <2>5 DEF SerialInv
<1> QED
  BY <1>1, <1>2

\* readMoves: the byte that was taken leaves the ring.
LEMMA ReadKeeps == SerialInv /\ readMoves => SerialInv'
<1> SUFFICES ASSUME SerialInv, readMoves PROVE SerialInv'
  OBVIOUS
<1>0. /\ SerialTypes /\ InStep /\ Exact /\ AtSketch /\ ~pcif /\ got # <<>> /\ got' = <<>>
      /\ ringHead' = ((ringHead + 1) % RingSize)
      /\ owed' = IF owed = <<>> THEN owed ELSE Tail(owed)
      /\ UNCHANGED <<lines, received, pcmsk, pcif, timed, activeObject, cpu, bits, ring,
                     ringTail, overflow, asked, clean>>
  BY DEF SerialInv, readMoves
<1>1. /\ ring \in [0..(RingSize - 1) -> Bytes] /\ ringHead \in 0..(RingSize - 1)
      /\ ringTail \in 0..(RingSize - 1) /\ owed \in Seq(Bytes)
  BY <1>0 DEF SerialTypes
<1>2. ringHead' = Round(RingSize, ringHead + 1) /\ Round(RingSize, ringHead + 1) \in 0..(RingSize - 1)
  BY <1>0, <1>1, NextByte
<1>3. owed' \in Seq(Bytes)
  BY <1>0, <1>1
<1>4. SerialTypes'
  BY <1>0, <1>2, <1>3 DEF SerialTypes
<1>5. InStep'
  BY <1>0 DEF InStep, AtSketch
<1>6. Exact'
  <2>1. SUFFICES ASSUME clean PROVE BytesIn(ring, Round(RingSize, ringHead + 1), ringTail) = owed'
    BY <1>0, <1>2 DEF Exact
  <2>2. BytesIn(ring, ringHead, ringTail) = owed /\ owed # <<>>
    BY <1>0, <2>1 DEF Exact
  <2>3. ringHead # ringTail
    BY <1>1, <2>2, NoBytes
  <2>4. BytesIn(ring, Round(RingSize, ringHead + 1), ringTail) = Tail(BytesIn(ring, ringHead, ringTail))
    BY <1>1, <2>3, BytesGet
  <2> QED
    BY <1>0, <2>2, <2>4
<1> QED
  BY <1>4, <1>5, <1>6 DEF SerialInv

LEMMA TakesKeeps == SerialInv /\ readTakes => SerialInv'
<1> SUFFICES ASSUME SerialInv, readTakes PROVE SerialInv'
  OBVIOUS
<1>0. /\ SerialTypes /\ InStep /\ Exact /\ ringHead # ringTail /\ got' = <<ring[ringHead]>>
      /\ UNCHANGED <<lines, received, pcmsk, pcif, timed, activeObject, cpu, bits, ring,
                     ringHead, ringTail, overflow, asked, owed, clean>>
  BY DEF SerialInv, readTakes
<1>1. /\ ring \in [0..(RingSize - 1) -> Bytes] /\ ringHead \in 0..(RingSize - 1)
      /\ ringTail \in 0..(RingSize - 1)
  BY <1>0 DEF SerialTypes
<1>2. BytesIn(ring, ringHead, ringTail) # <<>> /\ Head(BytesIn(ring, ringHead, ringTail)) = ring[ringHead]
  BY <1>0, <1>1, BytesGet
<1>3. SerialTypes'
  BY <1>0 DEF SerialTypes
<1>4. InStep'
  BY <1>0 DEF InStep, AtSketch
<1>5. Exact'
  BY <1>0, <1>2 DEF Exact
<1> QED
  BY <1>3, <1>4, <1>5 DEF SerialInv

LEMMA FlushKeeps == SerialInv /\ flush => SerialInv'
<1> SUFFICES ASSUME SerialInv, flush PROVE SerialInv'
  OBVIOUS
<1>0. /\ SerialTypes /\ InStep /\ Exact /\ SketchSteps
      /\ ringHead' = 0 /\ ringTail' = 0 /\ owed' = <<>>
      /\ UNCHANGED <<lines, received, pcmsk, pcif, timed, activeObject, cpu, bits, ring,
                     got, overflow, asked, clean>>
  BY DEF SerialInv, flush
<1>1. 0 \in 0..(RingSize - 1) /\ owed' \in Seq(Bytes) /\ got = <<>>
  BY <1>0, SerialConstants DEF SketchSteps
<1>2. SerialTypes'
  BY <1>0, <1>1 DEF SerialTypes
<1>3. InStep'
  BY <1>0 DEF InStep, AtSketch
<1>4. Exact'
  BY <1>0, <1>1, NoBytes DEF Exact
<1> QED
  BY <1>2, <1>3, <1>4 DEF SerialInv

\* write takes the processor between two bytes.
LEMMA WriteKeeps == ASSUME NEW s \in Serials PROVE SerialInv /\ write(s) => SerialInv'
<1> SUFFICES ASSUME SerialInv, write(s) PROVE SerialInv'
  OBVIOUS
<1>0. /\ SerialTypes /\ InStep /\ Exact /\ SketchSteps /\ cpu' = [does |-> "write", bit |-> 0]
      /\ UNCHANGED <<lines, received, pcmsk, pcif, timed, activeObject, bits, ring,
                     ringHead, ringTail, got, overflow, asked, owed, clean>>
  BY DEF SerialInv, write
<1>1. cpu' \in [does : {"sketch", "recv", "write"}, bit : 0..DataBits] /\ cpu'.does = "write"
  BY <1>0, SerialConstants
<1>2. clean /\ activeObject # None => Between(lines[activeObject])
  BY <1>0, SketchIsBetween DEF SketchSteps
<1>3. SerialTypes'
  BY <1>0, <1>1 DEF SerialTypes
<1>4. InStep'
  BY <1>0, <1>1, <1>2 DEF InStep
<1>5. Exact'
  BY <1>0 DEF Exact
<1> QED
  BY <1>3, <1>4, <1>5 DEF SerialInv

\* The other calls touch neither lines nor ring.
LEMMA ElseKeeps ==
  ASSUME SerialInv,
         UNCHANGED <<lines, pcif, timed, activeObject, cpu, bits, ring, ringHead, ringTail, got,
                     owed, clean>>
  PROVE  SerialInv'
<1>1. SerialTypes'
  BY DEF SerialInv, SerialTypes
<1>2. InStep'
  BY DEF SerialInv, InStep, AtSketch
<1>3. Exact'
  BY DEF SerialInv, Exact
<1> QED
  BY <1>1, <1>2, <1>3 DEF SerialInv

\* SoftwareSerial::read gives what the line of the listening object has
\* carried, byte by byte and in order, but for what found the ring full:
\* recv may come between two halves of a read, and pins of other objects may
\* call it in the middle of a byte.
THEOREM ReadsExact == SoftwareSerialSpec => []ReadsAreExact
<1>1. SerialInv /\ [SoftwareSerialNext]_softwareSerialVars => SerialInv'
  <2>1. ASSUME SerialInv, NEW s \in Serials, listen(s) PROVE SerialInv'
    BY <2>1, ListenKeeps DEF listen
  <2>2. ASSUME SerialInv, NEW s \in Serials, NEW known \in BOOLEAN, beginAt(s, known) PROVE SerialInv'
    BY <2>2, ListenKeeps DEF beginAt
  <2>3. ASSUME SerialInv, NEW s \in Serials, end(s) PROVE SerialInv'
    BY <2>3, ElseKeeps DEF end
  <2>4. ASSUME SerialInv, NEW s \in Serials, overflowReads(s) PROVE SerialInv'
    BY <2>4, ElseKeeps DEF overflowReads
  <2>5. SerialInv /\ overflowClears => SerialInv'
    BY ElseKeeps DEF overflowClears
  <2>6. SerialInv /\ UNCHANGED softwareSerialVars => SerialInv'
    BY ElseKeeps DEF softwareSerialVars
  <2> QED
    BY <2>1, <2>2, <2>3, <2>4, <2>5, <2>6, TickKeeps, InterruptKeeps, WriteKeeps, TakesKeeps,
       ReadKeeps, FlushKeeps, Zenon DEF SoftwareSerialNext
<1>2. SerialInv => ReadsAreExact
  <2>1. SUFFICES ASSUME SerialInv, clean
                 PROVE  RingBytes = owed /\ (got # <<>> => got = <<Head(owed)>>)
    BY DEF ReadsAreExact
  <2>2. ringHead \in 0..(RingSize - 1) /\ ringTail \in 0..(RingSize - 1)
        /\ BytesIn(ring, ringHead, ringTail) = owed /\ (got # <<>> => got = <<Head(owed)>>)
    BY <2>1 DEF SerialInv, SerialTypes, Exact
  <2>3. RingBytes = BytesIn(ring, ringHead, ringTail)
    BY <2>2, RingBytesIs DEF RingBytes, Buffered
  <2> QED
    BY <2>2, <2>3
<1> QED
  BY <1>1, <1>2, SerialInitially, PTL DEF SoftwareSerialSpec

-----------------------------------------------------------------------------
(* SysTimer: the sums of the timeouts *)

\* The sums of the timeouts exist for a list of any length.
AreSums(h, list, m) == h = [k \in 0..m |-> IF k = 0 THEN 0 ELSE h[k - 1] + list[k].timeout]

LEMMA SumsExist ==
  ASSUME NEW list, Len(list) \in Nat
  PROVE  \E h : AreSums(h, list, Len(list))
<1> DEFINE S == {m \in Nat : \E h : AreSums(h, list, m)}
<1>1. 0 \in S
  <2> DEFINE h == [k \in 0..0 |-> 0]
  <2>1. h = [k \in 0..0 |-> IF k = 0 THEN 0 ELSE h[k - 1] + list[k].timeout]
    OBVIOUS
  <2>2. AreSums(h, list, 0)
    BY <2>1 DEF AreSums
  <2> QED BY <2>2
<1>2. ASSUME NEW m \in Nat, m \in S
      PROVE  m + 1 \in S
  <2>1. PICK h : AreSums(h, list, m)
    BY <1>2
  <2> DEFINE g == [k \in 0..(m + 1) |-> IF k <= m THEN h[k] ELSE h[m] + list[m + 1].timeout]
             NextSum(k) == IF k = 0 THEN 0 ELSE g[k - 1] + list[k].timeout
  <2>2. h = [k \in 0..m |-> IF k = 0 THEN 0 ELSE h[k - 1] + list[k].timeout]
    BY <2>1 DEF AreSums
  <2>3. ASSUME NEW k \in 0..(m + 1)
        PROVE  g[k] = NextSum(k)
    <3>1. CASE k = 0
      BY <3>1, <2>2
    <3>2. CASE k \in 1..m
      <4>1. k - 1 \in 0..(m + 1) /\ k - 1 <= m /\ k \in 0..m /\ k # 0 /\ k <= m
        BY <3>2
      <4>2. h[k] = h[k - 1] + list[k].timeout
        BY <2>2, <4>1
      <4> QED BY <4>1, <4>2
    <3>3. CASE k = m + 1
      <4>1. m \in 0..(m + 1) /\ m <= m /\ k - 1 = m /\ k # 0 /\ ~(k <= m)
        BY <3>3
      <4> QED BY <4>1, <3>3
    <3> QED BY <3>1, <3>2, <3>3
  <2>4. g = [k \in 0..(m + 1) |-> g[k]]
    OBVIOUS
  <2> HIDE DEF g
  <2>5. g = [k \in 0..(m + 1) |-> NextSum(k)]
    BY <2>3, <2>4
  <2>6. AreSums(g, list, m + 1)
    BY <2>5 DEF AreSums
  <2> QED BY <2>6
<1> HIDE DEF S
<1>3. \A m \in Nat : m \in S
  BY <1>1, <1>2, NatInductionSet
<1> QED BY <1>3 DEF S

LEMMA SumDef ==
  ASSUME NEW list, Len(list) \in Nat
  PROVE  /\ Sum(list, 0) = 0
         /\ \A k \in 1..Len(list) : Sum(list, k) = Sum(list, k - 1) + list[k].timeout
<1> DEFINE f == CHOOSE h : AreSums(h, list, Len(list))
<1>1. AreSums(f, list, Len(list))
  BY SumsExist
<1>2. \A i : Sum(list, i) = f[i]
  BY DEF Sum, AreSums
<1> HIDE DEF f
<1>3. f = [k \in 0..Len(list) |-> IF k = 0 THEN 0 ELSE f[k - 1] + list[k].timeout]
  BY <1>1 DEF AreSums
<1>4. f[0] = 0
  BY <1>3
<1>5. \A k \in 1..Len(list) : f[k] = f[k - 1] + list[k].timeout
  BY <1>3
<1> QED BY <1>2, <1>4, <1>5

\* Whatever begins with 0 and grows by the timeouts is their sum.
LEMMA SumIs ==
  ASSUME NEW list, Len(list) \in Nat, NEW g, g[0] = 0,
         \A k \in 1..Len(list) : g[k] = g[k - 1] + list[k].timeout
  PROVE  \A k \in 0..Len(list) : Sum(list, k) = g[k]
<1> DEFINE S == {m \in Nat : m <= Len(list) => Sum(list, m) = g[m]}
<1>1. 0 \in S
  BY SumDef
<1>2. ASSUME NEW m \in Nat, m \in S
      PROVE  m + 1 \in S
  <2> SUFFICES ASSUME m + 1 <= Len(list) PROVE Sum(list, m + 1) = g[m + 1]
    OBVIOUS
  <2>1. m + 1 \in 1..Len(list) /\ (m + 1) - 1 = m /\ Sum(list, m) = g[m]
    BY <1>2
  <2>2. Sum(list, m + 1) = Sum(list, m) + list[m + 1].timeout
    BY <2>1, SumDef
  <2> QED BY <2>1, <2>2
<1> HIDE DEF S
<1>3. \A m \in Nat : m \in S
  BY <1>1, <1>2, NatInductionSet
<1> QED BY <1>3 DEF S

Entry == [timer : SysTimers, timeout : Nat]
EachOnce(list) == \A j, k \in DOMAIN list : list[j].timer = list[k].timer => j = k

LEMMA EntryIs ==
  ASSUME NEW list \in Seq(Entry)
  PROVE  /\ Len(list) \in Nat /\ DOMAIN list = 1..Len(list) /\ list = [k \in 1..Len(list) |-> list[k]]
         /\ \A k \in 1..Len(list) :
              /\ list[k] = [timer |-> list[k].timer, timeout |-> list[k].timeout]
              /\ list[k].timer \in SysTimers /\ list[k].timeout \in Nat
<1>1. Len(list) \in Nat /\ DOMAIN list = 1..Len(list) /\ \A k \in 1..Len(list) : list[k] \in Entry
  BY LenProperties, ElementOfSeq
<1>2. list = [k \in 1..Len(list) |-> list[k]]
  BY LenProperties
<1> QED BY <1>1, <1>2 DEF Entry

LEMMA SumIsNat ==
  ASSUME NEW list \in Seq(Entry)
  PROVE  \A k \in 0..Len(list) : Sum(list, k) \in Nat
<1> DEFINE S == {m \in Nat : m <= Len(list) => Sum(list, m) \in Nat}
<1>1. 0 \in S
  BY EntryIs, SumDef
<1>2. ASSUME NEW m \in Nat, m \in S
      PROVE  m + 1 \in S
  <2> SUFFICES ASSUME m + 1 <= Len(list) PROVE Sum(list, m + 1) \in Nat
    OBVIOUS
  <2>1. Len(list) \in Nat
    BY EntryIs
  <2>2. m + 1 \in 1..Len(list) /\ (m + 1) - 1 = m /\ Sum(list, m) \in Nat
    BY <1>2, <2>1
  <2>3. Sum(list, m + 1) = Sum(list, m) + list[m + 1].timeout
    BY <2>1, <2>2, SumDef
  <2>4. list[m + 1].timeout \in Nat
    BY <2>2, EntryIs
  <2> QED BY <2>2, <2>3, <2>4
<1> HIDE DEF S
<1>3. \A m \in Nat : m \in S
  BY <1>1, <1>2, NatInductionSet
<1> QED BY <1>3, EntryIs DEF S

LEMMA SumGrows ==
  ASSUME NEW list \in Seq(Entry), NEW i \in 0..Len(list)
  PROVE  \A k \in i..Len(list) : Sum(list, i) <= Sum(list, k)
<1> DEFINE S == {m \in Nat : i + m <= Len(list) => Sum(list, i) <= Sum(list, i + m)}
<1>0. Len(list) \in Nat /\ i \in Nat /\ i + 0 = i
  BY EntryIs
<1>1. 0 \in S
  BY <1>0, SumIsNat
<1>2. ASSUME NEW m \in Nat, m \in S
      PROVE  m + 1 \in S
  <2> SUFFICES ASSUME i + (m + 1) <= Len(list) PROVE Sum(list, i) <= Sum(list, i + (m + 1))
    OBVIOUS
  <2> DEFINE k == i + (m + 1)
  <2>1. k \in 1..Len(list) /\ k - 1 = i + m /\ i + m \in 0..Len(list)
    BY <1>0
  <2>2. Sum(list, i) <= Sum(list, i + m)
    BY <1>0, <1>2, <2>1
  <2> HIDE DEF k
  <2>3. Sum(list, k) = Sum(list, i + m) + list[k].timeout /\ list[k].timeout \in Nat
    BY <1>0, <2>1, SumDef, EntryIs
  <2>4. Sum(list, i) \in Nat /\ Sum(list, i + m) \in Nat
    BY <2>1, SumIsNat
  <2> QED BY <2>2, <2>3, <2>4 DEF k
<1> HIDE DEF S
<1>3. \A m \in Nat : m \in S
  BY <1>1, <1>2, NatInductionSet
<1>4. ASSUME NEW k \in i..Len(list)
      PROVE  Sum(list, i) <= Sum(list, k)
  <2>1. k - i \in Nat /\ i + (k - i) = k /\ k <= Len(list)
    BY <1>0
  <2> QED BY <1>3, <2>1 DEF S
<1> QED BY <1>4

\* What the time of one entry becomes.
LEMMA BehindIs ==
  ASSUME NEW list \in Seq(Entry), NEW i, NEW time
  PROVE  /\ Behind(list, i, time) = [k \in 1..Len(list) |-> Behind(list, i, time)[k]]
         /\ \A k \in 1..Len(list) :
              Behind(list, i, time)[k] =
                [timer |-> list[k].timer,
                 timeout |-> IF k = i + 1 THEN list[k].timeout - time ELSE list[k].timeout]
<1> DEFINE b == Behind(list, i, time)
<1>1. b = [k \in 1..Len(list) |->
             IF k = i + 1 THEN [list[k] EXCEPT !.timeout = @ - time] ELSE list[k]]
  BY EntryIs DEF Behind
<1> HIDE DEF b
<1>2. b = [k \in 1..Len(list) |-> b[k]]
  BY <1>1
<1>3. ASSUME NEW k \in 1..Len(list)
      PROVE  b[k] = [timer |-> list[k].timer,
                     timeout |-> IF k = i + 1 THEN list[k].timeout - time ELSE list[k].timeout]
  <2> DEFINE e == list[k]
  <2>1. e = [timer |-> e.timer, timeout |-> e.timeout]
    BY EntryIs
  <2>2. b[k] = IF k = i + 1 THEN [e EXCEPT !.timeout = @ - time] ELSE e
    BY <1>1
  <2> HIDE DEF e
  <2>3. [e EXCEPT !.timeout = @ - time] = [timer |-> e.timer, timeout |-> e.timeout - time]
    BY <2>1
  <2> QED BY <2>1, <2>2, <2>3 DEF e
<1> QED BY <1>2, <1>3 DEF b

\* Where a timer is placed, the times of the others are what they were.
LEMMA PlacedAt ==
  ASSUME NEW list \in Seq(Entry), NEW t \in SysTimers
  PROVE  \E i \in 0..Len(list) :
           /\ Sum(list, i) <= Interval[t]
           /\ i < Len(list) => Interval[t] < Sum(list, i + 1)
           /\ placeTimer(list, t) =
                InsertAt(Behind(list, i, Interval[t] - Sum(list, i)), i + 1,
                         [timer |-> t, timeout |-> Interval[t] - Sum(list, i)])
<1> DEFINE before == {i \in 0..Len(list) : Sum(list, i) <= Interval[t]}
           Latest(j) == \A k \in before : k <= j
           S == {m \in Nat : m <= Len(list) => \E j \in before : \A k \in before : k <= m => k <= j}
           i == CHOOSE j \in before : Latest(j)
<1>1. Len(list) \in Nat /\ Interval[t] \in Nat /\ before \subseteq 0..Len(list)
  BY EntryIs, SysTimerAssumption
<1>2. 0 \in before
  BY <1>1, SumDef
<1> HIDE DEF before
<1>3. 0 \in S
  <2>1. \A k \in before : k <= 0 => k <= 0
    OBVIOUS
  <2> QED BY <1>2, <2>1
<1>4. ASSUME NEW m \in Nat, m \in S
      PROVE  m + 1 \in S
  <2> SUFFICES ASSUME m + 1 <= Len(list)
               PROVE  \E j \in before : \A k \in before : k <= m + 1 => k <= j
    OBVIOUS
  <2>1. CASE m + 1 \in before
    BY <2>1
  <2>2. CASE m + 1 \notin before
    <3>1. PICK j \in before : \A k \in before : k <= m => k <= j
      BY <1>1, <1>4
    <3>2. \A k \in before : k <= m + 1 => k <= m
      BY <1>1, <2>2
    <3> QED BY <3>1, <3>2
  <2> QED BY <2>1, <2>2
<1> HIDE DEF S
<1>5. \A m \in Nat : m \in S
  BY <1>3, <1>4, NatInductionSet
<1>6. \E j \in before : Latest(j)
  <2>1. Len(list) \in S /\ Len(list) <= Len(list)
    BY <1>1, <1>5
  <2>2. PICK j \in before : \A k \in before : k <= Len(list) => k <= j
    BY <2>1 DEF S
  <2>3. \A k \in before : k <= Len(list)
    BY <1>1
  <2> QED BY <2>2, <2>3
<1>7. i \in before /\ Latest(i)
  BY <1>6
<1>8. placeTimer(list, t) =
        InsertAt(Behind(list, i, Interval[t] - Sum(list, i)), i + 1,
                 [timer |-> t, timeout |-> Interval[t] - Sum(list, i)])
  BY DEF placeTimer, before
<1> HIDE DEF i
<1>9. i \in 0..Len(list) /\ Sum(list, i) <= Interval[t]
  BY <1>7 DEF before
<1>10. ASSUME i < Len(list)
       PROVE  Interval[t] < Sum(list, i + 1)
  <2>1. i + 1 \in 0..Len(list) /\ ~(i + 1 <= i)
    BY <1>1, <1>9, <1>10
  <2>2. i + 1 \notin before
    BY <1>7, <2>1
  <2>3. Sum(list, i + 1) \in Nat
    BY <2>1, SumIsNat
  <2> QED BY <1>1, <2>1, <2>2, <2>3 DEF before
<1> QED BY <1>8, <1>9, <1>10

PlacedBehind(list, t, i, new) ==
  /\ i \in 0..Len(list) /\ new \in Seq(Entry) /\ Len(new) = Len(list) + 1
  /\ \A k \in 1..(Len(list) + 1) :
       /\ new[k].timer = IF k <= i THEN list[k].timer ELSE IF k = i + 1 THEN t ELSE list[k - 1].timer
       /\ Sum(new, k) = IF k <= i THEN Sum(list, k) ELSE IF k = i + 1 THEN Interval[t]
                        ELSE Sum(list, k - 1)

LEMMA Placed ==
  ASSUME NEW list \in Seq(Entry), NEW t \in SysTimers
  PROVE  \E i : PlacedBehind(list, t, i, placeTimer(list, t))
<1>1. PICK i \in 0..Len(list) :
           /\ Sum(list, i) <= Interval[t]
           /\ i < Len(list) => Interval[t] < Sum(list, i + 1)
           /\ placeTimer(list, t) =
                InsertAt(Behind(list, i, Interval[t] - Sum(list, i)), i + 1,
                         [timer |-> t, timeout |-> Interval[t] - Sum(list, i)])
  BY PlacedAt
<1> DEFINE n == Len(list)
           time == Interval[t] - Sum(list, i)
           e == [timer |-> t, timeout |-> time]
           b == Behind(list, i, time)
           new == InsertAt(b, i + 1, e)
<1>2. n \in Nat /\ Interval[t] \in Nat /\ Sum(list, i) \in Nat /\ time \in Nat /\ i \in 0..n
  BY <1>1, EntryIs, SysTimerAssumption, SumIsNat
<1>3. /\ b = [k \in 1..n |-> b[k]]
      /\ \A k \in 1..n : b[k] =
           [timer |-> list[k].timer,
            timeout |-> IF k = i + 1 THEN list[k].timeout - time ELSE list[k].timeout]
  BY BehindIs
<1>4. e.timer = t /\ e.timeout = time /\ e \in Entry
  BY <1>2 DEF Entry
<1> HIDE DEF b, e, time
<1>5. \A k \in 1..n : b[k] \in Entry
  <2> TAKE k \in 1..n
  <2>1. list[k].timer \in SysTimers /\ list[k].timeout \in Nat
    BY EntryIs
  <2>2. CASE k # i + 1
    BY <2>1, <2>2, <1>3 DEF Entry
  <2>3. CASE k = i + 1
    <3>1. Sum(list, k) = Sum(list, k - 1) + list[k].timeout /\ k - 1 = i
      BY <2>3, <1>2, SumDef
    <3>2. Interval[t] < Sum(list, k)
      BY <2>3, <1>1, <1>2
    <3>3. list[k].timeout - time \in Nat
      BY <3>1, <3>2, <2>1, <1>2 DEF time
    <3> QED BY <3>3, <2>1, <2>3, <1>3 DEF Entry
  <2> QED BY <2>2, <2>3
<1>6. b \in Seq(Entry) /\ Len(b) = n
  BY <1>2, <1>3, <1>5
<1>7. /\ new \in Seq(Entry) /\ Len(new) = n + 1
      /\ \A k \in 1..(n + 1) :
           new[k] = IF k < i + 1 THEN b[k] ELSE IF k = i + 1 THEN e ELSE b[k - 1]
  <2>1. i + 1 \in 1..(Len(b) + 1)
    BY <1>2, <1>6
  <2>2. /\ new \in Seq(Entry) /\ Len(new) = Len(b) + 1
        /\ \A k \in 1..(Len(b) + 1) :
             new[k] = IF k < i + 1 THEN b[k] ELSE IF k = i + 1 THEN e ELSE b[k - 1]
    <3> DEFINE place == i + 1
    <3>1. place \in 1..(Len(b) + 1)
      BY <2>1
    <3>2. new = InsertAt(b, place, e)
      BY DEF new
    <3> HIDE DEF place, new
    <3>3. HasMore(new, Entry, b, place, e)
      BY <1>4, <1>6, <3>1, <3>2, InsertedAt
    <3> QED BY <3>3 DEF place, HasMore
  <2> QED BY <1>6, <2>2
<1> HIDE DEF new
<1>8. ASSUME NEW k \in 1..(n + 1)
      PROVE  /\ new[k].timer = IF k <= i THEN list[k].timer
                               ELSE IF k = i + 1 THEN t ELSE list[k - 1].timer
             /\ new[k].timeout = IF k <= i THEN list[k].timeout
                                 ELSE IF k = i + 1 THEN time
                                 ELSE IF k = i + 2 THEN list[k - 1].timeout - time
                                 ELSE list[k - 1].timeout
  <2>1. CASE k <= i
    <3>1. k \in 1..n /\ k < i + 1 /\ k # i + 1
      BY <2>1, <1>2
    <3>2. new[k] = b[k]
      BY <3>1, <1>7
    <3>3. new[k].timer = list[k].timer /\ new[k].timeout = list[k].timeout
      BY <3>1, <3>2, <1>3
    <3> QED BY <3>3, <2>1
  <2>2. CASE k = i + 1
    BY <2>2, <1>2, <1>4, <1>7
  <2>3. CASE k > i + 1
    <3>1. k - 1 \in 1..n /\ ~(k < i + 1) /\ k # i + 1 /\ ~(k <= i) /\ (k - 1 = i + 1 <=> k = i + 2)
      BY <2>3, <1>2
    <3>2. new[k] = b[k - 1]
      BY <3>1, <1>7
    <3> DEFINE m == k - 1
    <3>3. m \in 1..n /\ (m = i + 1 <=> k = i + 2) /\ new[k] = b[m]
      BY <3>1, <3>2
    <3> HIDE DEF m
    <3>4. /\ new[k].timer = list[m].timer
          /\ new[k].timeout = IF m = i + 1 THEN list[m].timeout - time ELSE list[m].timeout
      BY <3>3, <1>3
    <3> QED BY <3>1, <3>3, <3>4 DEF m
  <2>4. k <= i \/ k = i + 1 \/ k > i + 1
    BY <1>2
  <2> QED BY <2>1, <2>2, <2>3, <2>4, Zenon
<1> DEFINE g == [k \in 0..(n + 1) |-> IF k <= i THEN Sum(list, k) ELSE IF k = i + 1 THEN Interval[t]
                                      ELSE Sum(list, k - 1)]
<1>9. g[0] = 0
  BY <1>2, SumDef
<1>10. ASSUME NEW k \in 1..(n + 1)
       PROVE  g[k] = g[k - 1] + new[k].timeout
  <2>0. k \in 0..(n + 1) /\ k - 1 \in 0..(n + 1)
    BY <1>2
  <2>1. CASE k <= i
    <3>1. k \in 1..n /\ k - 1 <= i
      BY <2>1, <1>2
    <3>2. Sum(list, k) = Sum(list, k - 1) + list[k].timeout
      BY <3>1, <1>2, SumDef
    <3> QED BY <3>1, <3>2, <2>0, <2>1, <1>8
  <2>2. CASE k = i + 1
    <3>1. k - 1 = i /\ ~(k <= i) /\ k - 1 <= i
      BY <2>2, <1>2
    <3>2. g[k - 1] = Sum(list, i) /\ g[k] = Interval[t] /\ new[k].timeout = time
      BY <2>0, <2>2, <3>1, <1>8
    <3> HIDE DEF g
    <3> QED BY <3>2, <1>2 DEF time
  <2>3. CASE k = i + 2
    <3>1. k - 1 = i + 1 /\ ~(k <= i) /\ k # i + 1 /\ ~(k - 1 <= i) /\ k - 1 \in 1..n /\ (k - 1) - 1 = i
      BY <2>3, <1>2
    <3>2. Sum(list, k - 1) = Sum(list, i) + list[k - 1].timeout /\ list[k - 1].timeout \in Nat
      BY <3>1, <1>2, SumDef, EntryIs
    <3>3. g[k - 1] = Interval[t] /\ g[k] = Sum(list, k - 1)
          /\ new[k].timeout = list[k - 1].timeout - time
      BY <2>0, <2>3, <3>1, <1>8
    <3> HIDE DEF g
    <3> QED BY <3>2, <3>3, <1>2 DEF time
  <2>4. CASE k > i + 2
    <3>1. /\ ~(k <= i) /\ k # i + 1 /\ k # i + 2 /\ k - 1 \in 1..n
          /\ ~(k - 1 <= i) /\ k - 1 # i + 1
      BY <2>4, <1>2
    <3>2. Sum(list, k - 1) = Sum(list, (k - 1) - 1) + list[k - 1].timeout
      BY <3>1, <1>2, SumDef
    <3>3. g[k - 1] = Sum(list, (k - 1) - 1) /\ g[k] = Sum(list, k - 1)
          /\ new[k].timeout = list[k - 1].timeout
      BY <2>0, <3>1, <1>8
    <3> HIDE DEF g
    <3> QED BY <3>2, <3>3
  <2> QED BY <2>1, <2>2, <2>3, <2>4, <1>2
<1> HIDE DEF g
<1>11. \A k \in 0..(n + 1) : Sum(new, k) = g[k]
  <2>1. Len(new) \in Nat /\ Len(new) = n + 1
    BY <1>2, <1>7
  <2>2. \A k \in 1..Len(new) : g[k] = g[k - 1] + new[k].timeout
    BY <1>10, <2>1
  <2> HIDE DEF n
  <2>3. \A k \in 0..Len(new) : Sum(new, k) = g[k]
    BY <1>9, <2>1, <2>2, SumIs
  <2> QED BY <2>1, <2>3
<1>12. \A k \in 1..(n + 1) : Sum(new, k) = IF k <= i THEN Sum(list, k)
                                          ELSE IF k = i + 1 THEN Interval[t] ELSE Sum(list, k - 1)
  BY <1>2, <1>11 DEF g
<1>13. PlacedBehind(list, t, i, new)
  BY <1>2, <1>7, <1>8, <1>12 DEF PlacedBehind
<1>14. placeTimer(list, t) = new
  BY <1>1 DEF new, b, e, time
<1> QED BY <1>13, <1>14

LostAt(list, i, new) ==
  /\ new \in Seq(Entry) /\ Len(new) = Len(list) - 1
  /\ \A k \in 1..(Len(list) - 1) :
       /\ new[k].timer = IF k < i THEN list[k].timer ELSE list[k + 1].timer
       /\ Sum(new, k) = IF k < i THEN Sum(list, k) ELSE Sum(list, k + 1)

\* What comes behind a removed timer takes over its time.
LEMMA Lost ==
  ASSUME NEW list \in Seq(Entry), NEW i \in 1..Len(list)
  PROVE  LostAt(list, i, Removed(list, i))
<1> DEFINE n == Len(list)
           time == list[i].timeout
           b == Behind(list, i, -time)
           new == RemoveAt(b, i)
<1>1. n \in Nat /\ i \in 1..n /\ time \in Nat
  BY EntryIs
<1>2. /\ b = [k \in 1..n |-> b[k]]
      /\ \A k \in 1..n : b[k] =
           [timer |-> list[k].timer,
            timeout |-> IF k = i + 1 THEN list[k].timeout - (-time) ELSE list[k].timeout]
  BY BehindIs
<1> HIDE DEF b, time
<1>3. \A k \in 1..n : b[k] \in Entry
  <2> TAKE k \in 1..n
  <2>1. list[k].timer \in SysTimers /\ list[k].timeout \in Nat
    BY EntryIs
  <2>2. list[k].timeout - (-time) \in Nat
    BY <2>1, <1>1
  <2> QED BY <2>1, <2>2, <1>2 DEF Entry
<1>4. b \in Seq(Entry) /\ Len(b) = n
  BY <1>1, <1>2, <1>3
<1>5. /\ new \in Seq(Entry) /\ Len(new) = n - 1
      /\ \A k \in 1..(n - 1) : new[k] = IF k < i THEN b[k] ELSE b[k + 1]
  <2> HIDE DEF new, n
  <2>1. HasLess(new, Entry, b, i)
    BY <1>1, <1>4, RemovedAt DEF new
  <2> QED BY <1>4, <2>1 DEF HasLess
<1> HIDE DEF new
<1>6. ASSUME NEW k \in 1..(n - 1)
      PROVE  /\ new[k].timer = IF k < i THEN list[k].timer ELSE list[k + 1].timer
             /\ new[k].timeout = IF k < i THEN list[k].timeout
                                 ELSE IF k = i THEN list[k + 1].timeout + time
                                 ELSE list[k + 1].timeout
  <2>1. CASE k < i
    <3>1. k \in 1..n /\ k # i + 1
      BY <2>1, <1>1
    <3>2. new[k] = b[k]
      BY <2>1, <1>5
    <3>3. new[k].timer = list[k].timer /\ new[k].timeout = list[k].timeout
      BY <3>1, <3>2, <1>2
    <3> QED BY <3>3, <2>1
  <2>2. CASE k >= i
    <3> DEFINE m == k + 1
    <3>1. m \in 1..n /\ (m = i + 1 <=> k = i) /\ ~(k < i)
      BY <2>2, <1>1
    <3>2. new[k] = b[m]
      BY <3>1, <1>5
    <3> HIDE DEF m
    <3>3. /\ new[k].timer = list[m].timer
          /\ new[k].timeout = IF m = i + 1 THEN list[m].timeout - (-time) ELSE list[m].timeout
      BY <3>1, <3>2, <1>2
    <3>4. list[m].timeout - (-time) = list[m].timeout + time
      <4>1. list[m].timeout \in Nat
        BY <3>1, EntryIs
      <4> QED BY <4>1, <1>1
    <3> QED BY <3>1, <3>3, <3>4 DEF m
  <2>3. k < i \/ k >= i
    BY <1>1
  <2> QED BY <2>1, <2>2, <2>3, Zenon
<1> DEFINE g == [k \in 0..(n - 1) |-> IF k < i THEN Sum(list, k) ELSE Sum(list, k + 1)]
<1>7. g[0] = 0
  BY <1>1, SumDef
<1>8. ASSUME NEW k \in 1..(n - 1)
      PROVE  g[k] = g[k - 1] + new[k].timeout
  <2>0. k \in 0..(n - 1) /\ k - 1 \in 0..(n - 1)
    BY <1>1
  <2>1. CASE k < i
    <3>1. k \in 1..n /\ k - 1 < i
      BY <2>1, <1>1
    <3>2. Sum(list, k) = Sum(list, k - 1) + list[k].timeout
      BY <3>1, <1>1, SumDef
    <3>3. g[k - 1] = Sum(list, k - 1) /\ g[k] = Sum(list, k) /\ new[k].timeout = list[k].timeout
      BY <2>0, <2>1, <3>1, <1>6
    <3> HIDE DEF g
    <3> QED BY <3>2, <3>3
  <2>2. CASE k = i
    <3>1. k - 1 < i /\ ~(k < i) /\ k \in 1..n /\ k + 1 \in 1..n /\ (k + 1) - 1 = k
      BY <2>2, <1>1
    <3>2. /\ Sum(list, k) = Sum(list, k - 1) + list[k].timeout
          /\ Sum(list, k + 1) = Sum(list, k) + list[k + 1].timeout
      BY <3>1, <1>1, SumDef
    <3>3. g[k - 1] = Sum(list, k - 1) /\ g[k] = Sum(list, k + 1)
          /\ new[k].timeout = list[k + 1].timeout + time
      BY <2>0, <2>2, <3>1, <1>6
    <3>4. list[k + 1].timeout \in Nat /\ Sum(list, k - 1) \in Nat /\ list[k].timeout = time
      <4>1. list[k + 1].timeout \in Nat
        BY <3>1, EntryIs
      <4>2. k - 1 \in 0..Len(list)
        BY <2>0, <1>1
      <4>3. Sum(list, k - 1) \in Nat
        BY <4>2, SumIsNat
      <4> QED BY <4>1, <4>3, <2>2 DEF time
    <3> HIDE DEF g
    <3> QED BY <3>2, <3>3, <3>4, <1>1
  <2>3. CASE k > i
    <3>1. ~(k - 1 < i) /\ ~(k < i) /\ k # i /\ k + 1 \in 1..n /\ (k + 1) - 1 = k /\ (k - 1) + 1 = k
      BY <2>3, <1>1
    <3>2. Sum(list, k + 1) = Sum(list, k) + list[k + 1].timeout
      BY <3>1, <1>1, SumDef
    <3>3. g[k - 1] = Sum(list, k) /\ g[k] = Sum(list, k + 1)
          /\ new[k].timeout = list[k + 1].timeout
      BY <2>0, <3>1, <1>6
    <3> HIDE DEF g
    <3> QED BY <3>2, <3>3
  <2>4. k < i \/ k = i \/ k > i
    BY <1>1
  <2> QED BY <2>1, <2>2, <2>3, <2>4, Zenon
<1> HIDE DEF g
<1>9. \A k \in 0..(n - 1) : Sum(new, k) = g[k]
  <2>1. Len(new) \in Nat /\ Len(new) = n - 1
    BY <1>1, <1>5
  <2>2. \A k \in 1..Len(new) : g[k] = g[k - 1] + new[k].timeout
    BY <1>8, <2>1
  <2> HIDE DEF n
  <2>3. \A k \in 0..Len(new) : Sum(new, k) = g[k]
    BY <1>7, <2>1, <2>2, SumIs
  <2> QED BY <2>1, <2>3
<1>10. \A k \in 1..(n - 1) : Sum(new, k) = IF k < i THEN Sum(list, k) ELSE Sum(list, k + 1)
  BY <1>1, <1>9 DEF g
<1>11. LostAt(list, i, new)
  BY <1>5, <1>6, <1>10 DEF LostAt
<1>12. Removed(list, i) = new
  BY DEF Removed, new, b, time
<1> QED BY <1>11, <1>12

\* With some time over, every timer is nearer by it.
NearerBy(list, time, new) ==
  /\ new \in Seq(Entry) /\ Len(new) = Len(list)
  /\ \A k \in 1..Len(list) :
       new[k].timer = list[k].timer /\ Sum(new, k) = Sum(list, k) - time

LEMMA Nearer ==
  ASSUME NEW list \in Seq(Entry), NEW time \in Nat, list # <<>> => time <= list[1].timeout
  PROVE  NearerBy(list, time, Behind(list, 0, time))
<1> DEFINE n == Len(list)
           new == Behind(list, 0, time)
<1>1. n \in Nat
  BY EntryIs
<1>2. /\ new = [k \in 1..n |-> new[k]]
      /\ \A k \in 1..n : new[k] =
           [timer |-> list[k].timer,
            timeout |-> IF k = 0 + 1 THEN list[k].timeout - time ELSE list[k].timeout]
  BY BehindIs
<1> HIDE DEF new
<1>3. \A k \in 1..n : new[k] \in Entry
  <2> TAKE k \in 1..n
  <2>1. list[k].timer \in SysTimers /\ list[k].timeout \in Nat
    BY EntryIs
  <2>2. list # <<>>
    BY <1>1
  <2>3. k = 1 => list[k].timeout - time \in Nat
    BY <2>1, <2>2
  <2> QED BY <2>1, <2>3, <1>2 DEF Entry
<1>4. new \in Seq(Entry) /\ Len(new) = n
  BY <1>1, <1>2, <1>3
<1>5. \A k \in 1..n : /\ new[k].timer = list[k].timer
                      /\ new[k].timeout = IF k = 1 THEN list[k].timeout - time ELSE list[k].timeout
  BY <1>2
<1> DEFINE g == [k \in 0..n |-> IF k = 0 THEN 0 ELSE Sum(list, k) - time]
<1>6. g[0] = 0
  BY <1>1
<1>7. ASSUME NEW k \in 1..n
      PROVE  g[k] = g[k - 1] + new[k].timeout
  <2>1. k \in 0..n /\ k - 1 \in 0..n /\ k # 0 /\ (k - 1 = 0 <=> k = 1)
    BY <1>1
  <2>2. Sum(list, k) = Sum(list, k - 1) + list[k].timeout /\ Sum(list, 0) = 0
    BY <1>1, SumDef
  <2>3. Sum(list, k - 1) \in Nat /\ list[k].timeout \in Nat
    BY <2>1, SumIsNat, EntryIs
  <2>4. /\ g[k] = Sum(list, k) - time
        /\ g[k - 1] = IF k = 1 THEN 0 ELSE Sum(list, k - 1) - time
        /\ new[k].timeout = IF k = 1 THEN list[k].timeout - time ELSE list[k].timeout
    BY <2>1, <1>5
  <2> HIDE DEF g
  <2>5. CASE k = 1
    <3>1. Sum(list, k - 1) = 0
      BY <2>2, <2>5
    <3> QED BY <3>1, <2>2, <2>3, <2>4, <2>5
  <2>6. CASE k # 1
    BY <2>2, <2>3, <2>4, <2>6
  <2> QED BY <2>5, <2>6
<1> HIDE DEF g
<1>8. \A k \in 0..n : Sum(new, k) = g[k]
  <2>1. Len(new) \in Nat /\ Len(new) = n
    BY <1>1, <1>4
  <2>2. \A k \in 1..Len(new) : g[k] = g[k - 1] + new[k].timeout
    BY <1>7, <2>1
  <2> HIDE DEF n
  <2>3. \A k \in 0..Len(new) : Sum(new, k) = g[k]
    BY <1>6, <2>1, <2>2, SumIs
  <2> QED BY <2>1, <2>3
<1>9. \A k \in 1..n : Sum(new, k) = Sum(list, k) - time
  BY <1>1, <1>8 DEF g
<1>10. NearerBy(list, time, new)
  BY <1>4, <1>5, <1>9 DEF NearerBy
<1> QED BY <1>10 DEF new

\* Without the first, every timer is nearer by its time.
TailOf(list, new) ==
  /\ new \in Seq(Entry) /\ Len(new) = Len(list) - 1
  /\ \A k \in 1..(Len(list) - 1) :
       /\ new[k].timer = list[k + 1].timer
       /\ Sum(new, k) = Sum(list, k + 1) - list[1].timeout

LEMMA Tails ==
  ASSUME NEW list \in Seq(Entry), list # <<>>
  PROVE  TailOf(list, Tail(list)) /\ Sum(list, 1) = list[1].timeout
<1> DEFINE n == Len(list)
           new == Tail(list)
           first == list[1].timeout
<1>1. n \in Nat \ {0} /\ 1 \in 1..n /\ 1 - 1 = 0
  BY EntryIs, EmptySeq
<1>2. new \in Seq(Entry) /\ Len(new) = n - 1 /\ \A k \in 1..(n - 1) : new[k] = list[k + 1]
  BY HeadTailProperties
<1>3. Sum(list, 1) = first /\ first \in Nat
  <2>1. Sum(list, 1) = Sum(list, 1 - 1) + first /\ Sum(list, 0) = 0
    BY <1>1, SumDef
  <2>2. first \in Nat
    BY <1>1, EntryIs
  <2> HIDE DEF first
  <2> QED BY <1>1, <2>1, <2>2
<1> HIDE DEF new, first
<1> DEFINE g == [k \in 0..(n - 1) |-> Sum(list, k + 1) - first]
<1>4. g[0] = 0
  BY <1>1, <1>3
<1>5. ASSUME NEW k \in 1..(n - 1)
      PROVE  g[k] = g[k - 1] + new[k].timeout
  <2>1. k \in 0..(n - 1) /\ k - 1 \in 0..(n - 1) /\ k + 1 \in 1..n /\ (k + 1) - 1 = k /\ (k - 1) + 1 = k
        /\ k \in 0..n
    BY <1>1
  <2>2. Sum(list, k + 1) = Sum(list, k) + list[k + 1].timeout
    BY <1>1, <2>1, SumDef
  <2>3. Sum(list, k) \in Nat /\ list[k + 1].timeout \in Nat /\ new[k].timeout = list[k + 1].timeout
    BY <2>1, SumIsNat, EntryIs, <1>2
  <2>4. g[k] = Sum(list, k + 1) - first /\ g[k - 1] = Sum(list, k) - first
    BY <2>1
  <2> HIDE DEF g
  <2> QED BY <2>2, <2>3, <2>4, <1>3
<1> HIDE DEF g
<1>6. \A k \in 0..(n - 1) : Sum(new, k) = g[k]
  <2>1. Len(new) \in Nat /\ Len(new) = n - 1
    BY <1>1, <1>2
  <2>2. \A k \in 1..Len(new) : g[k] = g[k - 1] + new[k].timeout
    BY <1>5, <2>1
  <2> HIDE DEF n
  <2>3. \A k \in 0..Len(new) : Sum(new, k) = g[k]
    BY <1>4, <2>1, <2>2, SumIs
  <2> QED BY <2>1, <2>3
<1>7. \A k \in 1..(n - 1) : Sum(new, k) = Sum(list, k + 1) - first
  BY <1>1, <1>6 DEF g
<1>8. TailOf(list, new)
  BY <1>2, <1>7 DEF TailOf, first
<1> QED BY <1>3, <1>8 DEF new, first

-----------------------------------------------------------------------------
(* The times of a list *)

Its(list) == {list[i].timer : i \in DOMAIN list}
Times(list) ==
  [t \in Its(list) |-> Sum(list, CHOOSE i \in DOMAIN list : list[i].timer = t)]

LEMMA TimesAre ==
  ASSUME NEW list \in Seq(Entry), EachOnce(list)
  PROVE  /\ DOMAIN Times(list) = Its(list)
         /\ \A i \in 1..Len(list) :
              list[i].timer \in Its(list) /\ Times(list)[list[i].timer] = Sum(list, i)
         /\ \A t \in Its(list) : \E i \in 1..Len(list) : list[i].timer = t
<1>1. DOMAIN list = 1..Len(list)
  BY EntryIs
<1>2. ASSUME NEW i \in 1..Len(list)
      PROVE  list[i].timer \in Its(list) /\ Times(list)[list[i].timer] = Sum(list, i)
  <2>1. list[i].timer \in Its(list)
    BY <1>1 DEF Its
  <2>2. (CHOOSE j \in DOMAIN list : list[j].timer = list[i].timer) = i
    BY <1>1 DEF EachOnce
  <2> QED BY <2>1, <2>2 DEF Times
<1> QED BY <1>1, <1>2 DEF Its, Times

OneMore(list, t, new) ==
  /\ new \in Seq(Entry) /\ EachOnce(new)
  /\ Times(new) = [u \in Its(list) \cup {t} |-> IF u = t THEN Interval[t] ELSE Times(list)[u]]

LEMMA PlacedTimes ==
  ASSUME NEW list \in Seq(Entry), EachOnce(list), NEW t, t \notin Its(list),
         NEW i, NEW new, PlacedBehind(list, t, i, new)
  PROVE  OneMore(list, t, new)
<1> DEFINE n == Len(list)
<1>1. /\ n \in Nat /\ i \in 0..n /\ new \in Seq(Entry) /\ Len(new) = n + 1
      /\ DOMAIN list = 1..n /\ DOMAIN new = 1..(n + 1)
  BY EntryIs DEF PlacedBehind
<1>2. \A k \in 1..(n + 1) :
       /\ new[k].timer = IF k <= i THEN list[k].timer ELSE IF k = i + 1 THEN t ELSE list[k - 1].timer
       /\ Sum(new, k) = IF k <= i THEN Sum(list, k) ELSE IF k = i + 1 THEN Interval[t]
                        ELSE Sum(list, k - 1)
  BY DEF PlacedBehind
<1> HIDE DEF n
<1>3. \A k \in 1..n : list[k].timer # t
  BY <1>1 DEF Its
<1> DEFINE Old(k) == IF k <= i THEN k ELSE k - 1
<1>4. ASSUME NEW k \in 1..(n + 1), k # i + 1
      PROVE  /\ Old(k) \in 1..n /\ new[k].timer = list[Old(k)].timer
             /\ Sum(new, k) = Sum(list, Old(k))
  BY <1>1, <1>2, <1>4
<1>5. i + 1 \in 1..(n + 1) /\ new[i + 1].timer = t /\ Sum(new, i + 1) = Interval[t]
  <2>1. i + 1 \in 1..(n + 1) /\ ~(i + 1 <= i)
    BY <1>1
  <2> QED BY <2>1, <1>2
<1>6. EachOnce(new)
  <2> SUFFICES ASSUME NEW j \in 1..(n + 1), NEW k \in 1..(n + 1), new[j].timer = new[k].timer
               PROVE  j = k
    BY <1>1 DEF EachOnce
  <2>1. CASE j = i + 1 \/ k = i + 1
    <3>1. j = i + 1 <=> k = i + 1
      BY <1>3, <1>4, <1>5
    <3> QED BY <2>1, <3>1
  <2>2. CASE j # i + 1 /\ k # i + 1
    <3>1. /\ Old(j) \in 1..n /\ new[j].timer = list[Old(j)].timer
          /\ Old(k) \in 1..n /\ new[k].timer = list[Old(k)].timer
      BY <1>4, <2>2
    <3>2. Old(j) = Old(k)
      <4> HIDE DEF Old
      <4> QED BY <3>1, <1>1 DEF EachOnce
    <3> QED BY <3>2, <2>2, <1>1
  <2> QED BY <2>1, <2>2
<1> DEFINE F(u) == IF u = t THEN Interval[t] ELSE Times(list)[u]
<1>7. Its(list) \cup {t} = Its(new)
  <2>1. \A k \in 1..(n + 1) : new[k].timer \in Its(list) \cup {t}
    <3> TAKE k \in 1..(n + 1)
    <3>1. CASE k = i + 1
      BY <3>1, <1>5
    <3>2. CASE k # i + 1
      <4>1. Old(k) \in 1..n /\ new[k].timer = list[Old(k)].timer
        BY <3>2, <1>4
      <4> HIDE DEF Old
      <4> QED BY <4>1, <1>1 DEF Its
    <3> QED BY <3>1, <3>2
  <2>2. \A k \in 1..n : \E m \in 1..(n + 1) : new[m].timer = list[k].timer
    <3> TAKE k \in 1..n
    <3> DEFINE m == IF k <= i THEN k ELSE k + 1
    <3>1. m \in 1..(n + 1) /\ m # i + 1 /\ Old(m) = k
      BY <1>1
    <3> HIDE DEF m
    <3>2. new[m].timer = list[k].timer
      <4>1. new[m].timer = list[Old(m)].timer
        BY <3>1, <1>4
      <4> HIDE DEF Old
      <4> QED BY <3>1, <4>1
    <3> QED BY <3>1, <3>2
  <2>3. \A u \in Its(list) \cup {t} : u \in Its(new)
    <3>1. t \in Its(new)
      BY <1>1, <1>5 DEF Its
    <3>2. ASSUME NEW u \in Its(list)
          PROVE  u \in Its(new)
      <4>1. PICK k \in 1..n : u = list[k].timer
        BY <1>1 DEF Its
      <4>2. PICK m \in 1..(n + 1) : new[m].timer = u
        BY <4>1, <2>2
      <4> QED BY <4>2, <1>1 DEF Its
    <3> QED BY <3>1, <3>2
  <2>4. \A u \in Its(new) : u \in Its(list) \cup {t}
    BY <2>1, <1>1 DEF Its
  <2> QED BY <2>3, <2>4
<1>8. ASSUME NEW k \in 1..Len(new)
      PROVE  F(new[k].timer) = Sum(new, k)
  <2>1. CASE k = i + 1
    BY <2>1, <1>5
  <2>2. CASE k # i + 1
    <3>1. /\ Old(k) \in 1..n /\ new[k].timer = list[Old(k)].timer
          /\ Sum(new, k) = Sum(list, Old(k))
      BY <2>2, <1>1, <1>4
    <3> HIDE DEF Old
    <3>2. Times(list)[list[Old(k)].timer] = Sum(list, Old(k))
      BY <3>1, TimesAre DEF n
    <3> QED BY <3>1, <3>2, <1>3
  <2> QED BY <2>1, <2>2
<1>9. Times(new) = [u \in Its(new) |-> F(u)]
  <2>1. Times(new) = [u \in Its(new) |-> Times(new)[u]]
    BY DEF Times
  <2>2. \A u \in Its(new) : Times(new)[u] = F(u)
    <3> TAKE u \in Its(new)
    <3>1. PICK k \in 1..Len(new) : new[k].timer = u
      BY <1>1, <1>6, TimesAre
    <3>2. Times(new)[new[k].timer] = Sum(new, k)
      BY <1>1, <1>6, TimesAre
    <3> QED BY <3>1, <3>2, <1>8
  <2> QED BY <2>1, <2>2
<1> QED BY <1>1, <1>6, <1>7, <1>9 DEF OneMore

LEMMA LostTimes ==
  ASSUME NEW list \in Seq(Entry), EachOnce(list), NEW i \in 1..Len(list),
         NEW new, LostAt(list, i, new)
  PROVE  /\ new \in Seq(Entry) /\ EachOnce(new)
         /\ Times(new) = [u \in Its(list) \ {list[i].timer} |-> Times(list)[u]]
<1> DEFINE n == Len(list)
<1>1. /\ n \in Nat /\ i \in 1..n /\ new \in Seq(Entry) /\ Len(new) = n - 1
      /\ DOMAIN list = 1..n /\ DOMAIN new = 1..(n - 1)
  BY EntryIs DEF LostAt
<1>2. \A k \in 1..(n - 1) :
       /\ new[k].timer = IF k < i THEN list[k].timer ELSE list[k + 1].timer
       /\ Sum(new, k) = IF k < i THEN Sum(list, k) ELSE Sum(list, k + 1)
  BY DEF LostAt
<1> HIDE DEF n
<1> DEFINE Old(k) == IF k < i THEN k ELSE k + 1
<1>3. ASSUME NEW k \in 1..(n - 1)
      PROVE  /\ Old(k) \in 1..n /\ Old(k) # i /\ new[k].timer = list[Old(k)].timer
             /\ Sum(new, k) = Sum(list, Old(k))
  BY <1>1, <1>2
<1>4. \A j, k \in 1..n : list[j].timer = list[k].timer => j = k
  BY <1>1 DEF EachOnce
<1>5. EachOnce(new)
  <2> SUFFICES ASSUME NEW j \in 1..(n - 1), NEW k \in 1..(n - 1), new[j].timer = new[k].timer
               PROVE  j = k
    BY <1>1 DEF EachOnce
  <2>1. /\ Old(j) \in 1..n /\ new[j].timer = list[Old(j)].timer
        /\ Old(k) \in 1..n /\ new[k].timer = list[Old(k)].timer
    BY <1>3
  <2>2. Old(j) = Old(k)
    <3> HIDE DEF Old
    <3> QED BY <2>1, <1>4
  <2> QED BY <2>2, <1>1
<1>6. Its(list) \ {list[i].timer} = Its(new)
  <2>1. \A k \in 1..(n - 1) : new[k].timer \in Its(list) \ {list[i].timer}
    <3> TAKE k \in 1..(n - 1)
    <3>1. Old(k) \in 1..n /\ Old(k) # i /\ new[k].timer = list[Old(k)].timer
      BY <1>3
    <3> HIDE DEF Old
    <3> QED BY <3>1, <1>1, <1>4 DEF Its
  <2>2. \A k \in 1..n : k # i => \E m \in 1..(n - 1) : new[m].timer = list[k].timer
    <3> SUFFICES ASSUME NEW k \in 1..n, k # i
                 PROVE  \E m \in 1..(n - 1) : new[m].timer = list[k].timer
      OBVIOUS
    <3> DEFINE m == IF k < i THEN k ELSE k - 1
    <3>1. m \in 1..(n - 1) /\ Old(m) = k
      BY <1>1
    <3> HIDE DEF m
    <3>2. new[m].timer = list[k].timer
      <4>1. new[m].timer = list[Old(m)].timer
        BY <3>1, <1>3
      <4> HIDE DEF Old
      <4> QED BY <3>1, <4>1
    <3> QED BY <3>1, <3>2
  <2>3. \A u \in Its(list) \ {list[i].timer} : u \in Its(new)
    <3> TAKE u \in Its(list) \ {list[i].timer}
    <3>1. PICK k \in 1..n : u = list[k].timer
      BY <1>1 DEF Its
    <3>2. k # i
      BY <3>1
    <3>3. PICK m \in 1..(n - 1) : new[m].timer = u
      BY <3>1, <3>2, <2>2
    <3> QED BY <3>3, <1>1 DEF Its
  <2>4. \A u \in Its(new) : u \in Its(list) \ {list[i].timer}
    BY <2>1, <1>1 DEF Its
  <2> QED BY <2>3, <2>4
<1>7. \A u \in Its(new) : Times(new)[u] = Times(list)[u]
  <2> TAKE u \in Its(new)
  <2>1. PICK k \in 1..Len(new) : new[k].timer = u
    BY <1>1, <1>5, TimesAre
  <2>2. Times(new)[new[k].timer] = Sum(new, k)
    BY <1>1, <1>5, TimesAre
  <2>3. /\ Old(k) \in 1..n /\ new[k].timer = list[Old(k)].timer
        /\ Sum(new, k) = Sum(list, Old(k))
    BY <1>1, <1>3
  <2> HIDE DEF Old
  <2>4. Times(list)[list[Old(k)].timer] = Sum(list, Old(k))
    BY <2>3, TimesAre DEF n
  <2> QED BY <2>1, <2>2, <2>3, <2>4
<1>8. Times(new) = [u \in Its(new) |-> Times(list)[u]]
  <2>1. Times(new) = [u \in Its(new) |-> Times(new)[u]]
    BY DEF Times
  <2> QED BY <2>1, <1>7
<1> QED BY <1>1, <1>5, <1>6, <1>8

LEMMA NearerTimes ==
  ASSUME NEW list \in Seq(Entry), EachOnce(list), NEW time, NEW new, NearerBy(list, time, new)
  PROVE  /\ new \in Seq(Entry) /\ EachOnce(new)
         /\ Times(new) = [u \in Its(list) |-> Times(list)[u] - time]
<1> DEFINE n == Len(list)
<1>1. /\ n \in Nat /\ new \in Seq(Entry) /\ Len(new) = n
      /\ DOMAIN list = 1..n /\ DOMAIN new = 1..n
  BY EntryIs DEF NearerBy
<1>2. \A k \in 1..n : new[k].timer = list[k].timer /\ Sum(new, k) = Sum(list, k) - time
  BY DEF NearerBy
<1> HIDE DEF n
<1>3. EachOnce(new)
  BY <1>1, <1>2 DEF EachOnce
<1>4. Its(list) = Its(new)
  BY <1>1, <1>2 DEF Its
<1>5. \A u \in Its(new) : Times(new)[u] = Times(list)[u] - time
  <2> TAKE u \in Its(new)
  <2>1. PICK k \in 1..Len(new) : new[k].timer = u
    BY <1>1, <1>3, TimesAre
  <2>2. Times(new)[new[k].timer] = Sum(new, k)
    BY <1>1, <1>3, TimesAre
  <2>3. k \in 1..n /\ k \in 1..Len(list)
    BY <1>1 DEF n
  <2>4. Times(list)[list[k].timer] = Sum(list, k)
    BY <2>3, TimesAre
  <2> QED BY <2>1, <2>2, <2>3, <2>4, <1>2
<1>6. Times(new) = [u \in Its(new) |-> Times(list)[u] - time]
  <2>1. Times(new) = [u \in Its(new) |-> Times(new)[u]]
    BY DEF Times
  <2> QED BY <2>1, <1>5
<1> QED BY <1>1, <1>3, <1>4, <1>6

LEMMA TailTimes ==
  ASSUME NEW list \in Seq(Entry), EachOnce(list), list # <<>>, NEW new, TailOf(list, new)
  PROVE  /\ new \in Seq(Entry) /\ EachOnce(new) /\ Its(new) = Its(list) \ {list[1].timer}
         /\ Times(new) = [u \in Its(list) \ {list[1].timer} |->
                            Times(list)[u] - list[1].timeout]
<1> DEFINE n == Len(list)
           first == list[1].timeout
<1>1. /\ n \in Nat \ {0} /\ new \in Seq(Entry) /\ Len(new) = n - 1
      /\ DOMAIN list = 1..n /\ DOMAIN new = 1..(n - 1) /\ 1 \in 1..n
  BY EntryIs, EmptySeq DEF TailOf
<1>2. \A k \in 1..(n - 1) :
        new[k].timer = list[k + 1].timer /\ Sum(new, k) = Sum(list, k + 1) - first
  BY DEF TailOf
<1> HIDE DEF n, first
<1>3. \A j, k \in 1..n : list[j].timer = list[k].timer => j = k
  BY <1>1 DEF EachOnce
<1>4. EachOnce(new)
  <2> SUFFICES ASSUME NEW j \in 1..(n - 1), NEW k \in 1..(n - 1), new[j].timer = new[k].timer
               PROVE  j = k
    BY <1>1 DEF EachOnce
  <2>1. j + 1 \in 1..n /\ k + 1 \in 1..n /\ list[j + 1].timer = list[k + 1].timer
    BY <1>1, <1>2
  <2>2. j + 1 = k + 1
    BY <2>1, <1>3
  <2> QED BY <2>2, <1>1
<1>5. Its(list) \ {list[1].timer} = Its(new)
  <2>1. \A k \in 1..(n - 1) : new[k].timer \in Its(list) \ {list[1].timer}
    <3> TAKE k \in 1..(n - 1)
    <3>1. k + 1 \in 1..n /\ k + 1 # 1
      BY <1>1
    <3>2. list[k + 1].timer # list[1].timer
      BY <3>1, <1>1, <1>3
    <3> QED BY <3>1, <3>2, <1>1, <1>2 DEF Its
  <2>2. \A k \in 1..n : k # 1 => list[k].timer \in Its(new)
    <3> SUFFICES ASSUME NEW k \in 1..n, k # 1 PROVE list[k].timer \in Its(new)
      OBVIOUS
    <3> DEFINE m == k - 1
    <3>1. m \in 1..(n - 1) /\ m + 1 = k
      BY <1>1
    <3> HIDE DEF m
    <3>2. new[m].timer = list[k].timer
      BY <3>1, <1>2
    <3> QED BY <3>1, <3>2, <1>1 DEF Its
  <2>3. \A u \in Its(list) \ {list[1].timer} : u \in Its(new)
    <3> TAKE u \in Its(list) \ {list[1].timer}
    <3>1. PICK k \in 1..n : u = list[k].timer
      BY <1>1 DEF Its
    <3>2. k # 1
      BY <3>1
    <3> QED BY <3>1, <3>2, <2>2
  <2>4. \A u \in Its(new) : u \in Its(list) \ {list[1].timer}
    BY <2>1, <1>1 DEF Its
  <2> QED BY <2>3, <2>4
<1>6. \A u \in Its(new) : Times(new)[u] = Times(list)[u] - first
  <2> TAKE u \in Its(new)
  <2>1. PICK k \in 1..Len(new) : new[k].timer = u
    BY <1>1, <1>4, TimesAre
  <2>2. Times(new)[new[k].timer] = Sum(new, k)
    BY <1>1, <1>4, TimesAre
  <2> DEFINE m == k + 1
  <2>3. m \in 1..n /\ new[k].timer = list[m].timer /\ Sum(new, k) = Sum(list, m) - first
    BY <1>1, <1>2
  <2> HIDE DEF m
  <2>4. Times(list)[list[m].timer] = Sum(list, m)
    BY <2>3, TimesAre DEF n
  <2> QED BY <2>1, <2>2, <2>3, <2>4
<1>7. Times(new) = [u \in Its(new) |-> Times(list)[u] - first]
  <2>1. Times(new) = [u \in Its(new) |-> Times(new)[u]]
    BY DEF Times
  <2> QED BY <2>1, <1>6
<1> QED BY <1>1, <1>4, <1>5, <1>7 DEF first

-----------------------------------------------------------------------------
(* The system timers are a countdown *)

TimeInv ==
  /\ timers \in Seq(Entry) /\ EachOnce(timers)
  /\ elapsed \in Nat /\ prev \in Nat /\ millis \in Nat
  /\ handling = "no" => elapsed = 0

LEMMA TimeInvInit == SysTimerInit => TimeInv /\ Abstract!CountdownInit
<1> SUFFICES ASSUME SysTimerInit PROVE TimeInv /\ Abstract!CountdownInit
  OBVIOUS
<1>1. timers = <<>> /\ elapsed = 0 /\ prev = 0 /\ millis = 0
  BY DEF SysTimerInit
<1>2. DOMAIN timers = {}
  BY <1>1
<1>3. TimeInv
  BY <1>1, <1>2 DEF TimeInv, EachOnce
<1>4. {timers[i].timer : i \in DOMAIN timers} = {}
  BY <1>2
<1>5. Remaining = [t \in {} |-> 0]
  BY <1>4 DEF Remaining
<1> QED BY <1>1, <1>3, <1>5 DEF Abstract!CountdownInit

LEMMA RemainingIs == Remaining = Times(timers) /\ Remaining' = Times(timers')
  BY DEF Remaining, Times, Its

LEMMA StartedAre ==
  ASSUME TimeInv
  PROVE  /\ DOMAIN Remaining = Its(timers)
         /\ \A t : SYS_TimerStarted(t) <=> t \in Its(timers)
  BY RemainingIs, TimesAre DEF TimeInv, SYS_TimerStarted, Its

CountdownStep == Abstract!CountdownNext \/ UNCHANGED <<Remaining, elapsed>>

LEMMA TimerStarts ==
  ASSUME TimeInv, NEW t \in SysTimers, SYS_TimerStart(t)
  PROVE  TimeInv' /\ CountdownStep
<1>1. UNCHANGED <<prev, elapsed, handling, millis>>
  BY DEF SYS_TimerStart
<1>2. CASE SYS_TimerStarted(t)
  <2>1. timers' = timers
    BY <1>2 DEF SYS_TimerStart
  <2> QED BY <1>1, <2>1 DEF TimeInv, EachOnce, CountdownStep, Remaining
<1>3. CASE ~SYS_TimerStarted(t)
  <2>1. timers' = placeTimer(timers, t) /\ t \notin Its(timers)
    BY <1>3, StartedAre DEF SYS_TimerStart
  <2>2. PICK i : PlacedBehind(timers, t, i, timers')
    BY <2>1, Placed DEF TimeInv
  <2>3. /\ timers' \in Seq(Entry) /\ EachOnce(timers')
        /\ Times(timers') = [u \in Its(timers) \cup {t} |->
                               IF u = t THEN Interval[t] ELSE Times(timers)[u]]
    <3>1. timers \in Seq(Entry) /\ EachOnce(timers)
      BY DEF TimeInv
    <3>2. OneMore(timers, t, timers')
      BY <2>1, <2>2, <3>1, PlacedTimes
    <3> QED BY <3>2 DEF OneMore
  <2>4. Abstract!Start(t)
    BY <1>1, <2>1, <2>3, RemainingIs, StartedAre DEF Abstract!Start, Abstract!Started, Abstract!With
  <2>5. TimeInv'
    BY <1>1, <2>3 DEF TimeInv, EachOnce
  <2> QED BY <2>4, <2>5 DEF CountdownStep, Abstract!CountdownNext
<1> QED BY <1>2, <1>3

LEMMA TimerStops ==
  ASSUME TimeInv, NEW t \in SysTimers, SYS_TimerStop(t)
  PROVE  TimeInv' /\ CountdownStep
<1>1. UNCHANGED <<prev, elapsed, handling, millis>>
  BY DEF SYS_TimerStop
<1>2. CASE UNCHANGED timers
  BY <1>1, <1>2 DEF TimeInv, EachOnce, CountdownStep, Remaining
<1>3. ASSUME NEW i \in DOMAIN timers, timers[i].timer = t, timers' = Removed(timers, i)
      PROVE  TimeInv' /\ CountdownStep
  <2>1. i \in 1..Len(timers)
    BY <1>3, EntryIs DEF TimeInv
  <2>2. LostAt(timers, i, timers')
    BY <1>3, <2>1, Lost DEF TimeInv
  <2>3. /\ timers' \in Seq(Entry) /\ EachOnce(timers')
        /\ Times(timers') = [u \in Its(timers) \ {timers[i].timer} |-> Times(timers)[u]]
    BY <2>1, <2>2, LostTimes DEF TimeInv
  <2>4. t \in Its(timers)
    BY <1>3 DEF Its
  <2>5. Abstract!Stop(t)
    BY <1>1, <1>3, <2>3, <2>4, RemainingIs, StartedAre
    DEF Abstract!Stop, Abstract!Started, Abstract!Without
  <2>6. TimeInv'
    BY <1>1, <2>3 DEF TimeInv, EachOnce
  <2> QED BY <2>5, <2>6 DEF CountdownStep, Abstract!CountdownNext
<1> QED BY <1>2, <1>3 DEF SYS_TimerStop

LEMMA TimeIsGiven ==
  ASSUME TimeInv, SYS_TimerTaskHandler
  PROVE  TimeInv' /\ CountdownStep
<1>1. /\ elapsed = 0 /\ timers' = timers /\ millis' = millis /\ handling' = "loop"
      /\ elapsed' = (millis - prev) % CountRange /\ prev' = millis % CountRange
  BY DEF TimeInv, SYS_TimerTaskHandler
<1>2. elapsed' \in Nat /\ prev' \in Nat
  <2>1. CountRange \in Nat \ {0} /\ millis \in Int /\ millis - prev \in Int
    BY SysTimerAssumption DEF TimeInv
  <2> QED BY <1>1, <2>1
<1>3. Abstract!Account
  BY <1>1, <1>2 DEF Abstract!Account, Remaining
<1>4. TimeInv'
  BY <1>1, <1>2 DEF TimeInv, EachOnce
<1> QED BY <1>3, <1>4 DEF CountdownStep, Abstract!CountdownNext

\* The first of the list has the least time.
LEMMA FirstIsNext ==
  ASSUME TimeInv, timers # <<>>
  PROVE  /\ timers[1].timer \in Its(timers) /\ timers[1].timer \in SysTimers
         /\ Remaining[timers[1].timer] = timers[1].timeout /\ timers[1].timeout \in Nat
         /\ \A u \in Its(timers) : timers[1].timeout <= Remaining[u] /\ Remaining[u] \in Nat
<1>1. timers \in Seq(Entry) /\ EachOnce(timers) /\ Remaining = Times(timers)
  BY RemainingIs DEF TimeInv
<1>2. 1 \in 1..Len(timers) /\ Len(timers) \in Nat
  BY <1>1, EntryIs, EmptySeq
<1>3. Sum(timers, 1) = timers[1].timeout
  BY <1>1, Tails
<1>4. /\ timers[1].timer \in Its(timers) /\ Remaining[timers[1].timer] = timers[1].timeout
  BY <1>1, <1>2, <1>3, TimesAre
<1>5. timers[1].timer \in SysTimers /\ timers[1].timeout \in Nat
  BY <1>1, <1>2, EntryIs
<1>6. ASSUME NEW u \in Its(timers)
      PROVE  timers[1].timeout <= Remaining[u] /\ Remaining[u] \in Nat
  <2>1. PICK k \in 1..Len(timers) : timers[k].timer = u
    BY <1>1, TimesAre
  <2>2. Remaining[u] = Sum(timers, k)
    BY <1>1, <2>1, TimesAre
  <2>3. k \in 0..Len(timers) /\ 1 \in 0..Len(timers)
    BY <1>2
  <2>4. Sum(timers, k) \in Nat
    BY <1>1, <2>3, SumIsNat
  <2>5. Sum(timers, 1) <= Sum(timers, k)
    BY <1>1, <2>3, SumGrows
  <2> QED BY <2>2, <2>4, <2>5, <1>3
<1> QED BY <1>4, <1>5, <1>6

LEMMA TimerFires ==
  ASSUME TimeInv, Fires
  PROVE  TimeInv' /\ CountdownStep
<1> DEFINE t == timers[1].timer
           rest == Tail(timers)
           first == timers[1].timeout
<1>1. /\ timers # <<>> /\ first <= elapsed /\ elapsed' = elapsed - first
      /\ timers' = IF t \in Periodic THEN placeTimer(rest, t) ELSE rest
      /\ handling' = "handler" /\ prev' = prev /\ millis' = millis
  BY DEF Fires, Due
<1>2. /\ t \in Its(timers) /\ t \in SysTimers /\ Remaining[t] = first /\ first \in Nat
      /\ \A u \in Its(timers) : first <= Remaining[u]
  BY <1>1, FirstIsNext
<1>3. /\ rest \in Seq(Entry) /\ EachOnce(rest) /\ Its(rest) = Its(timers) \ {t}
      /\ Times(rest) = [u \in Its(timers) \ {t} |-> Times(timers)[u] - first]
  <2>1. timers \in Seq(Entry) /\ EachOnce(timers)
    BY DEF TimeInv
  <2>2. TailOf(timers, rest)
    BY <1>1, <2>1, Tails
  <2> HIDE DEF rest
  <2> QED BY <1>1, <2>1, <2>2, TailTimes
<1>4. elapsed' \in Nat
  BY <1>1, <1>2 DEF TimeInv
<1>5. Abstract!Passed(Abstract!Without(t), Remaining[t]) = Times(rest)
  <2> DEFINE w == [u \in Its(timers) \ {t} |-> Remaining[u]]
  <2>1. Abstract!Without(t) = w
    BY StartedAre DEF Abstract!Without, Abstract!Started
  <2>2. Abstract!Passed(w, first) = [u \in DOMAIN w |-> w[u] - first]
    BY DEF Abstract!Passed
  <2>3. DOMAIN w = Its(timers) \ {t} /\ \A u \in DOMAIN w : w[u] = Times(timers)[u]
    BY RemainingIs
  <2> HIDE DEF w, rest, first, t
  <2>4. [u \in DOMAIN w |-> w[u] - first] = [u \in Its(timers) \ {t} |-> Times(timers)[u] - first]
    BY <2>3
  <2> QED BY <2>1, <2>2, <2>4, <1>2, <1>3
<1>6. CASE t \notin Periodic
  <2>1. timers' = rest
    BY <1>1, <1>6
  <2>2. Remaining' = Times(rest)
    BY <2>1, RemainingIs
  <2> HIDE DEF t, rest, first
  <2>3. Abstract!Fire(t)
    BY <1>1, <1>2, <1>5, <1>6, <2>2, StartedAre DEF Abstract!Fire, Abstract!Started
  <2>4. TimeInv'
    BY <1>1, <1>3, <1>4, <2>1 DEF TimeInv, EachOnce
  <2> QED BY <1>2, <2>3, <2>4 DEF CountdownStep, Abstract!CountdownNext
<1>7. CASE t \in Periodic
  <2>1. timers' = placeTimer(rest, t) /\ t \notin Its(rest)
    BY <1>1, <1>3, <1>7
  <2> HIDE DEF t, rest, first
  <2>2. PICK i : PlacedBehind(rest, t, i, timers')
    BY <1>2, <1>3, <2>1, Placed
  <2>3. /\ timers' \in Seq(Entry) /\ EachOnce(timers')
        /\ Times(timers') = [u \in Its(rest) \cup {t} |->
                               IF u = t THEN Interval[t] ELSE Times(rest)[u]]
    <3>1. OneMore(rest, t, timers')
      BY <1>3, <2>1, <2>2, PlacedTimes
    <3> QED BY <3>1 DEF OneMore
  <2>4. Remaining' = Abstract!With(Times(rest), t)
    <3>1. DOMAIN Times(rest) = Its(rest)
      BY DEF Times
    <3> QED BY <2>3, <3>1, RemainingIs DEF Abstract!With
  <2>5. Abstract!Fire(t)
    BY <1>1, <1>2, <1>5, <1>7, <2>4, StartedAre DEF Abstract!Fire, Abstract!Started
  <2>6. TimeInv'
    BY <1>1, <1>4, <2>3 DEF TimeInv, EachOnce
  <2> QED BY <1>2, <2>5, <2>6 DEF CountdownStep, Abstract!CountdownNext
<1> QED BY <1>6, <1>7

LEMMA LoopReturns ==
  ASSUME TimeInv, LoopEnds
  PROVE  TimeInv' /\ CountdownStep
<1>1. /\ ~Due /\ timers' = Behind(timers, 0, elapsed) /\ elapsed' = 0
      /\ UNCHANGED <<prev, millis>>
  BY DEF LoopEnds
<1>2. timers \in Seq(Entry) /\ EachOnce(timers) /\ elapsed \in Nat
  BY DEF TimeInv
<1>3. timers # <<>> => elapsed < timers[1].timeout /\ timers[1].timeout \in Nat
  BY <1>1, <1>2, FirstIsNext DEF Due
<1>4. NearerBy(timers, elapsed, timers')
  <2>1. timers # <<>> => elapsed <= timers[1].timeout
    BY <1>2, <1>3
  <2> QED BY <1>1, <1>2, <2>1, Nearer
<1>5. /\ timers' \in Seq(Entry) /\ EachOnce(timers')
      /\ Times(timers') = [u \in Its(timers) |-> Times(timers)[u] - elapsed]
  BY <1>2, <1>4, NearerTimes
<1>6. \A u \in Its(timers) : Remaining[u] > elapsed
  <2> TAKE u \in Its(timers)
  <2>1. timers # <<>>
    BY DEF Its
  <2>2. timers[1].timeout <= Remaining[u] /\ Remaining[u] \in Nat
    BY <2>1, FirstIsNext
  <2> QED BY <2>1, <2>2, <1>2, <1>3
<1>7. Abstract!Return
  BY <1>1, <1>5, <1>6, RemainingIs, StartedAre DEF Abstract!Return, Abstract!Started, Abstract!Passed
<1>8. TimeInv'
  BY <1>1, <1>5 DEF TimeInv, EachOnce
<1> QED BY <1>7, <1>8 DEF CountdownStep, Abstract!CountdownNext

LEMMA TimersCount ==
  ASSUME TimeInv, [SysTimerNext]_sysTimerVars
  PROVE  TimeInv' /\ CountdownStep
<1>1. CASE \E t \in SysTimers : SYS_TimerStart(t)
  BY <1>1, TimerStarts
<1>2. CASE \E t \in SysTimers : SYS_TimerStop(t)
  BY <1>2, TimerStops
<1>3. CASE SYS_TimerTaskHandler
  BY <1>3, TimeIsGiven
<1>4. CASE Fires
  BY <1>4, TimerFires
<1>5. CASE LoopEnds
  BY <1>5, LoopReturns
<1>6. CASE HandlerReturns
  <2>1. UNCHANGED <<timers, prev, elapsed, millis>> /\ handling' = "loop"
    BY <1>6 DEF HandlerReturns
  <2> QED BY <2>1 DEF TimeInv, EachOnce, CountdownStep, Remaining
<1>7. CASE Time
  <2>1. UNCHANGED <<timers, prev, elapsed, handling>> /\ millis' = millis + 1
    BY <1>7 DEF Time
  <2> QED BY <2>1 DEF TimeInv, EachOnce, CountdownStep, Remaining
<1>8. CASE UNCHANGED sysTimerVars
  <2>1. UNCHANGED <<timers, prev, elapsed, handling, millis>>
    BY <1>8 DEF sysTimerVars
  <2> QED BY <2>1 DEF TimeInv, EachOnce, CountdownStep, Remaining
<1> QED BY <1>1, <1>2, <1>3, <1>4, <1>5, <1>6, <1>7, <1>8 DEF SysTimerNext

\* However many timers, whatever their intervals and whatever their handlers
\* start and stop: the list of differences is a countdown of each of them.
THEOREM TimersKeepTime == SysTimerInit /\ [][SysTimerNext]_sysTimerVars => KeepsTime
<1>1. SysTimerInit => TimeInv /\ Abstract!CountdownInit
  BY TimeInvInit
<1>2. TimeInv /\ [SysTimerNext]_sysTimerVars
        => TimeInv' /\ [Abstract!CountdownNext]_<<Remaining, elapsed>>
  BY TimersCount DEF CountdownStep
<1> QED BY <1>1, <1>2, PTL DEF KeepsTime, Abstract!CountdownSpec
=============================================================================
