--------------------------- MODULE IdentityProofs ---------------------------
(***************************************************************************)
(* Proofs that nodes are told apart by the addresses they give themselves  *)
(* (MeshControl), frames by their sequence numbers (NwkDuplicate), and the *)
(* members of a group from those that only pass its frames on              *)
(* (NwkMulticast).                                                         *)
(***************************************************************************)
EXTENDS MeshControl, NwkDuplicate, NwkMulticast, DataLemmas, FiniteSetTheorems, SequenceTheorems,
        NaturalsInduction, WellFoundedInduction, TLAPS

(***************************************************************************)
(* The addresses the nodes of a network give themselves differ, whatever   *)
(* the nodes, their EUIs and their number, where nodes look for their      *)
(* addresses one at a time, no old ping is remembered, every frame arrives *)
(* and nobody tries address 0 or the broadcast address.                    *)
(***************************************************************************)

\* The states of assignAddr.
Steps == {"off", "ping", "waiting", "stuck", "done"}

\* The variables have their types.
AddressTypeOK ==
  /\ pc \in [Nodes -> Steps]
  /\ addr \in [Nodes -> Addrs]
  /\ genAddr \in [Nodes -> Addrs]
  /\ pings \in [Nodes -> Nat]
  /\ heard \in [Nodes -> SUBSET Nat]
  /\ answered \in [Nodes -> BOOLEAN]

\* The environment under which the addresses differ.
Orderly == Alone /\ Forgotten /\ Reliable

\* No node tries the two addresses at which nobody can be asked.
GuessesUsable ==
  \A n \in Nodes : Looks(n) => genAddr[n] \notin {0, BroadcastAddr}

-----------------------------------------------------------------------------
(* The invariant *)

OneLooks == \A m, n \in Nodes : Looks(m) /\ Looks(n) => m = n

\* A node's next ping is new to everyone.
PingsAreNew ==
  \A n \in Nodes :
    /\ pc[n] = "off" => pings[n] = 0
    /\ Looks(n) => \A m \in Nodes : \A seq \in heard[m] : seq <= pings[n]

\* A node that waits without an answer has an address that nobody has.
UnansweredIsFree ==
  \A m, n \in Nodes :
    /\ m # n /\ pc[m] = "done" /\ pc[n] = "waiting" /\ ~answered[n]
    => addr[m] # genAddr[n]

\* Whoever has an address can be asked for it.
DoneHasAddress == \A n \in Nodes : pc[n] = "done" => addr[n] # 0

AddressInv == OneLooks /\ PingsAreNew /\ UnansweredIsFree /\ DoneHasAddress /\ Unique

LEMMA InitiallyAddressInv == Init => AddressTypeOK /\ AddressInv
<1> SUFFICES ASSUME Init PROVE AddressTypeOK /\ AddressInv
  OBVIOUS
<1>1. \A n \in Nodes : pc[n] = "off" /\ pings[n] = 0 /\ ~Looks(n)
  BY DEF Init, Looks
<1>2. 0 \in Addrs
  BY MeshControlAssumption DEF Addrs
<1>3. AddressTypeOK
  BY <1>2 DEF Init, AddressTypeOK, Steps
<1>4. AddressInv
  BY <1>1 DEF AddressInv, OneLooks, PingsAreNew, UnansweredIsFree, DoneHasAddress, Unique
<1> QED
  BY <1>3, <1>4

-----------------------------------------------------------------------------
(* Types *)

LEMMA GuessesAreAddresses ==
  ASSUME AddressTypeOK, NEW n \in Nodes
  PROVE  FirstGuess(n) \in Addrs /\ NextGuess(n) \in Addrs
<1>1. /\ AddrSpace \in Nat \ {0} /\ FirstAuto \in Nat /\ FirstAuto + FirstAuto <= AddrSpace
      /\ Crc[n] \in 0..(AddrSpace - 1) /\ IdByte[n] \in Nat
      /\ genAddr[n] \in 0..(AddrSpace - 1)
  BY MeshControlAssumption DEF AddressTypeOK, Addrs
<1>2. FirstGuess(n) \in Addrs
  BY <1>1 DEF FirstGuess, Addrs
<1>3. NextGuess(n) \in Addrs
  BY <1>1 DEF NextGuess, Addrs
<1> QED
  BY <1>2, <1>3

LEMMA AddressTypesKept == AddressTypeOK /\ [Next]_vars => AddressTypeOK'
<1> SUFFICES ASSUME AddressTypeOK, [Next]_vars PROVE AddressTypeOK'
  OBVIOUS
<1> USE DEF AddressTypeOK
<1>1. ASSUME NEW n \in Nodes, Begin(n) PROVE AddressTypeOK'
  <2>1. FirstGuess(n) \in Addrs
    BY GuessesAreAddresses
  <2> QED
    BY <1>1, <2>1 DEF Begin, Steps
<1>2. ASSUME NEW n \in Nodes, NEW R \in SUBSET Nodes, Ping(n, R) PROVE AddressTypeOK'
  <2>1. pc' \in [Nodes -> Steps] /\ pings' \in [Nodes -> Nat]
    BY <1>2 DEF Ping, Steps
  <2>2. heard' \in [Nodes -> SUBSET Nat]
    BY <1>2 DEF Ping
  <2>3. answered' \in [Nodes -> BOOLEAN]
    BY <1>2, Zenon DEF Ping
  <2> QED
    BY <1>2, <2>1, <2>2, <2>3 DEF Ping
<1>3. ASSUME NEW n \in Nodes, PingNotSent(n) PROVE AddressTypeOK'
  BY <1>3 DEF PingNotSent, Steps
<1>4. ASSUME NEW n \in Nodes, Taken(n) PROVE AddressTypeOK'
  <2>1. NextGuess(n) \in Addrs
    BY GuessesAreAddresses
  <2> QED
    BY <1>4, <2>1 DEF Taken, Steps
<1>5. ASSUME NEW n \in Nodes, Free(n) PROVE AddressTypeOK'
  BY <1>5 DEF Free, Steps
<1>6. ASSUME NEW n \in Nodes, GetEui(n) \/ ReplySent(n) PROVE AddressTypeOK'
  BY <1>6 DEF GetEui, ReplySent
<1>7. ASSUME NEW n \in Nodes, Forgets(n) PROVE AddressTypeOK'
  BY <1>7 DEF Forgets
<1>8. CASE UNCHANGED vars
  BY <1>8 DEF vars
<1> QED
  BY <1>1, <1>2, <1>3, <1>4, <1>5, <1>6, <1>7, <1>8 DEF Next, Assigns

-----------------------------------------------------------------------------
(* The steps of assignAddr *)

\* A ping that nobody answers was heard by everyone with an address.
LEMMA PingAsksEveryone ==
  ASSUME AddressTypeOK, AddressInv, Orderly, GuessesUsable, NEW n \in Nodes, Ping(n, Nodes)
  PROVE  AddressInv'
<1> DEFINE seq == pings[n] + 1
<1>1. /\ pc' = [pc EXCEPT ![n] = "waiting"] /\ pings' = [pings EXCEPT ![n] = seq]
      /\ UNCHANGED <<addr, genAddr>> /\ pc[n] = "ping"
  BY DEF Ping
<1>2. \A m \in Nodes : pc'[m] = IF m = n THEN "waiting" ELSE pc[m]
  BY <1>1 DEF AddressTypeOK
<1>3. \A m \in Nodes : pings'[m] = IF m = n THEN seq ELSE pings[m]
  BY <1>1 DEF AddressTypeOK
<1>4. Looks(n) /\ \A m \in Nodes : Looks(m)' => m = n
  BY <1>1, <1>2 DEF Looks, AddressInv, OneLooks
<1>5. \A m \in Nodes : \A old \in heard[m] : old <= pings[n] /\ old \in Nat
  BY <1>4 DEF AddressInv, PingsAreNew, AddressTypeOK
<1>6. OneLooks'
  BY <1>4 DEF OneLooks
<1>7. PingsAreNew'
  <2>1. \A m \in Nodes : heard'[m] \subseteq heard[m] \cup {seq}
    BY DEF Ping, AddressTypeOK
  <2>2. \A m \in Nodes : \A old \in heard'[m] : old <= seq
    BY <1>5, <2>1 DEF AddressTypeOK
  <2> QED
    BY <1>2, <1>3, <1>4, <2>2 DEF AddressInv, PingsAreNew
<1>8. UnansweredIsFree'
  <2>1. \A m \in Nodes : m # n /\ pc[m] = "done" => m \in Hearers(n, seq, Nodes)
    BY <1>4, <1>5 DEF Hearers, AddressInv, DoneHasAddress, GuessesUsable, AddressTypeOK
  <2>2. answered'[n] = \E m \in Hearers(n, seq, Nodes) : addr[m] = genAddr[n]
    BY Zenon DEF Ping
  <2>3. \A m \in Nodes : m # n /\ pc[m] = "done" /\ ~answered'[n] => addr[m] # genAddr[n]
    BY <2>1, <2>2, Zenon
  <2>4. \A m \in Nodes : pc'[m] = "waiting" => m = n
    BY <1>4 DEF Looks
  <2> QED
    BY <1>1, <1>2, <2>3, <2>4 DEF UnansweredIsFree
<1>9. DoneHasAddress' /\ Unique'
  BY <1>1, <1>2 DEF AddressInv, DoneHasAddress, Unique
<1> QED
  BY <1>6, <1>7, <1>8, <1>9 DEF AddressInv

\* An address that nobody has is taken.
LEMMA FreeTakes ==
  ASSUME AddressTypeOK, AddressInv, GuessesUsable, NEW n \in Nodes, Free(n)
  PROVE  AddressInv'
<1>1. /\ pc[n] = "waiting" /\ ~answered[n] /\ UNCHANGED <<genAddr, pings, heard, answered>>
      /\ Looks(n) /\ genAddr[n] # 0
  BY DEF Free, Looks, GuessesUsable
<1>2. \A m \in Nodes : pc'[m] = IF m = n THEN "done" ELSE pc[m]
  BY DEF Free, AddressTypeOK
<1>3. \A m \in Nodes : addr'[m] = IF m = n THEN genAddr[n] ELSE addr[m]
  BY DEF Free, AddressTypeOK
<1>4. \A m \in Nodes : ~Looks(m)'
  BY <1>1, <1>2 DEF Looks, AddressInv, OneLooks
<1>5. \A m \in Nodes : m # n /\ pc[m] = "done" => addr[m] # genAddr[n]
  BY <1>1 DEF AddressInv, UnansweredIsFree
<1>6. Unique'
  BY <1>2, <1>3, <1>5 DEF AddressInv, Unique
<1>7. OneLooks' /\ UnansweredIsFree'
  BY <1>4 DEF OneLooks, UnansweredIsFree, Looks
<1>8. PingsAreNew'
  BY <1>1, <1>2, <1>4 DEF AddressInv, PingsAreNew
<1>9. DoneHasAddress'
  BY <1>1, <1>2, <1>3 DEF AddressInv, DoneHasAddress
<1> QED
  BY <1>6, <1>7, <1>8, <1>9 DEF AddressInv

LEMMA AddressInvKept ==
  ASSUME AddressTypeOK, AddressInv, Orderly, GuessesUsable, [Next]_vars
  PROVE  AddressInv'
<1> USE DEF AddressInv
<1>1. ASSUME NEW n \in Nodes, Begin(n) PROVE AddressInv'
  <2>1. /\ \A m \in Nodes : ~Looks(m) /\ heard[m] = {}
        /\ pc[n] = "off" /\ UNCHANGED <<addr, pings, heard, answered>>
    BY <1>1 DEF Begin, Orderly
  <2>2. \A m \in Nodes : pc'[m] = IF m = n THEN "ping" ELSE pc[m]
    BY <1>1 DEF Begin, AddressTypeOK
  <2> QED
    BY <2>1, <2>2 DEF OneLooks, PingsAreNew, UnansweredIsFree, DoneHasAddress, Unique, Looks
<1>2. ASSUME NEW n \in Nodes, PingNotSent(n) \/ Taken(n) PROVE AddressInv'
  <2>1. pc[n] \in {"ping", "waiting"} /\ UNCHANGED <<addr, pings, heard, answered>>
    BY <1>2 DEF PingNotSent, Taken
  <2>2. /\ pc'[n] \in {"ping", "stuck"}
        /\ \A m \in Nodes \ {n} : pc'[m] = pc[m] /\ genAddr'[m] = genAddr[m]
    BY <1>2 DEF PingNotSent, Taken, AddressTypeOK
  <2>3. OneLooks' /\ PingsAreNew'
    BY <2>1, <2>2 DEF OneLooks, PingsAreNew, Looks
  <2>4. UnansweredIsFree' /\ DoneHasAddress' /\ Unique'
    BY <2>1, <2>2 DEF UnansweredIsFree, DoneHasAddress, Unique
  <2> QED
    BY <2>3, <2>4
<1>3. ASSUME NEW n \in Nodes, GetEui(n) \/ ReplySent(n) PROVE AddressInv'
  BY <1>3 DEF GetEui, ReplySent, OneLooks, PingsAreNew, UnansweredIsFree, DoneHasAddress,
              Unique, Looks
<1>4. ASSUME NEW n \in Nodes, Forgets(n) PROVE AddressInv'
  <2>1. UNCHANGED <<pc, addr, genAddr, pings, answered>>
    BY <1>4 DEF Forgets
  <2>2. \A m \in Nodes : heard'[m] \subseteq heard[m]
    BY <1>4 DEF Forgets, AddressTypeOK
  <2> QED
    BY <2>1, <2>2 DEF OneLooks, PingsAreNew, UnansweredIsFree, DoneHasAddress, Unique, Looks
<1>5. CASE UNCHANGED vars
  BY <1>5 DEF vars, OneLooks, PingsAreNew, UnansweredIsFree, DoneHasAddress, Unique, Looks
<1>6. ASSUME NEW n \in Nodes, NEW R \in SUBSET Nodes, Reaches(R), Ping(n, R)
      PROVE  AddressInv'
  BY <1>6, PingAsksEveryone DEF Reaches, Orderly
<1> QED
  BY <1>1, <1>2, <1>3, <1>4, <1>5, <1>6, FreeTakes DEF Next, Assigns

-----------------------------------------------------------------------------

\* The variables of assignAddr have their types; an address has 16 bits.
THEOREM AddressTypeCorrect == Spec => []AddressTypeOK
  BY InitiallyAddressInv, AddressTypesKept, PTL DEF Spec

\* "If didnt get ack, means the address is free": where one node at a time
\* looks for its address, no ping of an earlier one is remembered, every frame
\* arrives, and no node tries address 0 or the broadcast address, two nodes
\* that pinged their addresses have different ones, however many nodes there
\* are and whatever their EUIs.
THEOREM AddressesDiffer ==
  ASSUME Orderly
  PROVE  Spec /\ []GuessesUsable => []Unique
<1>1. AddressTypeOK /\ AddressInv /\ GuessesUsable /\ [Next]_vars => AddressInv'
  BY AddressInvKept
<1>2. AddressInv => Unique
  BY DEF AddressInv
<1> QED
  BY InitiallyAddressInv, AddressTypesKept, <1>1, <1>2, PTL DEF Spec

-----------------------------------------------------------------------------
(***************************************************************************)
(* The duplicate table tells copies from new frames, for every number of   *)
(* sources and entries and every window, sequence space, life of an entry  *)
(* and rate of sending that fit together (DuplicateAssumption).            *)
(*                                                                         *)
(* The argument counts frames: an entry remembers the latest frame L that  *)
(* moved its window, only its number wrapped.  While the entry lives, less *)
(* than a sequence space minus a window of frames follow L, so the wrapped *)
(* difference to the number of any copy under way says on which side of L  *)
(* the frame lies and how far; and when the entry dies, no frame up to L   *)
(* is under way any more.                                                  *)
(***************************************************************************)

\* Frames sent by s in the present period.
Fresh(s) == {n \in DOMAIN ages[s] : ages[s][n] = 0}
Now(s) == Cardinality(Fresh(s))

\* The variables have their types.
DuplicateTypeOK ==
  /\ table \in [Entries -> EntryType]
  /\ timer \in BOOLEAN
  /\ ages \in [Sources -> Seq(0..(MaxAge + 1))]
  /\ accepted \in [Sources -> SUBSET (Nat \ {0})]
  /\ \A s \in Sources : accepted[s] \subseteq DOMAIN ages[s]

-----------------------------------------------------------------------------
(* The invariant *)

\* Later frames are younger.
Ordered ==
  \A s \in Sources : \A i, j \in DOMAIN ages[s] : i <= j => ages[s][i] >= ages[s][j]

\* At most PerPeriod frames are sent in a period: so many follow a frame
\* that may be under way.
Paced ==
  \A s \in Sources :
    /\ Now(s) <= PerPeriod
    /\ \A n \in DOMAIN ages[s] :
         ages[s][n] <= MaxAge => Len(ages[s]) - n < PerPeriod * ages[s][n] + Now(s)

\* L is the latest frame of s that entry e knows.
IsLatest(s, e, L) ==
  /\ table[e].seq = SeqWrapped(L)
  /\ Len(ages[s]) - L < PerPeriod * (MaxAge + Ttl - table[e].ttl) + Now(s)
  /\ ages[s][L] + table[e].ttl >= Ttl \/ ages[s][L] > MaxAge

\* The mask has the frames that were let through, as far as copies of them
\* are under way.
KnowsBefore(s, e, L) ==
  \A n \in DOMAIN ages[s] :
    UnderWay(s, n) => (n \in accepted[s] <=> L - n \in table[e].mask)

EntryIsRight(s, e) == \E L \in DOMAIN ages[s] : IsLatest(s, e, L) /\ KnowsBefore(s, e, L)

EntriesAreRight == \A s \in Sources : \A e \in LiveEntries(s) : EntryIsRight(s, e)

\* A frame let through is known while copies of it are under way.
AcceptedIsKnown ==
  \A s \in Sources : \A n \in accepted[s] : UnderWay(s, n) => LiveEntries(s) # {}

SingleEntry == \A s \in Sources : \A e, f \in LiveEntries(s) : e = f

DuplicateInv ==
  /\ Ordered /\ Paced /\ EntriesAreRight /\ AcceptedIsKnown /\ SingleEntry /\ LiveHaveTimer

-----------------------------------------------------------------------------
(* Arithmetic *)

LEMMA Constants ==
  /\ TableSize \in Nat \ {0} /\ Window \in Nat \ {0} /\ SeqSpace \in Nat \ {0}
  /\ Window <= SeqSpace /\ Ttl \in Nat /\ MaxAge \in Nat /\ MaxAge < Ttl /\ PerPeriod \in Nat
  BY DuplicateAssumption

LEMMA DivMod ==
  ASSUME NEW S \in Nat \ {0}, NEW a \in Int
  PROVE  (a % S) \in 0..(S - 1) /\ a \div S \in Int /\ a = S * (a \div S) + (a % S)
  OBVIOUS

\* Only one multiple of S lies between -S and S.
LEMMA SmallMultiple ==
  ASSUME NEW S \in Nat \ {0}, NEW k \in Int, S * k < S, -S < S * k
  PROVE  k = 0
<1>1. CASE k >= 1
  <2>1. S * k = S + S * (k - 1)
    OBVIOUS
  <2>2. S * (k - 1) >= 0
    BY <1>1
  <2> QED
    BY <2>1, <2>2, S * (k - 1) \in Int
<1>2. CASE k <= -1
  <2>1. S * k = -S + S * (k + 1)
    OBVIOUS
  <2>2. S * (k + 1) <= 0
    BY <1>2
  <2> QED
    BY <2>1, <2>2, S * (k + 1) \in Int
<1> QED
  BY <1>1, <1>2

LEMMA RemainderIs ==
  ASSUME NEW S \in Nat \ {0}, NEW q \in Int, NEW r \in 0..(S - 1), NEW a \in Int, a = S * q + r
  PROVE  (a % S) = r
<1> DEFINE p == a \div S
<1>1. (a % S) \in 0..(S - 1) /\ p \in Int /\ a = S * p + (a % S)
  BY DivMod
<1> HIDE DEF p
<1>2. S * (p - q) = S * p - S * q
  BY <1>1
<1>3. S * (p - q) = r - (a % S)
  BY <1>1, <1>2
<1>4. p - q = 0
  BY <1>1, <1>3, SmallMultiple
<1>5. p = q
  BY <1>1, <1>4
<1> QED
  BY <1>1, <1>5

\* The difference of two frames can be had from their numbers.
LEMMA WrappedDifference ==
  ASSUME NEW L \in Nat, NEW n \in Nat,
         NEW k \in Int, NEW d \in 0..(SeqSpace - 1), L - n = SeqSpace * k + d
  PROVE  (SeqWrapped(L) - SeqWrapped(n)) % SeqSpace = d
<1> DEFINE p == L \div SeqSpace
           q == n \div SeqSpace
           x == SeqWrapped(L)
           y == SeqWrapped(n)
<1>0. SeqSpace \in Nat \ {0}
  BY Constants
<1>1. x \in 0..(SeqSpace - 1) /\ p \in Int /\ L = SeqSpace * p + x
  BY <1>0, DivMod DEF SeqWrapped
<1>2. y \in 0..(SeqSpace - 1) /\ q \in Int /\ n = SeqSpace * q + y
  BY <1>0, DivMod DEF SeqWrapped
<1> HIDE DEF p, q, x, y
<1>3. SeqSpace * (q - p + k) = SeqSpace * q - SeqSpace * p + SeqSpace * k
  BY <1>0, <1>1, <1>2
<1>4. x - y = SeqSpace * (q - p + k) + d
  BY <1>0, <1>1, <1>2, <1>3
<1>5. (x - y) % SeqSpace = d
  BY <1>0, <1>1, <1>2, <1>4, RemainderIs
<1> QED
  BY <1>5 DEF x, y

\* How far frame n lies behind frame L, by their numbers alone.
LEMMA Distance ==
  ASSUME NEW L \in Nat, NEW n \in Nat
  PROVE  /\ n <= L /\ L - n < SeqSpace =>
              (SeqWrapped(L) - SeqWrapped(n)) % SeqSpace = L - n
         /\ L < n /\ n - L < SeqSpace =>
              (SeqWrapped(L) - SeqWrapped(n)) % SeqSpace = SeqSpace - (n - L)
<1>2. ASSUME n <= L, L - n < SeqSpace
      PROVE  (SeqWrapped(L) - SeqWrapped(n)) % SeqSpace = L - n
  <2>1. L - n \in 0..(SeqSpace - 1) /\ L - n = SeqSpace * 0 + (L - n) /\ 0 \in Int
    BY <1>2, Constants
  <2> QED
    BY <2>1, WrappedDifference
<1>3. ASSUME L < n, n - L < SeqSpace
      PROVE  (SeqWrapped(L) - SeqWrapped(n)) % SeqSpace = SeqSpace - (n - L)
  <2>1. /\ SeqSpace - (n - L) \in 0..(SeqSpace - 1)
        /\ L - n = SeqSpace * (-1) + (SeqSpace - (n - L)) /\ -1 \in Int
    BY <1>3, Constants
  <2> QED
    BY <2>1, WrappedDifference
<1> QED
  BY <1>2, <1>3

\* One period more is PerPeriod frames more.
LEMMA PeriodMore ==
  ASSUME NEW k \in Int
  PROVE  PerPeriod * (k + 1) = PerPeriod * k + PerPeriod /\ PerPeriod * k \in Int
  BY Constants

LEMMA PeriodsGrow ==
  ASSUME NEW j \in Int, NEW k \in Int, j <= k
  PROVE  PerPeriod * j <= PerPeriod * k /\ PerPeriod * j \in Int /\ PerPeriod * k \in Int
<1>1. PerPeriod * k = PerPeriod * j + PerPeriod * (k - j) /\ PerPeriod * (k - j) >= 0
  BY Constants
<1> QED
  BY <1>1, Constants

-----------------------------------------------------------------------------
(* Entries *)

Less == {p \in Nat \X Nat : p[1] < p[2]}

\* The entry AcceptNew takes is a free one.
LEMMA MaxIsOne ==
  ASSUME NEW T \in SUBSET Entries, T # {}
  PROVE  Max(T) \in T
<1> DEFINE Rest == {TableSize - e : e \in T}
<1>1. IsWellFoundedOn(Less, Nat)
  BY NatLessThanWellFounded, Zenon DEF OpToRel, Less
<1>2. \A e \in T : e \in Nat /\ TableSize - e \in Nat
  BY Constants DEF Entries
<1>3. Rest \subseteq Nat /\ Rest # {}
  BY <1>2
<1>4. PICK x \in Rest : \A y \in Rest : <<y, x>> \notin Less
  BY <1>1, <1>3, WFMin, Zenon
<1>5. PICK e \in T : x = TableSize - e
  BY <1>4
<1>6. ASSUME NEW f \in T PROVE e >= f
  <2>1. TableSize - f \in Rest /\ x \in Nat /\ TableSize - f \in Nat
    BY <1>2, <1>5
  <2>2. ~(TableSize - f < x)
    BY <1>4, <2>1 DEF Less
  <2> QED
    BY <1>2, <1>5, <2>2, Constants
<1>7. \A f \in T : e >= f
  BY <1>6
<1> QED
  BY <1>5, <1>7 DEF Max

LEMMA MinIsOnly ==
  ASSUME NEW e \in Nat
  PROVE  Min({e}) = e
<1>1. \A x \in {e} : (\A y \in {e} : x <= y) <=> x = e
  OBVIOUS
<1> QED
  BY <1>1, Zenon DEF Min

-----------------------------------------------------------------------------
(* What the table says of a copy under way *)

LEMMA NowCounts ==
  ASSUME DuplicateTypeOK, NEW s \in Sources
  PROVE  IsFiniteSet(Fresh(s)) /\ Now(s) \in Nat
<1>1. Len(ages[s]) \in Nat /\ DOMAIN ages[s] = 1..Len(ages[s])
  BY DEF DuplicateTypeOK
<1>2. IsFiniteSet(1..Len(ages[s]))
  BY <1>1, FS_Interval
<1>3. IsFiniteSet(Fresh(s))
  BY <1>1, <1>2, FS_Subset DEF Fresh
<1> QED
  BY <1>3, FS_CardinalityType DEF Now

\* No frame follows the latest of an entry by as much as a sequence space less
\* the window.
LEMMA LatestIsNear ==
  ASSUME DuplicateTypeOK, Paced, NEW s \in Sources, NEW e \in LiveEntries(s),
         NEW L \in DOMAIN ages[s], IsLatest(s, e, L)
  PROVE  Len(ages[s]) - L <= SeqSpace - Window
<1> DEFINE k == MaxAge + Ttl - table[e].ttl
<1>1. table[e].ttl \in 1..Ttl
  BY Constants DEF LiveEntries, DuplicateTypeOK, EntryType
<1>2. k \in Int /\ k + 1 <= MaxAge + Ttl
  BY <1>1, Constants
<1>3. Len(ages[s]) - L < PerPeriod * k + Now(s) /\ Now(s) <= PerPeriod /\ Now(s) \in Nat
  BY NowCounts DEF IsLatest, Paced
<1>4. Len(ages[s]) - L \in Int
  BY DEF DuplicateTypeOK
<1> HIDE DEF k
<1>5. PerPeriod * (k + 1) = PerPeriod * k + PerPeriod /\ PerPeriod * k \in Int
  BY <1>2, PeriodMore
<1>6. /\ PerPeriod * (k + 1) <= PerPeriod * (MaxAge + Ttl)
      /\ PerPeriod * (k + 1) \in Int /\ PerPeriod * (MaxAge + Ttl) \in Int
  BY <1>2, PeriodsGrow, Constants
<1>7. PerPeriod * (MaxAge + Ttl) <= SeqSpace - Window + 1
  BY DuplicateAssumption
<1>8. Len(ages[s]) - L < PerPeriod * k + PerPeriod
  BY <1>3, <1>4, <1>5, Constants
<1>9. Len(ages[s]) - L < PerPeriod * (MaxAge + Ttl)
  BY <1>4, <1>5, <1>6, <1>8
<1> QED
  BY <1>4, <1>6, <1>7, <1>9, Constants

\* The wrapped difference tells on which side of the latest frame a copy lies.
LEMMA Judgement ==
  ASSUME DuplicateTypeOK, Paced, NEW s \in Sources, NEW e \in LiveEntries(s),
         NEW L \in DOMAIN ages[s], IsLatest(s, e, L), NEW n, UnderWay(s, n)
  PROVE  /\ n <= L => Diff(e, SeqWrapped(n)) = L - n /\ L - n < Window
         /\ L < n => /\ Diff(e, SeqWrapped(n)) = SeqSpace - (n - L)
                     /\ Diff(e, SeqWrapped(n)) >= Window
<1>1. /\ L \in Nat /\ n \in Nat /\ Len(ages[s]) \in Nat
      /\ L <= Len(ages[s]) /\ n <= Len(ages[s])
      /\ n \in DOMAIN ages[s] /\ Len(ages[s]) - n < Window
  BY DEF DuplicateTypeOK, UnderWay
<1>2. Len(ages[s]) - L <= SeqSpace - Window
  BY LatestIsNear
<1>3. Diff(e, SeqWrapped(n)) = (SeqWrapped(L) - SeqWrapped(n)) % SeqSpace
  BY DEF Diff, IsLatest
<1>4. ASSUME n <= L PROVE Diff(e, SeqWrapped(n)) = L - n /\ L - n < Window
  <2>1. L - n < Window /\ L - n < SeqSpace
    BY <1>1, <1>4, Constants
  <2> QED
    BY <1>1, <1>3, <1>4, <2>1, Distance
<1>5. ASSUME L < n
      PROVE  Diff(e, SeqWrapped(n)) = SeqSpace - (n - L) /\ Diff(e, SeqWrapped(n)) >= Window
  <2>1. n - L < SeqSpace /\ SeqSpace - (n - L) >= Window
    BY <1>1, <1>2, <1>5, Constants
  <2>2. Diff(e, SeqWrapped(n)) = SeqSpace - (n - L)
    BY <1>1, <1>3, <1>5, <2>1, Distance
  <2> QED
    BY <2>1, <2>2
<1> QED
  BY <1>4, <1>5

\* A source with an entry has the copies of accepted frames rejected, and no
\* others.
LEMMA RejectsAccepted ==
  ASSUME DuplicateTypeOK, DuplicateInv, NEW s \in Sources, NEW n, UnderWay(s, n), LiveEntries(s) # {}
  PROVE  Rejects(s, SeqWrapped(n)) <=> n \in accepted[s]
<1>1. ASSUME NEW e \in LiveEntries(s)
      PROVE  Diff(e, SeqWrapped(n)) \in table[e].mask <=> n \in accepted[s]
  <2>1. PICK L \in DOMAIN ages[s] : IsLatest(s, e, L) /\ KnowsBefore(s, e, L)
    BY DEF DuplicateInv, EntriesAreRight, EntryIsRight
  <2>2. n \in accepted[s] <=> L - n \in table[e].mask
    BY <2>1 DEF KnowsBefore, UnderWay
  <2>3. table[e].mask \subseteq 0..(Window - 1)
    BY DEF LiveEntries, DuplicateTypeOK, EntryType
  <2>4. L \in Nat /\ n \in Nat
    BY DEF UnderWay, DuplicateTypeOK
  <2>5. /\ n <= L => Diff(e, SeqWrapped(n)) = L - n
        /\ L < n => Diff(e, SeqWrapped(n)) >= Window
    BY <2>1, Judgement DEF DuplicateInv
  <2>6. CASE n <= L
    BY <2>2, <2>5, <2>6
  <2>7. CASE L < n
    <3>1. Diff(e, SeqWrapped(n)) \notin table[e].mask
      BY <2>3, <2>5, <2>7, Constants
    <3>2. L - n \notin table[e].mask
      BY <2>3, <2>4, <2>7
    <3> QED
      BY <2>2, <3>1, <3>2
  <2> QED
    BY <2>4, <2>6, <2>7
<1> QED
  BY <1>1 DEF Rejects

LEMMA InvTellsCopies ==
  ASSUME DuplicateTypeOK, DuplicateInv
  PROVE  TellsCopies
<1>1. NoTwice
  <2> SUFFICES ASSUME NEW s \in Sources, NEW n \in accepted[s], UnderWay(s, n)
               PROVE  Rejects(s, SeqWrapped(n))
    BY DEF NoTwice
  <2>1. LiveEntries(s) # {}
    BY DEF DuplicateInv, AcceptedIsKnown
  <2> QED
    BY <2>1, RejectsAccepted
<1>2. FreshAccepted
  <2> SUFFICES ASSUME NEW s \in Sources, NEW n \in DOMAIN ages[s],
                      UnderWay(s, n), n \notin accepted[s], Rejects(s, SeqWrapped(n))
               PROVE  LiveEntries(s) = {} /\ FreeEntries = {}
    BY DEF FreshAccepted
  <2>1. LiveEntries(s) = {}
    BY RejectsAccepted
  <2> QED
    BY <2>1 DEF Rejects
<1>3. OneEntry
  <2> SUFFICES ASSUME NEW s \in Sources PROVE Cardinality(LiveEntries(s)) <= 1
    BY DEF OneEntry
  <2>1. CASE LiveEntries(s) = {}
    BY <2>1, FS_EmptySet
  <2>2. ASSUME NEW e \in LiveEntries(s) PROVE Cardinality(LiveEntries(s)) <= 1
    <3>1. LiveEntries(s) = {e}
      BY DEF DuplicateInv, SingleEntry
    <3> QED
      BY <3>1, FS_Singleton
  <2> QED
    BY <2>1, <2>2
<1> QED
  BY <1>1, <1>2, <1>3 DEF TellsCopies, DuplicateInv

-----------------------------------------------------------------------------
(* Types *)

\* What a frame that is let through does to the entry of its source.
LEMMA MarkedEntries ==
  ASSUME DuplicateTypeOK, NEW e \in Entries, NEW n \in Nat, NEW s \in Sources
  PROVE  /\ Mark(e, SeqWrapped(n)) \in EntryType
         /\ NewEntry(s, SeqWrapped(n)) \in EntryType
         /\ Diff(e, SeqWrapped(n)) \in 0..(SeqSpace - 1)
<1> DEFINE seq == SeqWrapped(n)
<1>1. seq \in 0..(SeqSpace - 1)
  BY Constants, DivMod DEF SeqWrapped
<1> HIDE DEF seq
<1>2. table[e] \in EntryType
  BY DEF DuplicateTypeOK
<1>3. Diff(e, seq) \in 0..(SeqSpace - 1)
  <2> DEFINE d == table[e].seq - seq
  <2>1. d \in Int /\ SeqSpace \in Nat \ {0}
    BY <1>1, <1>2, Constants DEF EntryType
  <2> HIDE DEF d
  <2>2. (d % SeqSpace) \in 0..(SeqSpace - 1)
    BY <2>1, DivMod
  <2> QED
    BY <2>2 DEF Diff, d
<1>4. NewEntry(s, seq) \in EntryType
  BY <1>1, Constants DEF NewEntry, EntryType
<1>5. Diff(e, seq) < Window => [table[e] EXCEPT !.mask = @ \cup {Diff(e, seq)}] \in EntryType
  BY <1>2, <1>3, Constants DEF EntryType
<1>6. \A m \in SUBSET (0..(Window - 1)) :
        [src |-> table[e].src, seq |-> seq, ttl |-> Ttl, mask |-> m] \in EntryType
  BY <1>1, <1>2, Constants DEF EntryType
<1>7. \A X : {0} \cup (X \cap 0..(Window - 1)) \in SUBSET (0..(Window - 1))
  BY Constants
<1>8. Mark(e, seq) \in EntryType
  BY <1>5, <1>6, <1>7, Zenon DEF Mark
<1> QED
  BY <1>3, <1>4, <1>8 DEF seq

LEMMA FunctionIsSeq ==
  ASSUME NEW T, NEW k \in Nat, NEW f \in [1..k -> T]
  PROVE  f \in Seq(T)
  OBVIOUS

LEMMA AgedEntries ==
  ASSUME NEW entry \in EntryType
  PROVE  /\ Aged(entry) \in EntryType
         /\ Aged(entry).src = entry.src /\ Aged(entry).seq = entry.seq
         /\ Aged(entry).mask = entry.mask
         /\ Aged(entry).ttl = IF entry.ttl > 0 THEN entry.ttl - 1 ELSE 0
  BY Constants DEF Aged, EntryType

LEMMA TypesInitially == DuplicateInit => DuplicateTypeOK
<1> SUFFICES ASSUME DuplicateInit PROVE DuplicateTypeOK
  OBVIOUS
<1>1. table \in [Entries -> EntryType] /\ timer \in BOOLEAN
  BY DEF DuplicateInit
<1>2. <<>> \in Seq(0..(MaxAge + 1))
  OBVIOUS
<1> QED
  BY <1>1, <1>2 DEF DuplicateInit, DuplicateTypeOK

\* Which entries AcceptKnown and AcceptNew write.
LEMMA WrittenEntries ==
  ASSUME DuplicateTypeOK
  PROVE  /\ FreeEntries # {} => Max(FreeEntries) \in FreeEntries
         /\ \A s \in Sources : SingleEntry /\ LiveEntries(s) # {} =>
              /\ Min(LiveEntries(s)) \in LiveEntries(s)
              /\ LiveEntries(s) = {Min(LiveEntries(s))}
<1>1. FreeEntries # {} => Max(FreeEntries) \in FreeEntries
  BY MaxIsOne DEF FreeEntries
<1>2. ASSUME NEW s \in Sources, SingleEntry, LiveEntries(s) # {}
      PROVE  Min(LiveEntries(s)) \in LiveEntries(s) /\ LiveEntries(s) = {Min(LiveEntries(s))}
  <2>1. PICK e \in LiveEntries(s) : TRUE
    BY <1>2
  <2>2. LiveEntries(s) = {e} /\ e \in Nat
    BY <1>2 DEF SingleEntry, LiveEntries, Entries
  <2> QED
    BY <2>2, MinIsOnly
<1> QED
  BY <1>1, <1>2

LEMMA DuplicateTypesKept ==
  ASSUME DuplicateTypeOK, SingleEntry, [DuplicateNext]_duplicateVars
  PROVE  DuplicateTypeOK'
<1> USE DEF DuplicateTypeOK
<1>1. ASSUME NEW s \in Sources, Send(s) PROVE DuplicateTypeOK'
  <2>1. UNCHANGED <<table, timer>>
    BY <1>1 DEF Send
  <2>2. 0 \in 0..(MaxAge + 1)
    BY Constants
  <2>3. ages' \in [Sources -> Seq(0..(MaxAge + 1))]
    BY <1>1, <2>2 DEF Send
  <2>4. \A t \in Sources : DOMAIN ages[t] \subseteq DOMAIN ages'[t]
    BY <1>1 DEF Send
  <2>5. accepted' \in [Sources -> SUBSET (Nat \ {0})] /\ \A t \in Sources : accepted'[t] \subseteq accepted[t]
    BY <1>1 DEF Send
  <2> QED
    BY <2>1, <2>3, <2>4, <2>5
<1>2. ASSUME NEW s \in Sources, NEW n \in DOMAIN ages[s], AcceptKnown(s, n) PROVE DuplicateTypeOK'
  <2>1. UNCHANGED <<timer, ages>> /\ n \in Nat \ {0}
    BY <1>2 DEF AcceptKnown
  <2>2. accepted' = [accepted EXCEPT ![s] = @ \cup {n}] /\ LiveEntries(s) # {}
    BY <1>2 DEF AcceptKnown
  <2>3. PICK e \in Entries : table' = [table EXCEPT ![e] = Mark(e, SeqWrapped(n))]
    BY <1>2, <2>2, WrittenEntries DEF AcceptKnown, LiveEntries
  <2>4. Mark(e, SeqWrapped(n)) \in EntryType
    BY <2>1, MarkedEntries
  <2>5. table' \in [Entries -> EntryType]
    BY <2>3, <2>4
  <2> QED
    BY <2>1, <2>2, <2>5
<1>3. ASSUME NEW s \in Sources, NEW n \in DOMAIN ages[s], AcceptNew(s, n) PROVE DuplicateTypeOK'
  <2>1. UNCHANGED ages /\ timer' = TRUE /\ n \in Nat \ {0}
    BY <1>3 DEF AcceptNew
  <2>2. accepted' = [accepted EXCEPT ![s] = @ \cup {n}]
    BY <1>3 DEF AcceptNew
  <2>3. table' = [table EXCEPT ![Max(FreeEntries)] = NewEntry(s, SeqWrapped(n))]
    BY <1>3 DEF AcceptNew
  <2>4. NewEntry(s, SeqWrapped(n)) \in EntryType
    BY <2>1, MarkedEntries, Constants DEF NewEntry, EntryType, SeqWrapped
  <2>5. table' \in [Entries -> EntryType]
    BY <2>3, <2>4
  <2> QED
    BY <2>1, <2>2, <2>5
<1>4. CASE Period
  <2>1. \A s \in Sources : ages'[s] \in [DOMAIN ages[s] -> 0..(MaxAge + 1)]
    BY <1>4, Constants DEF Period
  <2>2. ASSUME NEW s \in Sources
        PROVE  ages'[s] \in Seq(0..(MaxAge + 1)) /\ DOMAIN ages'[s] = DOMAIN ages[s]
    <3>1. DOMAIN ages[s] = 1..Len(ages[s]) /\ Len(ages[s]) \in Nat
      OBVIOUS
    <3>2. ages'[s] \in [1..Len(ages[s]) -> 0..(MaxAge + 1)]
      BY <2>1, <3>1
    <3> QED
      BY <3>1, <3>2, FunctionIsSeq
  <2>3. ages' \in [Sources -> Seq(0..(MaxAge + 1))]
    BY <1>4, <2>2 DEF Period
  <2>4. table' \in [Entries -> EntryType]
    BY <1>4, AgedEntries, ZenonT(30) DEF Period
  <2>5. timer' \in BOOLEAN
    BY <1>4, Zenon DEF Period
  <2> QED
    BY <1>4, <2>2, <2>3, <2>4, <2>5 DEF Period
<1>5. CASE UNCHANGED duplicateVars
  BY <1>5 DEF duplicateVars
<1> QED
  BY <1>1, <1>2, <1>3, <1>4, <1>5 DEF DuplicateNext, Reject

-----------------------------------------------------------------------------
(* Steps *)

LEMMA ElementsIn ==
  ASSUME NEW T, NEW q \in Seq(T)
  PROVE  \A n \in DOMAIN q : q[n] \in T
  OBVIOUS

LEMMA AgesAre ==
  ASSUME DuplicateTypeOK, NEW s \in Sources
  PROVE  /\ Len(ages[s]) \in Nat /\ DOMAIN ages[s] = 1..Len(ages[s])
         /\ DOMAIN ages[s] \subseteq Nat \ {0}
         /\ \A n \in DOMAIN ages[s] : ages[s][n] \in Nat
<1>1. ages[s] \in Seq(0..(MaxAge + 1))
  BY DEF DuplicateTypeOK
<1>2. \A n \in DOMAIN ages[s] : ages[s][n] \in 0..(MaxAge + 1)
  BY <1>1, ElementsIn
<1>3. \A n \in DOMAIN ages[s] : ages[s][n] \in Nat
  BY <1>2, Constants
<1> QED
  BY <1>1, <1>3

\* What a step leaves alone stays right.
LEMMA OtherSource ==
  ASSUME NEW s \in Sources, NEW e \in Entries, EntryIsRight(s, e),
         ages'[s] = ages[s], accepted'[s] = accepted[s], table'[e] = table[e]
  PROVE  EntryIsRight(s, e)'
<1>1. Now(s)' = Now(s)
  BY DEF Now, Fresh
<1> QED
  BY <1>1 DEF EntryIsRight, IsLatest, KnowsBefore, UnderWay

LEMMA Initially == DuplicateInit => DuplicateInv
<1> SUFFICES ASSUME DuplicateInit PROVE DuplicateInv
  OBVIOUS
<1>1. \A s \in Sources : ages[s] = <<>> /\ accepted[s] = {}
  BY DEF DuplicateInit
<1>2. \A e \in Entries : ~(table[e].ttl > 0)
  BY DEF DuplicateInit, EntryType
<1>3. \A s \in Sources : LiveEntries(s) = {}
  BY <1>2 DEF LiveEntries
<1>4. \A s \in Sources : Fresh(s) = {}
  BY <1>1 DEF Fresh
<1>5. \A s \in Sources : Now(s) = 0
  BY <1>4, FS_EmptySet DEF Now
<1>6. Ordered /\ Paced
  BY <1>1, <1>5, Constants DEF Ordered, Paced
<1>7. EntriesAreRight /\ AcceptedIsKnown /\ SingleEntry /\ LiveHaveTimer
  BY <1>1, <1>2, <1>3 DEF EntriesAreRight, AcceptedIsKnown, SingleEntry, LiveHaveTimer
<1> QED
  BY <1>6, <1>7 DEF DuplicateInv

\* A source sends one frame more in this period.
LEMMA SendCounts ==
  ASSUME DuplicateTypeOK, NEW s \in Sources, Send(s)
  PROVE  /\ Now(s)' = Now(s) + 1 /\ Now(s) < PerPeriod /\ Now(s) \in Nat
         /\ Len(ages'[s]) = Len(ages[s]) + 1 /\ Len(ages[s]) \in Nat
         /\ \A n \in DOMAIN ages[s] : ages'[s][n] = ages[s][n] /\ n <= Len(ages[s])
         /\ DOMAIN ages'[s] = DOMAIN ages[s] \cup {Len(ages[s]) + 1}
         /\ ages'[s][Len(ages[s]) + 1] = 0
         /\ \A t \in Sources \ {s} : ages'[t] = ages[t] /\ accepted'[t] = accepted[t]
<1>1. /\ ages' = [ages EXCEPT ![s] = Append(@, 0)] /\ ages[s] \in Seq(0..(MaxAge + 1))
      /\ ages'[s] = Append(ages[s], 0)
  BY DEF Send, DuplicateTypeOK
<1>2. /\ Len(ages'[s]) = Len(ages[s]) + 1 /\ Len(ages[s]) \in Nat
      /\ \A n \in DOMAIN ages[s] : ages'[s][n] = ages[s][n] /\ n <= Len(ages[s])
      /\ DOMAIN ages'[s] = DOMAIN ages[s] \cup {Len(ages[s]) + 1}
      /\ ages'[s][Len(ages[s]) + 1] = 0
      /\ Len(ages[s]) + 1 \notin DOMAIN ages[s]
  BY <1>1
<1>3. \A t \in Sources \ {s} : ages'[t] = ages[t] /\ accepted'[t] = accepted[t]
  BY DEF Send, DuplicateTypeOK
<1>4. Fresh(s)' = Fresh(s) \cup {Len(ages[s]) + 1} /\ Len(ages[s]) + 1 \notin Fresh(s)
  BY <1>2 DEF Fresh
<1>5. IsFiniteSet(Fresh(s)) /\ Now(s) \in Nat
  BY NowCounts
<1>6. Now(s)' = Now(s) + 1
  BY <1>4, <1>5, FS_AddElement DEF Now
<1>7. Now(s) < PerPeriod
  BY DEF Send, Now, Fresh
<1> QED
  BY <1>2, <1>3, <1>5, <1>6, <1>7

LEMMA SendKeeps ==
  ASSUME DuplicateTypeOK, DuplicateInv, NEW s \in Sources, Send(s)
  PROVE  DuplicateInv'
<1> DEFINE len == Len(ages[s])
<1>1. /\ Now(s)' = Now(s) + 1 /\ Now(s) < PerPeriod /\ Now(s) \in Nat
      /\ Len(ages'[s]) = len + 1 /\ len \in Nat
      /\ \A n \in DOMAIN ages[s] : ages'[s][n] = ages[s][n] /\ n <= len
      /\ DOMAIN ages'[s] = DOMAIN ages[s] \cup {len + 1}
      /\ ages'[s][len + 1] = 0
  BY SendCounts
<1>2. \A t \in Sources \ {s} : ages'[t] = ages[t] /\ accepted'[t] = accepted[t]
  BY SendCounts
<1>3. /\ UNCHANGED <<table, timer>>
      /\ accepted'[s] = {n \in accepted[s] : len + 1 - n < Window}
  BY <1>1 DEF Send, DuplicateTypeOK
<1>4. \A t \in Sources : LiveEntries(t)' = LiveEntries(t)
  BY <1>3 DEF LiveEntries
<1>5. /\ DOMAIN ages[s] \subseteq Nat \ {0} /\ accepted[s] \subseteq DOMAIN ages[s]
      /\ \A n \in DOMAIN ages[s] : ages[s][n] \in Nat
  BY AgesAre DEF DuplicateTypeOK
<1> HIDE DEF len
<1>6. \A n \in DOMAIN ages[s] : UnderWay(s, n)' => UnderWay(s, n) /\ len + 1 - n < Window
  <2> SUFFICES ASSUME NEW n \in DOMAIN ages[s], UnderWay(s, n)'
               PROVE  UnderWay(s, n) /\ len + 1 - n < Window
    OBVIOUS
  <2>1. ages[s][n] <= MaxAge /\ len + 1 - n < Window
    BY <1>1 DEF UnderWay
  <2>2. len - n < Window
    BY <1>1, <1>5, <2>1, Constants
  <2> QED
    BY <2>1, <2>2 DEF UnderWay, len
<1>7. Ordered'
  <2> SUFFICES ASSUME NEW t \in Sources, NEW i \in DOMAIN ages'[t], NEW j \in DOMAIN ages'[t], i <= j
               PROVE  ages'[t][i] >= ages'[t][j]
    BY DEF Ordered
  <2>1. CASE t # s
    BY <1>2, <2>1 DEF DuplicateInv, Ordered
  <2>2. CASE t = s /\ j \in DOMAIN ages[s]
    <3>1. i \in DOMAIN ages[s]
      BY <1>1, <1>5, <2>2
    <3> QED
      BY <1>1, <2>2, <3>1 DEF DuplicateInv, Ordered
  <2>3. CASE t = s /\ j = len + 1
    BY <1>1, <1>5, <2>3
  <2> QED
    BY <1>1, <2>1, <2>2, <2>3
<1>8. Paced'
  <2> SUFFICES ASSUME NEW t \in Sources
               PROVE  /\ Now(t)' <= PerPeriod
                      /\ \A n \in DOMAIN ages'[t] :
                           ages'[t][n] <= MaxAge => Len(ages'[t]) - n < PerPeriod * ages'[t][n] + Now(t)'
    BY DEF Paced
  <2>1. CASE t # s
    <3>1. Now(t)' = Now(t)
      BY <1>2, <2>1 DEF Now, Fresh
    <3> QED
      BY <1>2, <2>1, <3>1 DEF DuplicateInv, Paced
  <2>2. CASE t = s
    <3>1. Now(s)' <= PerPeriod
      BY <1>1, Constants
    <3>2. ASSUME NEW n \in DOMAIN ages[s], ages[s][n] <= MaxAge
          PROVE  len + 1 - n < PerPeriod * ages[s][n] + (Now(s) + 1)
      <4>1. len - n < PerPeriod * ages[s][n] + Now(s)
        BY <3>2 DEF DuplicateInv, Paced, len
      <4>2. PerPeriod * ages[s][n] \in Int
        BY <1>5, Constants
      <4> QED
        BY <1>1, <1>5, <4>1, <4>2
    <3>3. len + 1 - (len + 1) < PerPeriod * 0 + (Now(s) + 1)
      BY <1>1, Constants
    <3> QED
      BY <1>1, <2>2, <3>1, <3>2, <3>3
  <2> QED
    BY <2>1, <2>2
<1>9. EntriesAreRight'
  <2> SUFFICES ASSUME NEW t \in Sources, NEW e \in LiveEntries(t)
               PROVE  EntryIsRight(t, e)'
    BY <1>4 DEF EntriesAreRight
  <2>1. EntryIsRight(t, e) /\ e \in Entries /\ table'[e] = table[e]
    BY <1>3 DEF DuplicateInv, EntriesAreRight, LiveEntries
  <2>2. CASE t # s
    BY <1>2, <2>1, <2>2, OtherSource
  <2>3. CASE t = s
    <3>1. PICK L \in DOMAIN ages[s] : IsLatest(s, e, L) /\ KnowsBefore(s, e, L)
      BY <2>1, <2>3 DEF EntryIsRight
    <3>2. /\ table[e].mask \subseteq 0..(Window - 1) /\ table[e].ttl \in Nat
      BY <2>1 DEF DuplicateTypeOK, EntryType
    <3>3. IsLatest(s, e, L)'
      <4>1. len - L < PerPeriod * (MaxAge + Ttl - table[e].ttl) + Now(s)
        BY <3>1 DEF IsLatest, len
      <4>2. PerPeriod * (MaxAge + Ttl - table[e].ttl) \in Int
        BY <3>2, Constants
      <4>3. len + 1 - L < PerPeriod * (MaxAge + Ttl - table[e].ttl) + (Now(s) + 1)
        BY <1>1, <1>5, <4>1, <4>2, SMTT(20)
      <4>4. Len(ages'[s]) - L < PerPeriod * (MaxAge + Ttl - table'[e].ttl) + Now(s)'
        BY <1>1, <2>1, <4>3
      <4>5. table'[e].seq = SeqWrapped(L)
        BY <2>1, <3>1 DEF IsLatest
      <4>6. ages'[s][L] + table'[e].ttl >= Ttl \/ ages'[s][L] > MaxAge
        BY <1>1, <2>1, <3>1 DEF IsLatest
      <4> QED
        BY <4>4, <4>5, <4>6 DEF IsLatest, SeqWrapped
    <3>4. KnowsBefore(s, e, L)'
      <4> SUFFICES ASSUME NEW n \in DOMAIN ages'[s], UnderWay(s, n)'
                   PROVE  n \in accepted'[s] <=> L - n \in table[e].mask
        BY <2>1 DEF KnowsBefore
      <4>1. CASE n \in DOMAIN ages[s]
        <5>1. n \in accepted[s] <=> L - n \in table[e].mask
          BY <1>6, <3>1, <4>1 DEF KnowsBefore
        <5> QED
          BY <1>3, <1>6, <4>1, <5>1
      <4>2. CASE n = len + 1
        <5>1. n \notin accepted[s]
          BY <1>1, <1>5, <4>2
        <5>2. L - n \notin table[e].mask
          BY <1>1, <1>5, <3>2, <4>2
        <5> QED
          BY <1>3, <5>1, <5>2
      <4> QED
        BY <1>1, <4>1, <4>2
    <3> QED
      BY <1>1, <2>3, <3>3, <3>4 DEF EntryIsRight
  <2> QED
    BY <2>2, <2>3
<1>10. AcceptedIsKnown'
  <2> SUFFICES ASSUME NEW t \in Sources, NEW n \in accepted'[t], UnderWay(t, n)'
               PROVE  LiveEntries(t) # {}
    BY <1>4 DEF AcceptedIsKnown
  <2>1. n \in accepted[t] /\ UnderWay(t, n)
    BY <1>2, <1>3, <1>5, <1>6 DEF UnderWay
  <2> QED
    BY <2>1 DEF DuplicateInv, AcceptedIsKnown
<1>11. SingleEntry' /\ LiveHaveTimer'
  BY <1>3, <1>4 DEF DuplicateInv, SingleEntry, LiveHaveTimer
<1> QED
  BY <1>7, <1>8, <1>9, <1>10, <1>11 DEF DuplicateInv

\* A frame under way that an entry has just been set to.
LEMMA BecomesLatest ==
  ASSUME DuplicateTypeOK, DuplicateInv, NEW s \in Sources, NEW n, UnderWay(s, n), NEW e \in Entries,
         ages' = ages, table'[e].seq = SeqWrapped(n), table'[e].ttl = Ttl
  PROVE  IsLatest(s, e, n)'
<1>1. n \in DOMAIN ages[s] /\ ages[s][n] <= MaxAge /\ ages[s][n] \in Nat /\ n \in Nat
  BY AgesAre DEF UnderWay
<1>2. Len(ages[s]) - n < PerPeriod * ages[s][n] + Now(s)
  BY <1>1 DEF DuplicateInv, Paced
<1>3. /\ PerPeriod * ages[s][n] <= PerPeriod * MaxAge
      /\ PerPeriod * ages[s][n] \in Int /\ PerPeriod * MaxAge \in Int
  BY <1>1, PeriodsGrow, Constants
<1>4. MaxAge + Ttl - Ttl = MaxAge
  BY Constants
<1>5. Len(ages[s]) - n < PerPeriod * MaxAge + Now(s)
  BY <1>1, <1>2, <1>3, AgesAre, NowCounts
<1>6. Now(s)' = Now(s)
  BY DEF Now, Fresh
<1>7. ages[s][n] + Ttl >= Ttl
  BY <1>1, Constants
<1> QED
  BY <1>4, <1>5, <1>6, <1>7 DEF IsLatest, SeqWrapped

\* A frame is let through by the entry of its source.
LEMMA AcceptKnownKeeps ==
  ASSUME DuplicateTypeOK, DuplicateInv, NEW s \in Sources, NEW n \in DOMAIN ages[s], AcceptKnown(s, n)
  PROVE  DuplicateInv'
<1> DEFINE seq == SeqWrapped(n)
<1>1. UnderWay(s, n) /\ UNCHANGED <<timer, ages>> /\ accepted' = [accepted EXCEPT ![s] = @ \cup {n}]
  BY DEF AcceptKnown
<1>2. PICK e \in Entries : /\ table' = [table EXCEPT ![e] = Mark(e, seq)]
                           /\ LiveEntries(s) = {e}
  BY WrittenEntries DEF AcceptKnown, DuplicateInv, LiveEntries
<1>3. PICK L \in DOMAIN ages[s] : IsLatest(s, e, L) /\ KnowsBefore(s, e, L)
  BY <1>2 DEF DuplicateInv, EntriesAreRight, EntryIsRight
<1>4. L \in Nat /\ n \in Nat /\ L <= Len(ages[s]) /\ n <= Len(ages[s]) /\ Len(ages[s]) \in Nat
  BY AgesAre
<1>5. /\ n <= L => Diff(e, seq) = L - n /\ L - n < Window
      /\ L < n => Diff(e, seq) = SeqSpace - (n - L) /\ Diff(e, seq) >= Window
  BY <1>1, <1>2, <1>3, Judgement DEF DuplicateInv
<1> HIDE DEF seq
<1>6. table'[e] = Mark(e, seq) /\ \A f \in Entries \ {e} : table'[f] = table[f]
  BY <1>2 DEF DuplicateTypeOK
<1>7. accepted'[s] = accepted[s] \cup {n} /\ \A t \in Sources \ {s} : accepted'[t] = accepted[t]
  BY <1>1 DEF DuplicateTypeOK
<1>8. table[e] \in EntryType /\ table[e].ttl > 0 /\ table[e].src = s /\ Ttl > 0
  BY <1>2, Constants DEF DuplicateTypeOK, LiveEntries
<1>9. Mark(e, seq).src = s /\ Mark(e, seq).ttl > 0
  BY <1>8 DEF Mark, EntryType
<1>10. \A t \in Sources : LiveEntries(t)' = LiveEntries(t)
  BY <1>6, <1>8, <1>9 DEF LiveEntries
<1>11. \A t \in Sources : \A m : UnderWay(t, m)' <=> UnderWay(t, m)
  BY <1>1 DEF UnderWay
<1>12. EntryIsRight(s, e)'
  <2>1. CASE n <= L
    <3>1. table'[e] = [table[e] EXCEPT !.mask = @ \cup {L - n}]
      BY <1>5, <1>6, <2>1 DEF Mark
    <3>2. /\ table'[e].seq = table[e].seq /\ table'[e].ttl = table[e].ttl
          /\ table'[e].mask = table[e].mask \cup {L - n}
      BY <1>8, <3>1 DEF EntryType
    <3>3. IsLatest(s, e, L)'
      <4>1. Now(s)' = Now(s)
        BY <1>1 DEF Now, Fresh
      <4> QED
        BY <1>1, <1>3, <3>2, <4>1 DEF IsLatest, SeqWrapped
    <3>4. KnowsBefore(s, e, L)'
      <4> SUFFICES ASSUME NEW m \in DOMAIN ages[s], UnderWay(s, m)
                   PROVE  m \in accepted[s] \cup {n} <=> L - m \in table[e].mask \cup {L - n}
        BY <1>1, <1>7, <1>11, <3>2 DEF KnowsBefore
      <4>1. m \in accepted[s] <=> L - m \in table[e].mask
        BY <1>3 DEF KnowsBefore
      <4>2. L - m = L - n <=> m = n
        <5>1. L \in Nat /\ m \in Nat /\ n \in Nat
          BY <1>4, AgesAre
        <5> QED
          BY <5>1
      <4> QED
        BY <4>1, <4>2
    <3> QED
      BY <1>1, <3>3, <3>4 DEF EntryIsRight
  <2>2. CASE L < n
    <3> DEFINE shift == SeqSpace - Diff(e, seq)
               shifted == {b + shift : b \in table[e].mask} \cap 0..(Window - 1)
    <3>1. shift = n - L
      BY <1>4, <1>5, <2>2, Constants
    <3>2. ~(Diff(e, seq) < Window)
      BY <1>4, <1>5, <2>2, Constants
    <3>3. table'[e] = [src |-> table[e].src, seq |-> seq, ttl |-> Ttl, mask |-> {0} \cup shifted]
      BY <1>6, <3>2, Zenon DEF Mark
    <3> HIDE DEF shifted
    <3>4. /\ table'[e].seq = SeqWrapped(n) /\ table'[e].ttl = Ttl
          /\ table'[e].mask = {0} \cup shifted
      BY <3>3 DEF seq
    <3>5. IsLatest(s, e, n)'
      BY <1>1, <3>4, BecomesLatest
    <3>6. KnowsBefore(s, e, n)'
      <4> SUFFICES ASSUME NEW m \in DOMAIN ages[s], UnderWay(s, m)
                   PROVE  m \in accepted[s] \cup {n} <=> n - m \in {0} \cup shifted
        BY <1>1, <1>7, <1>11, <3>4 DEF KnowsBefore
      <4>1. m \in accepted[s] <=> L - m \in table[e].mask
        BY <1>3 DEF KnowsBefore
      <4>2. m \in Nat /\ m <= Len(ages[s]) /\ Len(ages[s]) - m < Window
        BY AgesAre DEF UnderWay
      <4>3. table[e].mask \subseteq 0..(Window - 1)
        BY <1>8 DEF EntryType
      <4>4. n - m \in shifted <=> L - m \in table[e].mask
        <5>1. \A b \in table[e].mask : b + shift = n - m <=> b = L - m
          BY <1>4, <3>1, <4>2, <4>3, Constants, SMTT(20)
        <5>2. ASSUME L - m \in table[e].mask PROVE n - m \in 0..(Window - 1)
          <6>1. L - m \in 0..(Window - 1)
            BY <4>3, <5>2
          <6>2. 0 <= L - m
            BY <6>1, Constants
          <6> QED
            BY <1>4, <2>2, <4>2, <6>2, Constants, SMTT(20)
        <5> QED
          BY <5>1, <5>2 DEF shifted
      <4>5. n - m = 0 <=> m = n
        BY <1>4, <4>2
      <4> QED
        BY <4>1, <4>4, <4>5
    <3> QED
      BY <1>1, <3>5, <3>6 DEF EntryIsRight
  <2> QED
    BY <1>4, <2>1, <2>2
<1>13. EntriesAreRight'
  <2> SUFFICES ASSUME NEW t \in Sources, NEW f \in LiveEntries(t)
               PROVE  EntryIsRight(t, f)'
    BY <1>10 DEF EntriesAreRight
  <2>1. CASE t = s
    BY <1>2, <1>12, <2>1
  <2>2. CASE t # s
    <3>1. f # e /\ f \in Entries /\ EntryIsRight(t, f)
      BY <1>8, <2>2 DEF LiveEntries, DuplicateInv, EntriesAreRight
    <3> QED
      BY <1>1, <1>6, <1>7, <2>2, <3>1, OtherSource
  <2> QED
    BY <2>1, <2>2
<1>14. AcceptedIsKnown'
  <2> SUFFICES ASSUME NEW t \in Sources, NEW m \in accepted'[t], UnderWay(t, m)
               PROVE  LiveEntries(t) # {}
    BY <1>10, <1>11 DEF AcceptedIsKnown
  <2>1. CASE t = s
    BY <1>2, <2>1
  <2>2. CASE t # s
    BY <1>7, <2>2 DEF DuplicateInv, AcceptedIsKnown
  <2> QED
    BY <2>1, <2>2
<1>15. Ordered' /\ Paced'
  BY <1>1 DEF DuplicateInv, Ordered, Paced, Now, Fresh
<1>16. SingleEntry'
  BY <1>10 DEF DuplicateInv, SingleEntry
<1>17. LiveHaveTimer'
  BY <1>1, <1>6, <1>8 DEF DuplicateInv, LiveHaveTimer
<1> QED
  BY <1>13, <1>14, <1>15, <1>16, <1>17 DEF DuplicateInv

\* A frame of a source without an entry takes a free one.
LEMMA AcceptNewKeeps ==
  ASSUME DuplicateTypeOK, DuplicateInv, NEW s \in Sources, NEW n \in DOMAIN ages[s], AcceptNew(s, n)
  PROVE  DuplicateInv'
<1>1. /\ UnderWay(s, n) /\ UNCHANGED ages /\ timer' = TRUE
      /\ accepted' = [accepted EXCEPT ![s] = @ \cup {n}] /\ LiveEntries(s) = {}
  BY DEF AcceptNew
<1>2. FreeEntries # {}
  BY <1>1 DEF AcceptNew, Rejects
<1>3. PICK e \in FreeEntries : table' = [table EXCEPT ![e] = NewEntry(s, SeqWrapped(n))]
  BY <1>2, WrittenEntries DEF AcceptNew
<1>4. e \in Entries /\ table[e].ttl = 0
  BY DEF FreeEntries
<1>5. /\ table'[e] = NewEntry(s, SeqWrapped(n))
      /\ \A f \in Entries \ {e} : table'[f] = table[f]
  BY <1>3, <1>4 DEF DuplicateTypeOK
<1>6. /\ table'[e].src = s /\ table'[e].ttl = Ttl /\ table'[e].seq = SeqWrapped(n)
      /\ table'[e].mask = {0} /\ Ttl > 0
  BY <1>5, Constants DEF NewEntry
<1>7. accepted'[s] = accepted[s] \cup {n} /\ \A t \in Sources \ {s} : accepted'[t] = accepted[t]
  BY <1>1 DEF DuplicateTypeOK
<1>8. LiveEntries(s)' = {e}
  BY <1>1, <1>4, <1>5, <1>6 DEF LiveEntries
<1>9. \A t \in Sources \ {s} : LiveEntries(t)' = LiveEntries(t) /\ e \notin LiveEntries(t)
  BY <1>4, <1>5, <1>6 DEF LiveEntries
<1>10. \A t \in Sources : \A m : UnderWay(t, m)' <=> UnderWay(t, m)
  BY <1>1 DEF UnderWay
<1>11. EntryIsRight(s, e)'
  <2>1. IsLatest(s, e, n)'
    BY <1>1, <1>4, <1>6, BecomesLatest
  <2>2. \A m \in DOMAIN ages[s] : UnderWay(s, m) => m \notin accepted[s]
    BY <1>1 DEF DuplicateInv, AcceptedIsKnown
  <2>3. \A m \in DOMAIN ages[s] : n - m \in {0} <=> m = n
    BY AgesAre
  <2>4. KnowsBefore(s, e, n)'
    BY <1>1, <1>6, <1>7, <1>10, <2>2, <2>3 DEF KnowsBefore
  <2> QED
    BY <1>1, <2>1, <2>4 DEF EntryIsRight
<1>12. EntriesAreRight'
  <2> SUFFICES ASSUME NEW t \in Sources, NEW f \in LiveEntries(t)'
               PROVE  EntryIsRight(t, f)'
    BY DEF EntriesAreRight
  <2>1. CASE t = s
    BY <1>8, <1>11, <2>1
  <2>2. CASE t # s
    <3>1. f # e /\ f \in Entries /\ EntryIsRight(t, f)
      BY <1>9, <2>2 DEF LiveEntries, DuplicateInv, EntriesAreRight
    <3> QED
      BY <1>1, <1>5, <1>7, <2>2, <3>1, OtherSource
  <2> QED
    BY <2>1, <2>2
<1>13. AcceptedIsKnown'
  <2> SUFFICES ASSUME NEW t \in Sources, NEW m \in accepted'[t], UnderWay(t, m)
               PROVE  LiveEntries(t)' # {}
    BY <1>10 DEF AcceptedIsKnown
  <2>1. CASE t = s
    BY <1>8, <2>1
  <2>2. CASE t # s
    BY <1>7, <1>9, <2>2 DEF DuplicateInv, AcceptedIsKnown
  <2> QED
    BY <2>1, <2>2
<1>14. Ordered' /\ Paced'
  BY <1>1 DEF DuplicateInv, Ordered, Paced, Now, Fresh
<1>15. SingleEntry'
  BY <1>8, <1>9 DEF DuplicateInv, SingleEntry
<1>16. LiveHaveTimer'
  BY <1>1 DEF LiveHaveTimer
<1> QED
  BY <1>12, <1>13, <1>14, <1>15, <1>16 DEF DuplicateInv

\* In a period that goes by frames age, and the entries live a period less.
LEMMA PeriodCounts ==
  ASSUME DuplicateTypeOK, NEW s \in Sources, Period
  PROVE  /\ Now(s)' = 0 /\ Len(ages'[s]) = Len(ages[s]) /\ DOMAIN ages'[s] = DOMAIN ages[s]
         /\ \A n \in DOMAIN ages[s] :
              ages'[s][n] = IF ages[s][n] > MaxAge THEN ages[s][n] ELSE ages[s][n] + 1
<1>1. ages'[s] = [n \in DOMAIN ages[s] |->
                    IF ages[s][n] > MaxAge THEN ages[s][n] ELSE ages[s][n] + 1]
  BY DEF Period
<1>2. \A n \in DOMAIN ages[s] :
        ages'[s][n] = IF ages[s][n] > MaxAge THEN ages[s][n] ELSE ages[s][n] + 1
  BY <1>1
<1>3. DOMAIN ages'[s] = 1..Len(ages[s]) /\ Len(ages[s]) \in Nat
  BY <1>1, AgesAre
<1>4. \A n \in DOMAIN ages[s] : ages'[s][n] # 0
  BY <1>2, AgesAre, Constants
<1>5. Fresh(s)' = {}
  BY <1>1, <1>4 DEF Fresh
<1>6. Now(s)' = 0
  BY <1>5, FS_EmptySet DEF Now
<1> QED
  BY <1>2, <1>3, <1>6, AgesAre

LEMMA PeriodKeeps ==
  ASSUME DuplicateTypeOK, DuplicateInv, Period
  PROVE  DuplicateInv'
<1>1. \A s \in Sources : Now(s)' = 0 /\ Len(ages'[s]) = Len(ages[s]) /\ DOMAIN ages'[s] = DOMAIN ages[s]
  BY PeriodCounts
<1>2. \A s \in Sources : \A n \in DOMAIN ages[s] :
        ages'[s][n] = IF ages[s][n] > MaxAge THEN ages[s][n] ELSE ages[s][n] + 1
  BY PeriodCounts
<1>3. accepted' = accepted
  BY DEF Period
<1>4. \A e \in Entries :
        /\ table[e] \in EntryType /\ table[e].ttl \in Nat /\ table[e].ttl <= Ttl
        /\ table'[e].src = table[e].src /\ table'[e].seq = table[e].seq
        /\ table'[e].mask = table[e].mask
        /\ table'[e].ttl = IF table[e].ttl > 0 THEN table[e].ttl - 1 ELSE 0
  <2> SUFFICES ASSUME NEW e \in Entries
               PROVE  /\ table[e] \in EntryType /\ table[e].ttl \in Nat /\ table[e].ttl <= Ttl
                      /\ table'[e].src = table[e].src /\ table'[e].seq = table[e].seq
                      /\ table'[e].mask = table[e].mask
                      /\ table'[e].ttl = IF table[e].ttl > 0 THEN table[e].ttl - 1 ELSE 0
    OBVIOUS
  <2>1. table[e] \in EntryType
    BY DEF DuplicateTypeOK
  <2>2. table[e].ttl \in Nat /\ table[e].ttl <= Ttl
    BY <2>1, Constants DEF EntryType
  <2>3. CASE timer
    <3>1. table'[e] = Aged(table[e])
      BY <2>3 DEF Period
    <3> QED
      BY <2>1, <2>2, <3>1, AgedEntries
  <2>4. CASE ~timer
    <3>1. table' = table
      BY <2>4 DEF Period
    <3>2. ~(table[e].ttl > 0)
      BY <2>4 DEF DuplicateInv, LiveHaveTimer
    <3> QED
      BY <2>1, <2>2, <3>1, <3>2
  <2> QED
    BY <2>3, <2>4
<1>5. \A s \in Sources : \A n : UnderWay(s, n)' =>
        UnderWay(s, n) /\ ages'[s][n] = ages[s][n] + 1 /\ ages[s][n] + 1 <= MaxAge
  BY <1>1, <1>2, AgesAre, Constants DEF UnderWay
<1>6. \A s \in Sources : \A e \in LiveEntries(s)' : e \in LiveEntries(s)
  BY <1>4 DEF LiveEntries
<1>7. Ordered'
  <2> SUFFICES ASSUME NEW s \in Sources, NEW i \in DOMAIN ages[s], NEW j \in DOMAIN ages[s], i <= j
               PROVE  ages'[s][i] >= ages'[s][j]
    BY <1>1 DEF Ordered
  <2>1. ages[s][i] >= ages[s][j] /\ ages[s][i] \in 0..(MaxAge + 1) /\ ages[s][j] \in 0..(MaxAge + 1)
    BY ElementsIn DEF DuplicateInv, Ordered, DuplicateTypeOK
  <2> QED
    BY <1>2, <2>1, Constants
<1>8. Paced'
  <2> SUFFICES ASSUME NEW s \in Sources
               PROVE  \A n \in DOMAIN ages[s] :
                        ages'[s][n] <= MaxAge => Len(ages[s]) - n < PerPeriod * ages'[s][n] + 0
    BY <1>1, Constants DEF Paced
  <2> SUFFICES ASSUME NEW n \in DOMAIN ages[s], ages'[s][n] <= MaxAge
               PROVE  Len(ages[s]) - n < PerPeriod * ages'[s][n] + 0
    OBVIOUS
  <2>1. ages[s][n] \in Nat /\ Len(ages[s]) \in Nat /\ n \in Nat
    BY AgesAre
  <2>2. ages[s][n] <= MaxAge /\ ages'[s][n] = ages[s][n] + 1
    BY <1>2, <2>1, Constants
  <2>3. Len(ages[s]) - n < PerPeriod * ages[s][n] + Now(s) /\ Now(s) <= PerPeriod /\ Now(s) \in Nat
    BY <2>2, NowCounts DEF DuplicateInv, Paced
  <2>4. PerPeriod * (ages[s][n] + 1) = PerPeriod * ages[s][n] + PerPeriod /\ PerPeriod * ages[s][n] \in Int
    <3> DEFINE a == ages[s][n]
    <3>1. a \in Nat
      BY <2>1
    <3> HIDE DEF a
    <3>2. PerPeriod * (a + 1) = PerPeriod * a + PerPeriod /\ PerPeriod * a \in Int
      BY <3>1, PeriodMore
    <3> QED
      BY <3>2 DEF a
  <2>5. Len(ages[s]) - n < PerPeriod * ages[s][n] + PerPeriod
    BY <2>1, <2>3, <2>4, Constants, SMTT(20)
  <2>6. Len(ages[s]) - n < PerPeriod * ages'[s][n]
    BY <2>2, <2>4, <2>5
  <2> QED
    BY <2>2, <2>4, <2>6, Constants
<1>9. EntriesAreRight'
  <2> SUFFICES ASSUME NEW s \in Sources, NEW e \in LiveEntries(s)'
               PROVE  EntryIsRight(s, e)'
    BY DEF EntriesAreRight
  <2>1. e \in LiveEntries(s) /\ e \in Entries /\ table[e].ttl > 0
    BY <1>6 DEF LiveEntries
  <2>2. PICK L \in DOMAIN ages[s] : IsLatest(s, e, L) /\ KnowsBefore(s, e, L)
    BY <2>1 DEF DuplicateInv, EntriesAreRight, EntryIsRight
  <2>3. table'[e].ttl = table[e].ttl - 1 /\ table[e].ttl \in Nat
    BY <1>4, <2>1
  <2>4. Len(ages'[s]) - L < PerPeriod * (MaxAge + Ttl - table'[e].ttl) + Now(s)'
    <3> DEFINE k == MaxAge + Ttl - table[e].ttl
    <3>1. k \in Int /\ MaxAge + Ttl - table'[e].ttl = k + 1
      BY <2>3, Constants
    <3>2. Len(ages[s]) - L < PerPeriod * k + Now(s)
      BY <2>2 DEF IsLatest
    <3> HIDE DEF k
    <3>3. PerPeriod * (k + 1) = PerPeriod * k + PerPeriod /\ PerPeriod * k \in Int
      BY <3>1, PeriodMore
    <3>4. Now(s) <= PerPeriod /\ Now(s) \in Nat
      BY NowCounts DEF DuplicateInv, Paced
    <3>5. Len(ages[s]) - L < PerPeriod * (k + 1) + 0
      BY <3>2, <3>3, <3>4, AgesAre, Constants
    <3> QED
      BY <1>1, <3>1, <3>5
  <2>5. ages'[s][L] + table'[e].ttl >= Ttl \/ ages'[s][L] > MaxAge
    <3>1. ages[s][L] \in Nat /\ (ages[s][L] + table[e].ttl >= Ttl \/ ages[s][L] > MaxAge)
      BY <2>2, AgesAre DEF IsLatest
    <3>2. ages'[s][L] = IF ages[s][L] > MaxAge THEN ages[s][L] ELSE ages[s][L] + 1
      BY <1>2
    <3> QED
      BY <2>3, <3>1, <3>2, Constants
  <2>6. table'[e].seq = SeqWrapped(L)
    BY <1>4, <2>1, <2>2 DEF IsLatest
  <2>7. IsLatest(s, e, L)'
    BY <2>4, <2>5, <2>6 DEF IsLatest, SeqWrapped
  <2>8. KnowsBefore(s, e, L)'
    BY <1>1, <1>3, <1>4, <1>5, <2>1, <2>2 DEF KnowsBefore
  <2> QED
    BY <1>1, <2>7, <2>8 DEF EntryIsRight
<1>10. AcceptedIsKnown'
  <2> SUFFICES ASSUME NEW s \in Sources, NEW n \in accepted[s], UnderWay(s, n)'
               PROVE  LiveEntries(s)' # {}
    BY <1>3 DEF AcceptedIsKnown
  <2>1. UnderWay(s, n) /\ ages[s][n] + 1 <= MaxAge /\ n \in DOMAIN ages[s]
    BY <1>5 DEF UnderWay
  <2>2. PICK e \in LiveEntries(s) : TRUE
    BY <2>1 DEF DuplicateInv, AcceptedIsKnown
  <2>3. PICK L \in DOMAIN ages[s] : IsLatest(s, e, L) /\ KnowsBefore(s, e, L)
    BY DEF DuplicateInv, EntriesAreRight, EntryIsRight
  <2>4. L - n \in table[e].mask /\ table[e].mask \subseteq 0..(Window - 1)
    BY <2>1, <2>3 DEF KnowsBefore, LiveEntries, DuplicateTypeOK, EntryType
  <2>5. n <= L /\ ages[s][n] \in Nat /\ ages[s][L] \in Nat
    <3>1. L - n \in 0..(Window - 1)
      BY <2>4
    <3>2. 0 <= L - n
      BY <3>1, Constants
    <3> QED
      BY <2>1, <3>2, AgesAre
  <2>6. ages[s][n] >= ages[s][L]
    BY <2>1, <2>5 DEF DuplicateInv, Ordered
  <2>7. ages[s][L] + table[e].ttl >= Ttl
    BY <2>1, <2>3, <2>5, <2>6, Constants DEF IsLatest
  <2>8. e \in Entries /\ table[e].ttl \in Nat /\ table[e].src = s
    BY <1>4 DEF LiveEntries
  <2>9. table[e].ttl > 1
    BY <2>1, <2>5, <2>6, <2>7, <2>8, Constants
  <2>10. table'[e].ttl > 0 /\ table'[e].src = s
    BY <1>4, <2>8, <2>9
  <2> QED
    BY <2>8, <2>10 DEF LiveEntries
<1>11. SingleEntry'
  BY <1>6 DEF DuplicateInv, SingleEntry
<1>12. LiveHaveTimer'
  <2>1. ASSUME NEW e \in Entries, table'[e].ttl > 0 PROVE timer'
    <3>1. table[e].ttl > 0
      BY <1>4, <2>1
    <3>2. timer
      BY <3>1 DEF DuplicateInv, LiveHaveTimer
    <3> QED
      BY <3>1, <3>2 DEF Period
  <2> QED
    BY <2>1 DEF LiveHaveTimer
<1> QED
  BY <1>7, <1>8, <1>9, <1>10, <1>11, <1>12 DEF DuplicateInv

-----------------------------------------------------------------------------

LEMMA DuplicateInvKept ==
  DuplicateTypeOK /\ DuplicateInv /\ [DuplicateNext]_duplicateVars => DuplicateTypeOK' /\ DuplicateInv'
<1> SUFFICES ASSUME DuplicateTypeOK, DuplicateInv, [DuplicateNext]_duplicateVars
             PROVE  DuplicateTypeOK' /\ DuplicateInv'
  OBVIOUS
<1>1. DuplicateTypeOK'
  BY DuplicateTypesKept DEF DuplicateInv
<1>2. ASSUME UNCHANGED duplicateVars PROVE DuplicateInv'
  <2>1. UNCHANGED <<table, timer, ages, accepted>>
    BY <1>2 DEF duplicateVars
  <2>2. /\ \A s \in Sources : LiveEntries(s)' = LiveEntries(s) /\ Now(s)' = Now(s)
        /\ \A s \in Sources : \A n : UnderWay(s, n)' <=> UnderWay(s, n)
    BY <2>1 DEF LiveEntries, Now, Fresh, UnderWay
  <2>3. EntriesAreRight'
    BY <2>1, <2>2, OtherSource DEF DuplicateInv, EntriesAreRight, LiveEntries
  <2>4. Ordered' /\ Paced' /\ AcceptedIsKnown' /\ SingleEntry' /\ LiveHaveTimer'
    BY <2>1, <2>2 DEF DuplicateInv, Ordered, Paced, AcceptedIsKnown, SingleEntry, LiveHaveTimer
  <2> QED
    BY <2>3, <2>4 DEF DuplicateInv
<1>3. ASSUME NEW s \in Sources, Send(s) PROVE DuplicateInv'
  BY <1>3, SendKeeps
<1>4. ASSUME NEW s \in Sources, NEW n \in DOMAIN ages[s], AcceptKnown(s, n) PROVE DuplicateInv'
  BY <1>4, AcceptKnownKeeps
<1>5. ASSUME NEW s \in Sources, NEW n \in DOMAIN ages[s], AcceptNew(s, n) PROVE DuplicateInv'
  BY <1>5, AcceptNewKeeps
<1>6. ASSUME Period PROVE DuplicateInv'
  BY <1>6, PeriodKeeps
<1>7. ASSUME NEW s \in Sources, NEW n \in DOMAIN ages[s], Reject(s, n) PROVE DuplicateInv'
  BY <1>2, <1>7 DEF Reject
<1> QED
  BY <1>1, <1>2, <1>3, <1>4, <1>5, <1>6, <1>7 DEF DuplicateNext

\* The variables of nwkRxRejectDuplicate have their types: a mask has no bit
\* past its window, and no entry lives longer than it is set to.
THEOREM DuplicateTypeCorrect == DuplicateSpec => []DuplicateTypeOK
<1>1. DuplicateInit => DuplicateTypeOK /\ DuplicateInv
  BY TypesInitially, Initially
<1> QED
  BY <1>1, DuplicateInvKept, PTL DEF DuplicateSpec

\* nwkRxRejectDuplicate lets no copy of a frame through twice and rejects no
\* new frame for an old one, a source has one entry and no entry stays for
\* ever: for every table, window and sequence space, whatever is lost,
\* delayed or overtaken, as long as no copy outlives an entry and no source
\* sends so fast that a number comes back while it is remembered.
THEOREM CopiesAreTold == DuplicateSpec => []TellsCopies
<1>1. DuplicateInit => DuplicateTypeOK /\ DuplicateInv
  BY TypesInitially, Initially
<1>2. DuplicateTypeOK /\ DuplicateInv => TellsCopies
  BY InvTellsCopies
<1> QED
  BY <1>1, <1>2, DuplicateInvKept, PTL DEF DuplicateSpec

-----------------------------------------------------------------------------
(***************************************************************************)
(* A frame for a group reaches each member once, and no further than the   *)
(* radii, in any network, with any members, radii and routes, and with any *)
(* number of frames under way (NwkMulticast).                              *)
(***************************************************************************)

\* What FloodsAssumption says of a choice.
FloodOK(fl) ==
  /\ fl.links \subseteq {l \in Stations \X Stations : l[1] # l[2]}
  /\ fl.members \subseteq Stations
  /\ fl.memberRadius \in Nat /\ fl.nonMemberRadius \in Nat
  /\ fl.routes \in [Stations -> Stations \cup {Everyone}]
  /\ \A n \in Stations : fl.routes[n] # Everyone => <<n, fl.routes[n]>> \in fl.links

-----------------------------------------------------------------------------
(* Ways from o, over the nodes w[1] to w[m] *)

\* The last of a way, and a way with one node more.
EndAt(o, w, m) == IF m = 0 THEN o ELSE w[m]
Then(w, m, n) == [i \in 1..(m + 1) |-> IF i = m + 1 THEN n ELSE w[i]]

\* Each node at most once, none of P, along links.
IsWay(fl, o, P, w, m) ==
  /\ m \in Nat /\ w \in [1..m -> Stations]
  /\ \A i, j \in 1..m : w[i] = w[j] => i = j
  /\ \A i \in 1..m : w[i] \notin P
  /\ \A i \in 0..(m - 1) : <<EndAt(o, w, i), w[i + 1]>> \in fl.links

\* Rows of nodes in M: none is longer than R, and r of them are at the end.
Short(w, m, M, R) == \A i, j \in 1..m : (\A x \in i..j : w[x] \in M) => j - i < R
EndsRow(w, m, M, r) ==
  /\ r \in 0..m
  /\ \A x \in (m - r + 1)..m : w[x] \in M
  /\ r < m => w[m - r] \notin M

Others(fl) == Stations \ fl.members
MayPass(fl, w, m) ==
  Short(w, m, fl.members, fl.memberRadius) /\ Short(w, m, Others(fl), fl.nonMemberRadius)

\* Frame f floods, having come over w, with what is left of the radii.
Carries(fl, o, P, S, w, m, f) ==
  /\ IsWay(fl, o, P, w, m) /\ (\A i \in 1..m : w[i] \in S) /\ MayPass(fl, w, m)
  /\ f.from = EndAt(o, w, m)
  /\ \E r \in 0..m :
       EndsRow(w, m, fl.members, r) /\ f.memberRadius = fl.memberRadius - r
  /\ \E r \in 0..m :
       EndsRow(w, m, Others(fl), r) /\ f.nonMemberRadius = fl.nonMemberRadius - r

\* A copy of it came to n over w.
Arrives(fl, o, P, S, w, m, n) ==
  /\ IsWay(fl, o, P, w, m) /\ (\A i \in 1..m : w[i] \in S /\ w[i] # n) /\ MayPass(fl, w, m)
  /\ <<EndAt(o, w, m), n>> \in fl.links

-----------------------------------------------------------------------------
(* The invariant, of one number: C are its frames, S the nodes that have   *)
(* it, g those it was routed to, I how often each node got it, z what of   *)
(* all frames was lost.                                                    *)

On(g) == {g[i] : i \in 1..Len(g)}
BeginsAt(g) == IF Len(g) = 0 THEN Origin ELSE g[Len(g)]
Past(g) == {Origin} \cup On(g)
Floods1(fl, g) == Len(g) = 0 \/ BeginsAt(g) \in fl.members

\* What n is to send is still with it, or has come to those in reach.
Served(fl, C, S, n) ==
  \/ \E f \in C : f.from = n /\ f.to = Everyone
  \/ \A x \in Stations : <<n, x>> \in fl.links => x = Origin \/ x \in S

FrameSet ==
  [seq : Nat, from : Stations, to : Stations \cup {Everyone},
   memberRadius : Nat, nonMemberRadius : Nat]

\* The source never has it, and just the members that have it got it.
ToldOK(fl, S, I) ==
  /\ S \subseteq Stations \ {Origin}
  /\ I = [n \in Stations |-> IF n \in S /\ n \in fl.members THEN 1 ELSE 0]

\* It was routed up to the first member.
LegOK(fl, S, g) ==
  /\ g \in Seq(Stations)
  /\ \A i \in 1..Len(g) : g[i] \in S /\ (i < Len(g) => g[i] \notin fl.members)

\* While it is routed there is one frame, and nobody else has it.
RoutedOK(fl, C, S, g) ==
  \A f \in C : f.to # Everyone =>
    /\ C = {f} /\ S = On(g)
    /\ f.from = BeginsAt(g) /\ BeginsAt(g) \notin fl.members
    /\ f.memberRadius = fl.memberRadius /\ f.nonMemberRadius = fl.nonMemberRadius
    /\ <<f.from, f.to>> \in fl.links

FloodingOK(fl, C, S, g) ==
  \A f \in C : f.to = Everyone =>
    /\ Floods1(fl, g)
    /\ \E m \in Nat : \E w \in [1..m -> Stations] : Carries(fl, BeginsAt(g), Past(g), S, w, m, f)

\* Who has it by the flood got it over a way the radii allow, and repeats it
\* if they allow one node more.
ReachedOK(fl, C, S, g, z) ==
  \A n \in S \ On(g) :
    /\ Floods1(fl, g)
    /\ \E m \in Nat : \E w \in [1..m -> Stations] :
         /\ Arrives(fl, BeginsAt(g), Past(g), S, w, m, n)
         /\ z = 0 /\ MayPass(fl, Then(w, m, n), m + 1) => Served(fl, C, S, n)

BegunOK(fl, C, S, g, z) ==
  z = 0 /\ Floods1(fl, g) /\ (\A f \in C : f.to = Everyone) => Served(fl, C, S, BeginsAt(g))

FrameInv(fl, C, S, g, I, z) ==
  /\ C \subseteq FrameSet
  /\ ToldOK(fl, S, I) /\ LegOK(fl, S, g) /\ RoutedOK(fl, C, S, g)
  /\ FloodingOK(fl, C, S, g) /\ ReachedOK(fl, C, S, g, z) /\ BegunOK(fl, C, S, g, z)

Of(k) == {f \in carried : f.seq = k}
Saw(k) == {n \in Stations : k \in seen[n]}

\* Every variable has its type, and routes lead to nodes in reach.
MulticastTypeOK ==
  /\ flood \in Floods
  /\ groupRoute \in [Stations -> Stations \cup {Everyone}]
  /\ \A n \in Stations : groupRoute[n] # Everyone => <<n, groupRoute[n]>> \in flood.links
  /\ seen \in [Stations -> SUBSET Nat]
  /\ numbered \in 0..MaxMulticasts
  /\ carried \subseteq FrameSet /\ (\A f \in carried : f.seq \in 1..numbered)
  /\ routeErrors \in Nat
  /\ indicated \in [Frames -> [Stations -> Nat]]
  /\ leg \in [Frames -> Seq(Stations)]
  /\ lost \in Nat

EachInv ==
  \A k \in Frames :
    IF k <= numbered THEN FrameInv(flood, Of(k), Saw(k), leg[k], indicated[k], lost)
    ELSE Saw(k) = {} /\ leg[k] = <<>> /\ indicated[k] = [n \in Stations |-> 0]

MulticastInv == MulticastTypeOK /\ EachInv

-----------------------------------------------------------------------------
(* Ways and rows, with a node more *)

\* Behind a row of r nodes in M one more is a row of r + 1, and one that is
\* not in M ends the row.
LEMMA RowLonger ==
  ASSUME NEW m \in Nat, NEW w \in [1..m -> Stations], NEW n, NEW M, NEW R \in Nat,
         NEW r, Short(w, m, M, R), EndsRow(w, m, M, r)
  PROVE  /\ n \in M => /\ Short(Then(w, m, n), m + 1, M, R) <=> r < R
                       /\ EndsRow(Then(w, m, n), m + 1, M, r + 1)
         /\ n \notin M => /\ Short(Then(w, m, n), m + 1, M, R)
                          /\ EndsRow(Then(w, m, n), m + 1, M, 0)
<1> DEFINE v == Then(w, m, n)
<1>1. /\ \A i \in 1..m : v[i] = w[i]
      /\ v[m + 1] = n
  BY DEF Then
<1>2. /\ r \in 0..m
      /\ \A x \in (m - r + 1)..m : w[x] \in M
      /\ r < m => w[m - r] \notin M
  BY DEF EndsRow
<1>3. \A i, j \in 1..m : (\A x \in i..j : w[x] \in M) => j - i < R
  BY DEF Short
<1> HIDE DEF v
<1>4. ASSUME n \in M, r < R
      PROVE  Short(v, m + 1, M, R)
  <2> SUFFICES ASSUME NEW i \in 1..(m + 1), NEW j \in 1..(m + 1), \A x \in i..j : v[x] \in M
               PROVE  j - i < R
    BY DEF Short
  <2>1. CASE j <= m
    <3>1. i > j \/ i \in 1..m
      BY <2>1
    <3>2. j \in 1..m
      BY <2>1
    <3>3. CASE i \in 1..m
      <4>1. \A x \in i..j : w[x] \in M
        BY <1>1, <3>2, <3>3
      <4> QED
        BY <1>3, <4>1, <3>2, <3>3
    <3> QED
      BY <3>1, <3>3
  <2>2. CASE j = m + 1
    <3>1. i >= m - r + 1
      <4> SUFFICES ASSUME i < m - r + 1
                   PROVE  FALSE
        BY <1>2
      <4>1. r < m /\ m - r \in i..j /\ m - r \in 1..m
        BY <1>2, <2>2
      <4> QED
        BY <4>1, <1>1, <1>2
    <3> QED
      BY <1>2, <1>4, <2>2, <3>1
  <2> QED
    BY <2>1, <2>2
<1>5. ASSUME n \in M, Short(v, m + 1, M, R)
      PROVE  r < R
  <2>1. m - r + 1 \in 1..(m + 1) /\ m + 1 \in 1..(m + 1)
    BY <1>2
  <2>2. \A x \in (m - r + 1)..(m + 1) : v[x] \in M
    BY <1>1, <1>2, <1>5
  <2>3. (m + 1) - (m - r + 1) < R
    BY <1>5, <2>1, <2>2 DEF Short
  <2> QED
    BY <2>3, <1>2
<1>6. ASSUME n \in M
      PROVE  EndsRow(v, m + 1, M, r + 1)
  <2>1. r + 1 \in 0..(m + 1)
    BY <1>2
  <2>2. \A x \in ((m + 1) - (r + 1) + 1)..(m + 1) : v[x] \in M
    BY <1>1, <1>2, <1>6
  <2>3. r + 1 < m + 1 => v[(m + 1) - (r + 1)] \notin M
    BY <1>1, <1>2
  <2> QED
    BY <2>1, <2>2, <2>3 DEF EndsRow
<1>7. ASSUME n \notin M
      PROVE  Short(v, m + 1, M, R) /\ EndsRow(v, m + 1, M, 0)
  <2>1. EndsRow(v, m + 1, M, 0)
    BY <1>1, <1>7 DEF EndsRow
  <2>2. ASSUME NEW i \in 1..(m + 1), NEW j \in 1..(m + 1), \A x \in i..j : v[x] \in M
        PROVE  j - i < R
    <3>1. j = m + 1 => i > j
      BY <1>1, <1>7, <2>2
    <3>2. CASE i > j
      BY <3>2
    <3>3. CASE i <= j /\ j <= m
      <4>1. \A x \in i..j : w[x] \in M
        BY <1>1, <2>2, <3>3
      <4>2. i \in 1..m /\ j \in 1..m
        BY <3>3
      <4> QED
        BY <1>3, <4>1, <4>2
    <3> QED
      BY <3>1, <3>2, <3>3
  <2> QED
    BY <2>1, <2>2 DEF Short
<1> QED
  BY <1>4, <1>5, <1>6, <1>7 DEF v

LEMMA WayLonger ==
  ASSUME NEW fl, NEW o, NEW P, NEW m, NEW w, NEW n \in Stations,
         IsWay(fl, o, P, w, m), n \notin P, \A i \in 1..m : w[i] # n,
         <<EndAt(o, w, m), n>> \in fl.links
  PROVE  IsWay(fl, o, P, Then(w, m, n), m + 1) /\ EndAt(o, Then(w, m, n), m + 1) = n
<1> DEFINE v == Then(w, m, n)
<1>0. /\ m \in Nat /\ w \in [1..m -> Stations]
      /\ \A i, j \in 1..m : w[i] = w[j] => i = j
      /\ \A i \in 1..m : w[i] \notin P
      /\ \A i \in 0..(m - 1) : <<EndAt(o, w, i), w[i + 1]>> \in fl.links
  BY DEF IsWay
<1>1. v \in [1..(m + 1) -> Stations] /\ (\A i \in 1..m : v[i] = w[i]) /\ v[m + 1] = n
  BY <1>0 DEF Then
<1> HIDE DEF v
<1>2. \A i \in 0..m : EndAt(o, v, i) = EndAt(o, w, i)
  BY <1>0, <1>1 DEF EndAt
<1>3. EndAt(o, v, m + 1) = n
  BY <1>0, <1>1 DEF EndAt
<1>4. \A i, j \in 1..(m + 1) : v[i] = v[j] => i = j
  <2> SUFFICES ASSUME NEW i \in 1..(m + 1), NEW j \in 1..(m + 1), v[i] = v[j]
               PROVE  i = j
    OBVIOUS
  <2>1. (i \in 1..m \/ i = m + 1) /\ (j \in 1..m \/ j = m + 1)
    BY <1>0
  <2> QED
    BY <2>1, <1>0, <1>1
<1>5. \A i \in 1..(m + 1) : v[i] \notin P
  <2> TAKE i \in 1..(m + 1)
  <2>1. i \in 1..m \/ i = m + 1
    BY <1>0
  <2> QED
    BY <2>1, <1>0, <1>1
<1>6. \A i \in 0..((m + 1) - 1) : <<EndAt(o, v, i), v[i + 1]>> \in fl.links
  <2> TAKE i \in 0..((m + 1) - 1)
  <2>1. i \in 0..m /\ EndAt(o, v, i) = EndAt(o, w, i)
    BY <1>0, <1>2
  <2>2. CASE i = m
    BY <2>1, <2>2, <1>1
  <2>3. CASE i # m
    <3>1. i \in 0..(m - 1) /\ i + 1 \in 1..m
      BY <2>1, <2>3, <1>0
    <3>2. v[i + 1] = w[i + 1]
      BY <1>1, <3>1
    <3>3. <<EndAt(o, w, i), w[i + 1]>> \in fl.links
      BY <1>0, <3>1
    <3> QED
      BY <3>2, <3>3, <2>1
  <2> QED
    BY <2>2, <2>3
<1>7. m + 1 \in Nat
  BY <1>0
<1>8. IsWay(fl, o, P, v, m + 1)
  BY <1>1, <1>4, <1>5, <1>6, <1>7 DEF IsWay
<1> QED
  BY <1>8, <1>3 DEF v

-----------------------------------------------------------------------------
(* A node hears a frame that floods, and repeats it *)

\* What node n repeats of frame f.
RepeatOf(fl, n, f) ==
  IF n \in fl.members
    THEN IF f.memberRadius > 0
           THEN {[seq |-> f.seq, from |-> n, to |-> Everyone,
                  memberRadius |-> f.memberRadius - 1, nonMemberRadius |-> fl.nonMemberRadius]}
           ELSE {}
    ELSE IF f.nonMemberRadius > 0
           THEN {[seq |-> f.seq, from |-> n, to |-> Everyone,
                  memberRadius |-> fl.memberRadius, nonMemberRadius |-> f.nonMemberRadius - 1]}
           ELSE {}

\* A node that has not got the frame yet gets it over the frame's way.
LEMMA HeardIsArrival ==
  ASSUME NEW fl, NEW o, NEW P, NEW S, NEW m, NEW w, NEW f, NEW n,
         Carries(fl, o, P, S, w, m, f), n \notin S, <<f.from, n>> \in fl.links
  PROVE  Arrives(fl, o, P, S, w, m, n)
  BY DEF Carries, Arrives

\* The radii of the frame allow one node more just if it is repeated, and what
\* is repeated has come over the way with the node.
LEMMA RepeatIsLonger ==
  ASSUME NEW fl, FloodOK(fl), NEW o, NEW P, NEW S, NEW T, NEW m, NEW w, NEW n \in Stations, NEW f,
         Carries(fl, o, P, S, w, m, f), n \notin S, n \notin P, n \in T, S \subseteq T,
         <<f.from, n>> \in fl.links
  PROVE  /\ MayPass(fl, Then(w, m, n), m + 1) => RepeatOf(fl, n, f) # {}
         /\ \A h \in RepeatOf(fl, n, f) : Carries(fl, o, P, T, Then(w, m, n), m + 1, h)
<1> DEFINE v == Then(w, m, n)
           R == fl.memberRadius
           Q == fl.nonMemberRadius
<1>1. /\ IsWay(fl, o, P, w, m) /\ (\A i \in 1..m : w[i] \in S)
      /\ Short(w, m, fl.members, R) /\ Short(w, m, Others(fl), Q)
      /\ f.from = EndAt(o, w, m)
  BY DEF Carries, MayPass
<1>2. m \in Nat /\ w \in [1..m -> Stations]
  BY <1>1 DEF IsWay
<1>3. PICK r \in 0..m : EndsRow(w, m, fl.members, r) /\ f.memberRadius = R - r
  BY DEF Carries
<1>4. PICK q \in 0..m : EndsRow(w, m, Others(fl), q) /\ f.nonMemberRadius = Q - q
  BY DEF Carries
<1>5. R \in Nat /\ Q \in Nat /\ fl.members \subseteq Stations
  BY DEF FloodOK
<1>6. n \in Others(fl) <=> n \notin fl.members
  BY DEF Others
<1>7. IsWay(fl, o, P, v, m + 1) /\ EndAt(o, v, m + 1) = n
  <2>1. \A i \in 1..m : w[i] # n
    BY <1>1
  <2>2. <<EndAt(o, w, m), n>> \in fl.links
    BY <1>1
  <2> QED
    BY <1>1, <2>1, <2>2, WayLonger
<1>8. \A i \in 1..(m + 1) : v[i] \in T
  BY <1>1, <1>2 DEF Then
<1>9. /\ n \in fl.members => /\ Short(v, m + 1, fl.members, R) <=> r < R
                             /\ EndsRow(v, m + 1, fl.members, r + 1)
      /\ n \notin fl.members => /\ Short(v, m + 1, fl.members, R)
                                /\ EndsRow(v, m + 1, fl.members, 0)
  BY <1>1, <1>2, <1>3, <1>5, RowLonger
<1>10. /\ n \in Others(fl) => /\ Short(v, m + 1, Others(fl), Q) <=> q < Q
                              /\ EndsRow(v, m + 1, Others(fl), q + 1)
       /\ n \notin Others(fl) => /\ Short(v, m + 1, Others(fl), Q)
                                 /\ EndsRow(v, m + 1, Others(fl), 0)
  BY <1>1, <1>2, <1>4, <1>5, RowLonger
<1> HIDE DEF v, R, Q
<1>11. CASE n \in fl.members
  <2>1. MayPass(fl, v, m + 1) <=> r < R
    BY <1>9, <1>10, <1>6, <1>11 DEF MayPass, R, Q
  <2>2. r < R <=> f.memberRadius > 0
    BY <1>3, <1>5, <1>2
  <2>3. MayPass(fl, v, m + 1) => RepeatOf(fl, n, f) # {}
    BY <2>1, <2>2, <1>11 DEF RepeatOf
  <2>4. ASSUME NEW h \in RepeatOf(fl, n, f)
        PROVE  Carries(fl, o, P, T, v, m + 1, h)
    <3>1. /\ f.memberRadius > 0
          /\ h.from = n /\ h.memberRadius = f.memberRadius - 1 /\ h.nonMemberRadius = Q
      BY <1>11, <2>4 DEF RepeatOf, Q
    <3>2. MayPass(fl, v, m + 1)
      BY <3>1, <2>1, <2>2
    <3>3. /\ r + 1 \in 0..(m + 1) /\ EndsRow(v, m + 1, fl.members, r + 1)
          /\ h.memberRadius = fl.memberRadius - (r + 1)
      BY <1>2, <1>3, <1>5, <1>9, <1>11, <3>1 DEF R
    <3>4. /\ 0 \in 0..(m + 1) /\ EndsRow(v, m + 1, Others(fl), 0)
          /\ h.nonMemberRadius = fl.nonMemberRadius - 0
      BY <1>2, <1>5, <1>10, <1>6, <1>11, <3>1 DEF Q
    <3>5. h.from = EndAt(o, v, m + 1)
      BY <3>1, <1>7
    <3> QED
      BY <3>2, <3>3, <3>4, <3>5, <1>7, <1>8 DEF Carries
  <2> QED
    BY <2>3, <2>4 DEF v
<1>12. CASE n \notin fl.members
  <2>1. MayPass(fl, v, m + 1) <=> q < Q
    BY <1>9, <1>10, <1>6, <1>12 DEF MayPass, R, Q
  <2>2. q < Q <=> f.nonMemberRadius > 0
    BY <1>4, <1>5, <1>2
  <2>3. MayPass(fl, v, m + 1) => RepeatOf(fl, n, f) # {}
    BY <2>1, <2>2, <1>12 DEF RepeatOf
  <2>4. ASSUME NEW h \in RepeatOf(fl, n, f)
        PROVE  Carries(fl, o, P, T, v, m + 1, h)
    <3>1. /\ f.nonMemberRadius > 0
          /\ h.from = n /\ h.nonMemberRadius = f.nonMemberRadius - 1 /\ h.memberRadius = R
      BY <1>12, <2>4 DEF RepeatOf, R
    <3>2. MayPass(fl, v, m + 1)
      BY <3>1, <2>1, <2>2
    <3>3. /\ 0 \in 0..(m + 1) /\ EndsRow(v, m + 1, fl.members, 0)
          /\ h.memberRadius = fl.memberRadius - 0
      BY <1>2, <1>5, <1>9, <1>12, <3>1 DEF R
    <3>4. /\ q + 1 \in 0..(m + 1) /\ EndsRow(v, m + 1, Others(fl), q + 1)
          /\ h.nonMemberRadius = fl.nonMemberRadius - (q + 1)
      BY <1>2, <1>4, <1>5, <1>10, <1>6, <1>12, <3>1 DEF Q
    <3>5. h.from = EndAt(o, v, m + 1)
      BY <3>1, <1>7
    <3> QED
      BY <3>2, <3>3, <3>4, <3>5, <1>7, <1>8 DEF Carries
  <2> QED
    BY <2>3, <2>4 DEF v
<1> QED
  BY <1>11, <1>12 DEF v

\* Ways stay what they are while more nodes get the frame.
LEMMA WaysStay ==
  ASSUME NEW S, NEW T, S \subseteq T
  PROVE  /\ \A fl, o, P, w, m, f : Carries(fl, o, P, S, w, m, f) => Carries(fl, o, P, T, w, m, f)
         /\ \A fl, o, P, w, m, n : Arrives(fl, o, P, S, w, m, n) => Arrives(fl, o, P, T, w, m, n)
  BY DEF Carries, Arrives

-----------------------------------------------------------------------------
(* The invariant is kept by whatever happens to a frame *)

LEMMA RepeatedFrames ==
  ASSUME NEW fl, FloodOK(fl), NEW f \in FrameSet, NEW n \in Stations
  PROVE  \A h \in RepeatOf(fl, n, f) :
           h \in FrameSet /\ h.seq = f.seq /\ h.from = n /\ h.to = Everyone
<1>1. /\ fl.memberRadius \in Nat /\ fl.nonMemberRadius \in Nat
      /\ f.seq \in Nat /\ f.memberRadius \in Nat /\ f.nonMemberRadius \in Nat
  BY DEF FloodOK, FrameSet
<1> SUFFICES ASSUME NEW h \in RepeatOf(fl, n, f)
             PROVE  h \in FrameSet /\ h.seq = f.seq /\ h.from = n /\ h.to = Everyone
  OBVIOUS
<1>2. CASE n \in fl.members
  <2>1. /\ f.memberRadius > 0
        /\ h = [seq |-> f.seq, from |-> n, to |-> Everyone,
                memberRadius |-> f.memberRadius - 1, nonMemberRadius |-> fl.nonMemberRadius]
    BY <1>2 DEF RepeatOf
  <2> QED
    BY <1>1, <2>1 DEF FrameSet
<1>3. CASE n \notin fl.members
  <2>1. /\ f.nonMemberRadius > 0
        /\ h = [seq |-> f.seq, from |-> n, to |-> Everyone,
                memberRadius |-> fl.memberRadius, nonMemberRadius |-> f.nonMemberRadius - 1]
    BY <1>3 DEF RepeatOf
  <2> QED
    BY <1>1, <2>1 DEF FrameSet
<1> QED
  BY <1>2, <1>3

\* Those in N got it now.
GetsIt(fl, I, N) == [n \in Stations |-> I[n] + IF n \in N /\ n \in fl.members THEN 1 ELSE 0]

LEMMA ToldStays ==
  ASSUME NEW fl, NEW S, NEW I, ToldOK(fl, S, I), NEW N, N \subseteq Stations \ {Origin},
         \A n \in N : n \notin S
  PROVE  ToldOK(fl, S \cup N, GetsIt(fl, I, N))
<1>1. \A n \in Stations :
        I[n] + (IF n \in N /\ n \in fl.members THEN 1 ELSE 0)
          = IF n \in S \cup N /\ n \in fl.members THEN 1 ELSE 0
  <2> TAKE n \in Stations
  <2>1. I[n] = IF n \in S /\ n \in fl.members THEN 1 ELSE 0
    BY DEF ToldOK
  <2> QED
    BY <2>1
<1>2. GetsIt(fl, I, N) = [n \in Stations |-> IF n \in S \cup N /\ n \in fl.members THEN 1 ELSE 0]
  BY <1>1 DEF GetsIt
<1> QED
  BY <1>2 DEF ToldOK

\* A frame that floods is heard by H, of which F have no frame for the copy
\* and N had not got it; D are the frames then, y what is lost.
FloodIsHeard(fl, C, S, z, f, H, F, N, D, y) ==
  LET reach == {n \in Stations : <<f.from, n>> \in fl.links}
  IN /\ H \subseteq reach
     /\ N = {n \in H : n # Origin /\ n \notin S}
     /\ D = (C \ {f}) \cup UNION {RepeatOf(fl, n, f) : n \in N \ F}
     /\ y = 0 => z = 0 /\ F = {} /\ H = reach

LEMMA FloodHeard ==
  ASSUME NEW fl, FloodOK(fl), NEW C, NEW S, NEW g, NEW I, NEW z, FrameInv(fl, C, S, g, I, z),
         NEW f \in C, f.to = Everyone, NEW H, NEW F, NEW N, NEW D, NEW y,
         FloodIsHeard(fl, C, S, z, f, H, F, N, D, y)
  PROVE  FrameInv(fl, D, S \cup N, g, GetsIt(fl, I, N), y)
<1>0. /\ H \subseteq {n \in Stations : <<f.from, n>> \in fl.links}
      /\ N = {n \in H : n # Origin /\ n \notin S}
      /\ D = (C \ {f}) \cup UNION {RepeatOf(fl, n, f) : n \in N \ F}
      /\ y = 0 => z = 0 /\ F = {} /\ H = {n \in Stations : <<f.from, n>> \in fl.links}
  BY DEF FloodIsHeard
<1> DEFINE T == S \cup N
           o == BeginsAt(g)
           P == Past(g)
<1>1. /\ C \subseteq FrameSet
      /\ ToldOK(fl, S, I) /\ LegOK(fl, S, g) /\ RoutedOK(fl, C, S, g)
      /\ FloodingOK(fl, C, S, g) /\ ReachedOK(fl, C, S, g, z) /\ BegunOK(fl, C, S, g, z)
  BY DEF FrameInv
<1>2. N \subseteq Stations \ {Origin} /\ (\A n \in N : n \notin S /\ <<f.from, n>> \in fl.links)
  BY <1>0
<1>3. P = {Origin} \cup On(g) /\ On(g) \subseteq S
  BY <1>1 DEF LegOK, On, Past
<1>4. \A n \in N : n \in Stations /\ n \notin P /\ n \notin On(g)
  BY <1>2, <1>3
<1>5. \A h \in C : h.to = Everyone
  BY <1>1 DEF RoutedOK
<1>6. \A h \in D : \/ h \in C /\ h # f
                   \/ \E n \in N : h \in RepeatOf(fl, n, f)
  BY <1>0
<1>7. f \in FrameSet
  BY <1>1
<1>8. \A n \in N : \A h \in RepeatOf(fl, n, f) :
        h \in FrameSet /\ h.seq = f.seq /\ h.from = n /\ h.to = Everyone
  BY <1>4, <1>7, RepeatedFrames
<1>9. D \subseteq FrameSet /\ (\A h \in D : h.to = Everyone)
  BY <1>1, <1>5, <1>6, <1>8
<1>10. ToldOK(fl, T, GetsIt(fl, I, N))
  BY <1>1, <1>2, ToldStays
<1>11. LegOK(fl, T, g)
  BY <1>1 DEF LegOK
<1>12. RoutedOK(fl, D, T, g)
  BY <1>9 DEF RoutedOK
<1>13. Floods1(fl, g)
  BY <1>1 DEF FloodingOK
<1>14. PICK m \in Nat : \E w \in [1..m -> Stations] : Carries(fl, o, P, S, w, m, f)
  BY <1>1 DEF FloodingOK
<1>15. PICK w \in [1..m -> Stations] : Carries(fl, o, P, S, w, m, f)
  BY <1>14
<1>16. S \subseteq T /\ N \subseteq T
  OBVIOUS
<1> HIDE DEF T, o, P
<1>17. \A n \in N :
         /\ Arrives(fl, o, P, T, w, m, n)
         /\ MayPass(fl, Then(w, m, n), m + 1) => RepeatOf(fl, n, f) # {}
         /\ \A h \in RepeatOf(fl, n, f) : Carries(fl, o, P, T, Then(w, m, n), m + 1, h)
  <2> TAKE n \in N
  <2>1. n \in Stations /\ n \notin P /\ n \notin S /\ n \in T /\ <<f.from, n>> \in fl.links
    BY <1>2, <1>4, <1>16
  <2>2. Arrives(fl, o, P, T, w, m, n)
    BY <1>15, <2>1, <1>16, HeardIsArrival, WaysStay
  <2>3. /\ MayPass(fl, Then(w, m, n), m + 1) => RepeatOf(fl, n, f) # {}
        /\ \A h \in RepeatOf(fl, n, f) : Carries(fl, o, P, T, Then(w, m, n), m + 1, h)
    BY <1>15, <1>16, <2>1, RepeatIsLonger
  <2> QED
    BY <2>2, <2>3
<1>18. FloodingOK(fl, D, T, g)
  <2> SUFFICES ASSUME NEW h \in D
               PROVE  \E k \in Nat : \E v \in [1..k -> Stations] : Carries(fl, o, P, T, v, k, h)
    BY <1>13 DEF FloodingOK, o, P
  <2>1. CASE h \in C
    <3>1. \E k \in Nat : \E v \in [1..k -> Stations] : Carries(fl, o, P, S, v, k, h)
      BY <1>1, <1>5, <2>1 DEF FloodingOK, o, P
    <3> QED
      BY <3>1, <1>16, WaysStay
  <2>2. ASSUME NEW n \in N, h \in RepeatOf(fl, n, f)
        PROVE  \E k \in Nat : \E v \in [1..k -> Stations] : Carries(fl, o, P, T, v, k, h)
    <3>1. Carries(fl, o, P, T, Then(w, m, n), m + 1, h)
      BY <1>17, <2>2
    <3>2. m + 1 \in Nat /\ Then(w, m, n) \in [1..(m + 1) -> Stations]
      BY <3>1 DEF Carries, IsWay
    <3> QED
      BY <3>1, <3>2
  <2> QED
    BY <1>6, <2>1, <2>2
<1>19. ASSUME y = 0, NEW n, Served(fl, C, S, n)
       PROVE  Served(fl, D, T, n)
  <2>1. CASE \A x \in Stations : <<n, x>> \in fl.links => x = Origin \/ x \in S
    BY <2>1, <1>16 DEF Served
  <2>2. ASSUME NEW h \in C, h.from = n, h.to = Everyone
        PROVE  Served(fl, D, T, n)
    <3>1. CASE h = f
      <4>1. \A x \in Stations : <<n, x>> \in fl.links => x = Origin \/ x \in T
        BY <1>0, <3>1, <2>2, <1>19 DEF T
      <4> QED
        BY <4>1 DEF Served
    <3>2. CASE h # f
      BY <1>0, <3>2, <2>2 DEF Served
    <3> QED
      BY <3>1, <3>2
  <2> QED
    BY <2>1, <2>2, <1>19 DEF Served
<1>20. ReachedOK(fl, D, T, g, y)
  <2> SUFFICES ASSUME NEW n \in T \ On(g)
               PROVE  \E k \in Nat : \E v \in [1..k -> Stations] :
                        /\ Arrives(fl, o, P, T, v, k, n)
                        /\ y = 0 /\ MayPass(fl, Then(v, k, n), k + 1) => Served(fl, D, T, n)
    BY <1>13 DEF ReachedOK, o, P
  <2>1. CASE n \in S
    <3>0. PICK k \in Nat :
            \E v \in [1..k -> Stations] :
              /\ Arrives(fl, o, P, S, v, k, n)
              /\ z = 0 /\ MayPass(fl, Then(v, k, n), k + 1) => Served(fl, C, S, n)
      BY <1>1, <1>4, <2>1 DEF ReachedOK, o, P
    <3>1. PICK v \in [1..k -> Stations] :
            /\ Arrives(fl, o, P, S, v, k, n)
            /\ z = 0 /\ MayPass(fl, Then(v, k, n), k + 1) => Served(fl, C, S, n)
      BY <3>0
    <3>2. Arrives(fl, o, P, T, v, k, n)
      BY <3>1, <1>16, WaysStay
    <3>3. y = 0 /\ MayPass(fl, Then(v, k, n), k + 1) => Served(fl, D, T, n)
      BY <1>0, <3>1, <1>19
    <3> QED
      BY <3>2, <3>3
  <2>2. CASE n \in N
    <3>1. ASSUME y = 0, MayPass(fl, Then(w, m, n), m + 1)
          PROVE  Served(fl, D, T, n)
      <4>1. PICK h : h \in RepeatOf(fl, n, f)
        BY <1>17, <2>2, <3>1
      <4>2. h.from = n /\ h.to = Everyone
        BY <1>8, <2>2, <4>1
      <4>3. h \in D
        BY <1>0, <2>2, <3>1, <4>1
      <4> QED
        BY <4>2, <4>3 DEF Served
    <3> QED
      BY <3>1, <2>2, <1>17, <1>15
  <2> QED
    BY <2>1, <2>2 DEF T
<1>21. BegunOK(fl, D, T, g, y)
  BY <1>0, <1>1, <1>5, <1>19 DEF BegunOK
<1> QED
  BY <1>9, <1>10, <1>11, <1>12, <1>18, <1>20, <1>21 DEF FrameInv, T

\* Where a flood begins the way is empty.
LEMMA FloodBegins ==
  ASSUME NEW fl, FloodOK(fl), NEW o, NEW P, NEW S, NEW f, f.from = o,
         f.memberRadius = fl.memberRadius, f.nonMemberRadius = fl.nonMemberRadius
  PROVE  \E m \in Nat : \E w \in [1..m -> Stations] : Carries(fl, o, P, S, w, m, f)
<1> DEFINE w == [i \in 1..0 |-> Origin]
<1>1. 0 \in Nat /\ w \in [1..0 -> Stations]
  OBVIOUS
<1>2. IsWay(fl, o, P, w, 0)
  BY <1>1 DEF IsWay
<1>3. MayPass(fl, w, 0)
  BY DEF MayPass, Short
<1>4. EndsRow(w, 0, fl.members, 0) /\ EndsRow(w, 0, Others(fl), 0)
  BY DEF EndsRow
<1>5. f.memberRadius = fl.memberRadius - 0 /\ f.nonMemberRadius = fl.nonMemberRadius - 0
  BY DEF FloodOK
<1>6. f.from = EndAt(o, w, 0) /\ 0 \in 0..0
  BY DEF EndAt
<1>7. Carries(fl, o, P, S, w, 0, f)
  BY <1>2, <1>3, <1>4, <1>5, <1>6 DEF Carries
<1> QED
  BY <1>1, <1>7

\* What node n makes of a frame routed to it.
RouteOf(fl, routes, n, f) ==
  IF n \in fl.members
    THEN {[seq |-> f.seq, from |-> n, to |-> Everyone,
           memberRadius |-> f.memberRadius, nonMemberRadius |-> f.nonMemberRadius]}
    ELSE IF routes[n] # Everyone
           THEN {[seq |-> f.seq, from |-> n, to |-> routes[n],
                  memberRadius |-> f.memberRadius, nonMemberRadius |-> f.nonMemberRadius]}
           ELSE {}

\* Routes lead to nodes in reach.
RoutesOK(fl, routes) ==
  /\ routes \in [Stations -> Stations \cup {Everyone}]
  /\ \A n \in Stations : routes[n] # Everyone => <<n, routes[n]>> \in fl.links

\* One node more on the way of a routed frame.
LEMMA LegLonger ==
  ASSUME NEW g \in Seq(Stations), NEW h \in Stations
  PROVE  /\ Append(g, h) \in Seq(Stations) /\ Len(Append(g, h)) = Len(g) + 1 /\ Len(g) \in Nat
         /\ \A i \in 1..Len(g) : Append(g, h)[i] = g[i]
         /\ Append(g, h)[Len(g) + 1] = h
         /\ BeginsAt(Append(g, h)) = h /\ On(Append(g, h)) = On(g) \cup {h}
<1> DEFINE s == Append(g, h)
           m == Len(g)
<1>1. /\ s \in Seq(Stations) /\ Len(s) = m + 1 /\ m \in Nat
      /\ \A i \in 1..m : s[i] = g[i]
      /\ s[m + 1] = h
  OBVIOUS
<1> HIDE DEF s
<1>2. BeginsAt(s) = h
  BY <1>1 DEF BeginsAt
<1>3. \A x : x \in On(s) <=> x \in On(g) \cup {h}
  <2> TAKE x
  <2>1. ASSUME NEW i \in 1..(m + 1), x = s[i]
        PROVE  x \in On(g) \cup {h}
    <3>1. i \in 1..m \/ i = m + 1
      BY <1>1
    <3> QED
      BY <3>1, <2>1, <1>1 DEF On
  <2>2. ASSUME NEW i \in 1..m, x = g[i]
        PROVE  x \in On(s)
    <3>1. i \in 1..(m + 1) /\ s[i] = x
      BY <2>2, <1>1
    <3> QED
      BY <3>1, <1>1 DEF On
  <2>3. h \in On(s)
    <3>1. m + 1 \in 1..(m + 1)
      BY <1>1
    <3> QED
      BY <3>1, <1>1 DEF On
  <2> QED
    BY <2>1, <2>2, <2>3, <1>1 DEF On
<1> QED
  BY <1>1, <1>2, <1>3 DEF s

\* A routed frame, heard or not, by the node it is for.
RouteIsHeard(fl, routes, C, S, f, H, F, N, D, y) ==
  LET reach == {n \in Stations : <<f.from, n>> \in fl.links /\ n = f.to}
  IN /\ H \subseteq reach
     /\ N = {n \in H : n # Origin /\ n \notin S}
     /\ D = (C \ {f}) \cup UNION {RouteOf(fl, routes, n, f) : n \in N \ F}
     /\ y = 0 => F = {} /\ H = reach

LEMMA RoutedHeard ==
  ASSUME NEW fl, FloodOK(fl), NEW C, NEW S, NEW g, NEW I, NEW z, FrameInv(fl, C, S, g, I, z),
         NEW f \in C, f.to # Everyone, NEW routes, RoutesOK(fl, routes),
         NEW H, NEW F, NEW N, NEW D, NEW y, RouteIsHeard(fl, routes, C, S, f, H, F, N, D, y)
  PROVE  FrameInv(fl, D, S \cup N, IF f.to \in N THEN Append(g, f.to) ELSE g, GetsIt(fl, I, N), y)
<1>0. /\ H \subseteq {n \in Stations : <<f.from, n>> \in fl.links /\ n = f.to}
      /\ N = {n \in H : n # Origin /\ n \notin S}
      /\ D = (C \ {f}) \cup UNION {RouteOf(fl, routes, n, f) : n \in N \ F}
      /\ y = 0 => F = {} /\ H = {n \in Stations : <<f.from, n>> \in fl.links /\ n = f.to}
  BY DEF RouteIsHeard
<1> DEFINE T == S \cup N
           h == f.to
<1>1. /\ C \subseteq FrameSet
      /\ ToldOK(fl, S, I) /\ LegOK(fl, S, g)
  BY DEF FrameInv
<1>2. /\ C = {f} /\ S = On(g)
      /\ f.from = BeginsAt(g) /\ BeginsAt(g) \notin fl.members
      /\ f.memberRadius = fl.memberRadius /\ f.nonMemberRadius = fl.nonMemberRadius
      /\ <<f.from, h>> \in fl.links
  BY DEF FrameInv, RoutedOK
<1>3. f \in FrameSet /\ h \in Stations
  BY <1>1 DEF FrameSet
<1>4. N \subseteq {h} /\ N \subseteq Stations \ {Origin} /\ (\A n \in N : n \notin S)
  BY <1>0
<1>5. D = UNION {RouteOf(fl, routes, n, f) : n \in N \ F}
  BY <1>0, <1>2
<1>6. ToldOK(fl, T, GetsIt(fl, I, N))
  BY <1>1, <1>4, ToldStays
<1>7. CASE h \notin N
  <2>1. N = {} /\ T = S /\ D = {}
    BY <1>4, <1>5, <1>7
  <2>2. /\ D \subseteq FrameSet /\ RoutedOK(fl, D, T, g) /\ FloodingOK(fl, D, T, g)
        /\ LegOK(fl, T, g)
    BY <2>1, <1>1 DEF RoutedOK, FloodingOK
  <2>3. ReachedOK(fl, D, T, g, y)
    BY <2>1, <1>2 DEF ReachedOK
  <2>4. BegunOK(fl, D, T, g, y)
    <3> SUFFICES ASSUME y = 0, Floods1(fl, g)
                 PROVE  FALSE
      BY DEF BegunOK
    <3>1. Len(g) = 0
      BY <1>2 DEF Floods1
    <3>2. f.from = Origin /\ S = {}
      BY <3>1, <1>2 DEF BeginsAt, On
    <3>3. h # Origin
      BY <3>2, <1>2 DEF FloodOK
    <3>4. h \in H
      BY <1>0, <1>2, <1>3
    <3> QED
      BY <1>0, <3>2, <3>3, <3>4, <1>7
  <2> QED
    BY <2>2, <2>3, <2>4, <1>6, <1>7 DEF FrameInv
<1>8. CASE h \in N
  <2> DEFINE s == Append(g, h)
  <2>1. N = {h} /\ T = S \cup {h}
    BY <1>4, <1>8
  <2>2. g \in Seq(Stations)
    BY <1>1 DEF LegOK
  <2>3. /\ s \in Seq(Stations) /\ Len(s) = Len(g) + 1 /\ Len(g) \in Nat
        /\ \A i \in 1..Len(g) : s[i] = g[i]
        /\ s[Len(g) + 1] = h
        /\ BeginsAt(s) = h /\ On(s) = On(g) \cup {h}
    BY <1>3, <2>2, LegLonger
  <2> HIDE DEF s
  <2>4. T = On(s)
    BY <2>1, <2>3, <1>2
  <2>5. LegOK(fl, T, s)
    <3> SUFFICES ASSUME NEW i \in 1..Len(s)
                 PROVE  s[i] \in T /\ (i < Len(s) => s[i] \notin fl.members)
      BY <2>3 DEF LegOK
    <3>1. CASE i = Len(g) + 1
      BY <3>1, <2>1, <2>3
    <3>2. CASE i \in 1..Len(g)
      <4>1. s[i] = g[i] /\ g[i] \in S /\ (i < Len(g) => g[i] \notin fl.members)
        BY <3>2, <2>3, <1>1 DEF LegOK
      <4>2. i = Len(g) => g[i] \notin fl.members
        BY <3>2, <2>3, <1>2 DEF BeginsAt
      <4>3. i < Len(g) \/ i = Len(g)
        BY <3>2, <2>3
      <4> QED
        BY <4>1, <4>2, <4>3
    <3> QED
      BY <3>1, <3>2, <2>3
  <2>6. ReachedOK(fl, D, T, s, y)
    BY <2>4 DEF ReachedOK
  <2>7. CASE D = {}
    <3>1. D \subseteq FrameSet /\ RoutedOK(fl, D, T, s) /\ FloodingOK(fl, D, T, s)
      BY <2>7 DEF RoutedOK, FloodingOK
    <3>2. y = 0 => h \notin fl.members
      <4> SUFFICES ASSUME y = 0, h \in fl.members
                   PROVE  FALSE
        OBVIOUS
      <4>1. RouteOf(fl, routes, h, f) # {}
        BY DEF RouteOf
      <4>2. h \in N \ F
        BY <1>0, <1>8
      <4> QED
        BY <4>1, <4>2, <2>7, <1>5
    <3>3. BegunOK(fl, D, T, s, y)
      <4> SUFFICES ASSUME y = 0, Floods1(fl, s)
                   PROVE  FALSE
        BY DEF BegunOK
      <4>1. Len(s) # 0
        BY <2>3
      <4> QED
        BY <4>1, <3>2, <2>3 DEF Floods1
    <3> QED
      BY <3>1, <3>3, <2>5, <2>6, <1>6, <1>8 DEF FrameInv, s
  <2>8. CASE D # {}
    <3>1. h \notin F /\ D = RouteOf(fl, routes, h, f)
      BY <2>8, <2>1, <1>5
    <3>2. /\ f.seq \in Nat /\ fl.memberRadius \in Nat /\ fl.nonMemberRadius \in Nat
      BY <1>3 DEF FrameSet, FloodOK
    <3>3. CASE h \in fl.members
      <4> DEFINE x == [seq |-> f.seq, from |-> h, to |-> Everyone,
                       memberRadius |-> f.memberRadius, nonMemberRadius |-> f.nonMemberRadius]
      <4>1. D = {x}
        BY <3>1, <3>3 DEF RouteOf
      <4>2. /\ x \in FrameSet /\ x.from = h /\ x.to = Everyone
            /\ x.memberRadius = fl.memberRadius /\ x.nonMemberRadius = fl.nonMemberRadius
        BY <1>2, <1>3, <3>2 DEF FrameSet
      <4> HIDE DEF x
      <4>3. Floods1(fl, s)
        BY <3>3, <2>3 DEF Floods1
      <4>4. \E m \in Nat : \E w \in [1..m -> Stations] :
              Carries(fl, BeginsAt(s), Past(s), T, w, m, x)
        BY <4>2, <2>3, FloodBegins
      <4>5. FloodingOK(fl, D, T, s)
        <5> SUFFICES ASSUME NEW e \in D
                     PROVE  \E m \in Nat : \E w \in [1..m -> Stations] :
                              Carries(fl, BeginsAt(s), Past(s), T, w, m, e)
          BY <4>3 DEF FloodingOK
        <5>1. e = x
          BY <4>1
        <5> QED
          BY <5>1, <4>4
      <4>6. RoutedOK(fl, D, T, s)
        BY <4>1, <4>2 DEF RoutedOK
      <4>7. BegunOK(fl, D, T, s, y)
        BY <4>1, <4>2, <2>3 DEF BegunOK, Served
      <4>8. D \subseteq FrameSet
        BY <4>1, <4>2
      <4> QED
        BY <4>5, <4>6, <4>7, <4>8, <2>5, <2>6, <1>6, <1>8 DEF FrameInv, s
    <3>4. CASE h \notin fl.members
      <4> DEFINE x == [seq |-> f.seq, from |-> h, to |-> routes[h],
                       memberRadius |-> f.memberRadius, nonMemberRadius |-> f.nonMemberRadius]
      <4>1. D = {x} /\ routes[h] # Everyone
        BY <3>1, <3>4, <2>8 DEF RouteOf
      <4>2. <<h, routes[h]>> \in fl.links /\ routes[h] \in Stations
        BY <4>1, <1>3 DEF RoutesOK
      <4>3. /\ x \in FrameSet /\ x.from = h /\ x.to = routes[h]
            /\ x.memberRadius = fl.memberRadius /\ x.nonMemberRadius = fl.nonMemberRadius
        BY <1>2, <1>3, <3>2, <4>2 DEF FrameSet
      <4> HIDE DEF x
      <4>4. RoutedOK(fl, D, T, s)
        BY <4>1, <4>2, <4>3, <2>3, <2>4, <3>4 DEF RoutedOK
      <4>5. FloodingOK(fl, D, T, s)
        BY <4>1, <4>3 DEF FloodingOK
      <4>6. BegunOK(fl, D, T, s, y)
        <5>1. Len(s) # 0
          BY <2>3
        <5> QED
          BY <5>1, <2>3, <3>4 DEF BegunOK, Floods1
      <4>7. D \subseteq FrameSet
        BY <4>1, <4>3
      <4> QED
        BY <4>4, <4>5, <4>6, <4>7, <2>5, <2>6, <1>6, <1>8 DEF FrameInv, s
    <3> QED
      BY <3>3, <3>4
  <2> QED
    BY <2>7, <2>8
<1> QED
  BY <1>7, <1>8

\* A request.
LEMMA RequestBegins ==
  ASSUME NEW fl, FloodOK(fl), NEW routes, RoutesOK(fl, routes), NEW f \in FrameSet, f.from = Origin,
         f.to = (IF Origin \in fl.members THEN Everyone ELSE routes[Origin]),
         f.memberRadius = fl.memberRadius, f.nonMemberRadius = fl.nonMemberRadius,
         NEW S, S = {}, NEW g, g = <<>>, NEW I, I = [n \in Stations |-> 0], NEW z
  PROVE  FrameInv(fl, {f}, S, g, I, z)
<1>1. Len(g) = 0 /\ g \in Seq(Stations) /\ BeginsAt(g) = Origin /\ On(g) = {}
  BY DEF BeginsAt, On
<1>2. Floods1(fl, g)
  BY <1>1 DEF Floods1
<1>3. ToldOK(fl, S, I) /\ LegOK(fl, S, g)
  BY <1>1 DEF ToldOK, LegOK
<1>4. ReachedOK(fl, {f}, S, g, z)
  BY DEF ReachedOK
<1>5. FloodingOK(fl, {f}, S, g)
  <2>1. \E m \in Nat : \E w \in [1..m -> Stations] :
          Carries(fl, BeginsAt(g), Past(g), S, w, m, f)
    BY <1>1, FloodBegins
  <2> QED
    BY <2>1, <1>2 DEF FloodingOK
<1>6. BegunOK(fl, {f}, S, g, z)
  BY <1>1 DEF BegunOK, Served
<1>7. RoutedOK(fl, {f}, S, g)
  <2> SUFFICES ASSUME f.to # Everyone
               PROVE  Origin \notin fl.members /\ <<Origin, f.to>> \in fl.links
    BY <1>1 DEF RoutedOK
  <2>1. Origin \notin fl.members /\ f.to = routes[Origin]
    OBVIOUS
  <2> QED
    BY <2>1, NwkMulticastAssumption DEF RoutesOK
<1> QED
  BY <1>3, <1>4, <1>5, <1>6, <1>7 DEF FrameInv

\* Nothing happens to a frame while others get lost.
LEMMA FrameRests ==
  ASSUME NEW fl, NEW C, NEW S, NEW g, NEW I, NEW z, FrameInv(fl, C, S, g, I, z),
         NEW y, y = 0 => z = 0
  PROVE  FrameInv(fl, C, S, g, I, y)
<1>1. ReachedOK(fl, C, S, g, y)
  <2> SUFFICES ASSUME NEW n \in S \ On(g)
               PROVE  /\ Floods1(fl, g)
                      /\ \E m \in Nat : \E w \in [1..m -> Stations] :
                           /\ Arrives(fl, BeginsAt(g), Past(g), S, w, m, n)
                           /\ y = 0 /\ MayPass(fl, Then(w, m, n), m + 1) => Served(fl, C, S, n)
    BY DEF ReachedOK
  <2>1. /\ Floods1(fl, g)
        /\ \E m \in Nat : \E w \in [1..m -> Stations] :
             /\ Arrives(fl, BeginsAt(g), Past(g), S, w, m, n)
             /\ z = 0 /\ MayPass(fl, Then(w, m, n), m + 1) => Served(fl, C, S, n)
    BY DEF FrameInv, ReachedOK
  <2> QED
    BY <2>1
<1>2. BegunOK(fl, C, S, g, y)
  BY DEF FrameInv, BegunOK
<1> QED
  BY <1>1, <1>2 DEF FrameInv

-----------------------------------------------------------------------------
(* Where there is one way to each node, a flood of which nothing was lost  *)
(* has come wherever the radii let it.                                     *)

\* Over w there is a way to n.
RunsTo(fl, o, P, w, m, n) ==
  IsWay(fl, o, P, w, m) /\ (\A i \in 1..m : w[i] # n) /\ <<EndAt(o, w, m), n>> \in fl.links

OnlyWay(fl, o, P) ==
  \A n \in Stations \ P : \A i, j \in Nat :
    \A v \in [1..i -> Stations], w \in [1..j -> Stations] :
      RunsTo(fl, o, P, v, i, n) /\ RunsTo(fl, o, P, w, j, n) => i = j /\ v = w

\* The nodes of a way before one of its nodes are a way to it, and pass if the
\* way does.
LEMMA WayUpTo ==
  ASSUME NEW fl, NEW o, NEW P, NEW m, NEW w, IsWay(fl, o, P, w, m), MayPass(fl, w, m),
         NEW i \in Nat, i < m
  PROVE  LET u == [x \in 1..i |-> w[x]]
         IN /\ u \in [1..i -> Stations] /\ RunsTo(fl, o, P, u, i, w[i + 1])
            /\ MayPass(fl, Then(u, i, w[i + 1]), i + 1)
<1> DEFINE u == [x \in 1..i |-> w[x]]
           t == Then(u, i, w[i + 1])
<1>1. /\ m \in Nat /\ w \in [1..m -> Stations]
      /\ \A x, y \in 1..m : w[x] = w[y] => x = y
      /\ \A x \in 1..m : w[x] \notin P
      /\ \A x \in 0..(m - 1) : <<EndAt(o, w, x), w[x + 1]>> \in fl.links
  BY DEF IsWay
<1>2. /\ u \in [1..i -> Stations]
      /\ \A x \in 1..i : u[x] = w[x] /\ x \in 1..m
  BY <1>1
<1>3. \A x \in 1..(i + 1) : t[x] = w[x] /\ x \in 1..m
  BY <1>1, <1>2 DEF Then
<1> HIDE DEF u, t
<1>4. \A x \in 0..i : EndAt(o, u, x) = EndAt(o, w, x)
  BY <1>2 DEF EndAt
<1>5. IsWay(fl, o, P, u, i)
  <2>1. \A x \in 0..(i - 1) : <<EndAt(o, u, x), u[x + 1]>> \in fl.links
    <3> TAKE x \in 0..(i - 1)
    <3>1. x \in 0..i /\ x + 1 \in 1..i /\ x \in 0..(m - 1)
      BY <1>1
    <3> QED
      BY <3>1, <1>1, <1>2, <1>4
  <2>2. (\A x, y \in 1..i : u[x] = u[y] => x = y) /\ (\A x \in 1..i : u[x] \notin P)
    BY <1>1, <1>2
  <2> QED
    BY <1>2, <2>1, <2>2 DEF IsWay
<1>6. \A x \in 1..i : u[x] # w[i + 1]
  <2> TAKE x \in 1..i
  <2>1. i + 1 \in 1..m /\ x \in 1..m /\ x # i + 1 /\ u[x] = w[x]
    BY <1>1, <1>2
  <2> QED
    BY <2>1, <1>1
<1>7. <<EndAt(o, u, i), w[i + 1]>> \in fl.links
  <2>1. i \in 0..i /\ i \in 0..(m - 1)
    BY <1>1
  <2> QED
    BY <2>1, <1>1, <1>4
<1>8. ASSUME NEW M, NEW R, Short(w, m, M, R)
      PROVE  Short(t, i + 1, M, R)
  <2> SUFFICES ASSUME NEW x \in 1..(i + 1), NEW y \in 1..(i + 1), \A q \in x..y : t[q] \in M
               PROVE  y - x < R
    BY DEF Short
  <2>1. \A q \in x..y : w[q] \in M
    <3> TAKE q \in x..y
    <3>1. q \in 1..(i + 1)
      OBVIOUS
    <3> QED
      BY <3>1, <1>3
  <2>2. x \in 1..m /\ y \in 1..m
    BY <1>3
  <2> QED
    BY <2>1, <2>2, <1>8 DEF Short
<1>9. MayPass(fl, t, i + 1)
  BY <1>8 DEF MayPass
<1>10. RunsTo(fl, o, P, u, i, w[i + 1])
  BY <1>5, <1>6, <1>7 DEF RunsTo
<1> QED
  BY <1>2, <1>9, <1>10 DEF u, t

LEMMA FloodReaches ==
  ASSUME NEW fl, NEW C, C = {}, NEW S, NEW g, NEW I, FrameInv(fl, C, S, g, I, 0), Floods1(fl, g),
         OnlyWay(fl, BeginsAt(g), Past(g)), NEW m, NEW w, NEW n \in Stations \ Past(g),
         RunsTo(fl, BeginsAt(g), Past(g), w, m, n), MayPass(fl, w, m)
  PROVE  n \in S
<1> DEFINE o == BeginsAt(g)
           P == Past(g)
           X == {i \in Nat : i <= m => Served(fl, C, S, EndAt(o, w, i))}
<1>1. /\ m \in Nat /\ w \in [1..m -> Stations]
      /\ \A x \in 1..m : w[x] \notin P
      /\ \A x \in 0..(m - 1) : <<EndAt(o, w, x), w[x + 1]>> \in fl.links
      /\ <<EndAt(o, w, m), n>> \in fl.links /\ IsWay(fl, o, P, w, m)
  BY DEF RunsTo, IsWay
<1>2. \A x \in Stations \ P : x # Origin /\ x \notin On(g)
  BY DEF Past
<1>3. ReachedOK(fl, C, S, g, 0) /\ BegunOK(fl, C, S, g, 0)
  BY DEF FrameInv
<1> HIDE DEF o, P
<1>4. ASSUME NEW q, Served(fl, C, S, q)
      PROVE  \A x \in Stations \ P : <<q, x>> \in fl.links => x \in S
  BY <1>2, <1>4 DEF Served
<1>5. 0 \in X
  <2>1. Served(fl, C, S, o)
    BY <1>3 DEF BegunOK, o
  <2> QED
    BY <2>1 DEF EndAt
<1>6. ASSUME NEW i \in Nat, i \in X
      PROVE  i + 1 \in X
  <2> SUFFICES ASSUME i < m
               PROVE  Served(fl, C, S, w[i + 1])
    BY <1>1 DEF EndAt
  <2> DEFINE u == [x \in 1..i |-> w[x]]
             x == w[i + 1]
  <2>1. Served(fl, C, S, EndAt(o, w, i))
    BY <1>1, <1>6
  <2>2. i + 1 \in 1..m /\ i \in 0..(m - 1)
    BY <1>1
  <2>3. x \in Stations \ P /\ <<EndAt(o, w, i), x>> \in fl.links
    BY <1>1, <2>2
  <2>4. x \in S /\ x \notin On(g)
    BY <1>2, <1>4, <2>1, <2>3
  <2>5. /\ u \in [1..i -> Stations] /\ RunsTo(fl, o, P, u, i, x)
        /\ MayPass(fl, Then(u, i, x), i + 1)
    BY <1>1, WayUpTo
  <2> HIDE DEF u, x
  <2>6. PICK k \in Nat :
          \E v \in [1..k -> Stations] :
            /\ Arrives(fl, o, P, S, v, k, x)
            /\ 0 = 0 /\ MayPass(fl, Then(v, k, x), k + 1) => Served(fl, C, S, x)
    BY <1>3, <2>4 DEF ReachedOK, o, P
  <2>7. PICK v \in [1..k -> Stations] :
          /\ Arrives(fl, o, P, S, v, k, x)
          /\ MayPass(fl, Then(v, k, x), k + 1) => Served(fl, C, S, x)
    BY <2>6
  <2>8. RunsTo(fl, o, P, v, k, x)
    BY <2>7 DEF Arrives, RunsTo
  <2>9. OnlyWay(fl, o, P)
    BY DEF o, P
  <2>10. i = k /\ u = v
    BY <2>9, <2>3, <2>5, <2>8 DEF OnlyWay
  <2>11. Served(fl, C, S, x)
    BY <2>10, <2>7, <2>5
  <2> QED
    BY <2>11 DEF x
<1> HIDE DEF X
<1>7. \A i \in Nat : i \in X
  BY <1>5, <1>6, NatInductionSet
<1>8. Served(fl, C, S, EndAt(o, w, m))
  BY <1>1, <1>7 DEF X
<1> QED
  BY <1>1, <1>4, <1>8 DEF P

-----------------------------------------------------------------------------
(* What MulticastIsExact says, in these terms *)

Injects(w, m) == \A i, j \in 1..m : w[i] = w[j] => i = j

LEMMA InWays ==
  ASSUME NEW m \in Nat, NEW w \in [1..m -> Stations], Injects(w, m)
  PROVE  w \in Ways
<1>1. DOMAIN w = 1..m
  OBVIOUS
<1>2. w \in Injection(1..m, Stations)
  BY DEF Injection, IsInjective, Injects
<1>3. IsFiniteSet(Stations)
  BY NwkMulticastAssumption
<1>4. Cardinality(1..m) <= Cardinality(Stations)
  BY <1>2, <1>3, FS_Injection
<1>5. Cardinality(1..m) = m
  BY FS_Interval
<1>6. Cardinality(Stations) \in Nat
  BY <1>3, FS_CardinalityType
<1>7. m \in 0..Cardinality(Stations)
  BY <1>4, <1>5, <1>6
<1>8. w \in UNION {[1..k -> Stations] : k \in 0..Cardinality(Stations)}
  BY <1>7
<1> QED
  BY <1>1, <1>8 DEF Ways, Injects

LEMMA WaysAre ==
  ASSUME NEW w \in Ways
  PROVE  \E m \in Nat : w \in [1..m -> Stations] /\ Injects(w, m)
<1>1. w \in UNION {[1..k -> Stations] : k \in 0..Cardinality(Stations)}
  BY DEF Ways
<1>2. PICK m \in 0..Cardinality(Stations) : w \in [1..m -> Stations]
  BY <1>1
<1>3. \A i, j \in 1..m : w[i] = w[j] => i = j
  BY <1>2 DEF Ways
<1>4. m \in Nat
  OBVIOUS
<1> QED
  BY <1>2, <1>3, <1>4 DEF Injects

LEMMA LinksOfWay ==
  ASSUME NEW m \in Nat, NEW w \in [1..m -> Stations], NEW o \in Stations, NEW n \in Stations, NEW L
  PROVE  LET way == <<o>> \o w \o <<n>>
         IN (\A i \in 1..(Len(way) - 1) : <<way[i], way[i + 1]>> \in L)
              <=> /\ \A i \in 0..(m - 1) : <<EndAt(o, w, i), w[i + 1]>> \in L
                  /\ <<EndAt(o, w, m), n>> \in L
<1> DEFINE way == <<o>> \o w \o <<n>>
           v == <<o>> \o w
<1>1. w \in Seq(Stations) /\ Len(w) = m
  OBVIOUS
<1>2. <<o>> \in Seq(Stations) /\ <<n>> \in Seq(Stations) /\ Len(<<o>>) = 1 /\ Len(<<n>>) = 1
  OBVIOUS
<1>3. /\ v \in Seq(Stations) /\ Len(v) = m + 1
      /\ \A i \in 1..(m + 1) : v[i] = IF i <= 1 THEN o ELSE w[i - 1]
  <2>1. /\ v \in Seq(Stations) /\ Len(v) = Len(<<o>>) + Len(w)
        /\ \A i \in 1..(Len(<<o>>) + Len(w)) :
             v[i] = IF i <= Len(<<o>>) THEN <<o>>[i] ELSE w[i - Len(<<o>>)]
    BY <1>1, <1>2, ConcatProperties
  <2> QED
    BY <2>1, <1>1, <1>2
<1> HIDE DEF v
<1>4. way = v \o <<n>>
  BY DEF v
<1>5. /\ Len(way) = m + 2
      /\ \A i \in 1..(m + 2) : way[i] = IF i <= m + 1 THEN v[i] ELSE n
  <2>1. /\ Len(v \o <<n>>) = Len(v) + Len(<<n>>)
        /\ \A i \in 1..(Len(v) + Len(<<n>>)) :
             (v \o <<n>>)[i] = IF i <= Len(v) THEN v[i] ELSE <<n>>[i - Len(v)]
    BY <1>2, <1>3, ConcatProperties
  <2>2. \A i \in 1..(m + 2) : ~(i <= m + 1) => <<n>>[i - (m + 1)] = n
    <3> TAKE i \in 1..(m + 2)
    <3> HAVE ~(i <= m + 1)
    <3>1. i - (m + 1) = 1
      OBVIOUS
    <3> QED
      BY <3>1
  <2> QED
    BY <2>1, <2>2, <1>2, <1>3, <1>4
<1> HIDE DEF way
<1>6. \A i \in 0..m : way[i + 1] = EndAt(o, w, i)
  BY <1>3, <1>5 DEF EndAt
<1>7. \A i \in 0..(m - 1) : way[i + 2] = w[i + 1]
  BY <1>3, <1>5
<1>8. way[m + 2] = n
  BY <1>5
<1>9. ASSUME \A i \in 1..(m + 1) : <<way[i], way[i + 1]>> \in L
      PROVE  /\ \A i \in 0..(m - 1) : <<EndAt(o, w, i), w[i + 1]>> \in L
             /\ <<EndAt(o, w, m), n>> \in L
  <2>1. \A i \in 0..m : <<EndAt(o, w, i), way[i + 2]>> \in L
    <3> TAKE i \in 0..m
    <3>1. i + 1 \in 1..(m + 1) /\ (i + 1) + 1 = i + 2
      OBVIOUS
    <3>2. <<way[i + 1], way[i + 2]>> \in L
      BY <3>1, <1>9
    <3> QED
      BY <3>2, <1>6
  <2>2. m \in 0..m /\ (\A i \in 0..(m - 1) : i \in 0..m)
    OBVIOUS
  <2> QED
    BY <2>1, <2>2, <1>7, <1>8
<1>10. ASSUME \A i \in 0..(m - 1) : <<EndAt(o, w, i), w[i + 1]>> \in L,
              <<EndAt(o, w, m), n>> \in L
       PROVE  \A i \in 1..(m + 1) : <<way[i], way[i + 1]>> \in L
  <2> TAKE i \in 1..(m + 1)
  <2>1. i - 1 \in 0..m /\ (i - 1) + 1 = i /\ (i - 1) + 2 = i + 1
    OBVIOUS
  <2>2. way[i] = EndAt(o, w, i - 1)
    BY <2>1, <1>6
  <2>3. CASE i = m + 1
    <3>1. i - 1 = m /\ i + 1 = m + 2
      BY <2>3
    <3> QED
      BY <3>1, <2>2, <1>8, <1>10
  <2>4. CASE i # m + 1
    <3>1. i - 1 \in 0..(m - 1)
      BY <2>4
    <3>2. way[(i - 1) + 2] = w[(i - 1) + 1]
      BY <3>1, <1>7
    <3>3. <<EndAt(o, w, i - 1), w[(i - 1) + 1]>> \in L
      BY <3>1, <1>10
    <3> QED
      BY <3>2, <3>3, <2>1, <2>2
  <2> QED
    BY <2>3, <2>4
<1>11. Len(way) - 1 = m + 1
  BY <1>5
<1> QED
  BY <1>9, <1>10, <1>11 DEF way

\* The words of the specification for a leg g.
LEMMA LegWords ==
  ASSUME NEW k, leg[k] \in Seq(Stations)
  PROVE  /\ Start(k) = BeginsAt(leg[k]) /\ Passed(k) = Past(leg[k])
         /\ Flooded(k) <=> Floods1(flood, leg[k])
         /\ BeginsAt(leg[k]) \in Stations
<1> DEFINE g == leg[k]
<1>1. /\ g = <<>> <=> Len(g) = 0
      /\ DOMAIN g = 1..Len(g) /\ Len(g) \in Nat /\ (\A i \in 1..Len(g) : g[i] \in Stations)
  OBVIOUS
<1>2. Origin \in Stations
  BY NwkMulticastAssumption
<1> HIDE DEF g
<1>3. Start(k) = BeginsAt(g) /\ BeginsAt(g) \in Stations
  BY <1>1, <1>2 DEF Start, BeginsAt, g
<1>4. Passed(k) = Past(g)
  BY <1>1 DEF Passed, Past, On, g
<1>5. Flooded(k) <=> Floods1(flood, g)
  BY <1>1, <1>3 DEF Flooded, Floods1, GroupMember, g
<1> QED
  BY <1>3, <1>4, <1>5 DEF g

LEMMA RunsAre ==
  ASSUME NEW k, leg[k] \in Seq(Stations), NEW m \in Nat, NEW w \in [1..m -> Stations],
         NEW n \in Stations, Injects(w, m)
  PROVE  Runs(k, w, n) <=> RunsTo(flood, BeginsAt(leg[k]), Past(leg[k]), w, m, n)
<1> DEFINE o == BeginsAt(leg[k])
           P == Past(leg[k])
<1>1. Start(k) = o /\ Passed(k) = P /\ o \in Stations
  BY LegWords
<1>2. DOMAIN w = 1..m
  OBVIOUS
<1> HIDE DEF o, P
<1> DEFINE way == <<o>> \o w \o <<n>>
<1>3. (\A i \in 1..(Len(way) - 1) : <<way[i], way[i + 1]>> \in flood.links)
        <=> /\ \A i \in 0..(m - 1) : <<EndAt(o, w, i), w[i + 1]>> \in flood.links
            /\ <<EndAt(o, w, m), n>> \in flood.links
  BY <1>1, LinksOfWay
<1>4. Runs(k, w, n) <=>
        /\ \A i \in 1..m : w[i] \notin P \cup {n}
        /\ \A i \in 1..(Len(way) - 1) : <<way[i], way[i + 1]>> \in flood.links
  BY <1>1, <1>2 DEF Runs
<1> HIDE DEF way
<1>5. (\A i \in 1..m : w[i] \notin P \cup {n})
        <=> (\A i \in 1..m : w[i] \notin P) /\ (\A i \in 1..m : w[i] # n)
  OBVIOUS
<1>6. RunsTo(flood, o, P, w, m, n) <=>
        /\ \A i \in 1..m : w[i] \notin P
        /\ \A i \in 0..(m - 1) : <<EndAt(o, w, i), w[i + 1]>> \in flood.links
        /\ \A i \in 1..m : w[i] # n
        /\ <<EndAt(o, w, m), n>> \in flood.links
  BY DEF RunsTo, IsWay, Injects
<1> QED
  BY <1>3, <1>4, <1>5, <1>6 DEF o, P

LEMMA PassesAre ==
  ASSUME NEW m \in Nat, NEW w \in [1..m -> Stations]
  PROVE  MayRepeat(w) <=> MayPass(flood, w, m)
<1>1. DOMAIN w = 1..m
  OBVIOUS
<1>2. \A i, j \in 1..m : (\A x \in i..j : ~GroupMember(w[x])) <=> (\A x \in i..j : w[x] \in Others(flood))
  BY DEF GroupMember, Others
<1>3. \A i, j \in 1..m : (\A x \in i..j : GroupMember(w[x])) <=> (\A x \in i..j : w[x] \in flood.members)
  BY DEF GroupMember
<1>4. MayRepeat(w) <=> \A i, j \in 1..m :
        /\ (\A x \in i..j : GroupMember(w[x])) => j - i < flood.memberRadius
        /\ (\A x \in i..j : ~GroupMember(w[x])) => j - i < flood.nonMemberRadius
  BY <1>1 DEF MayRepeat
<1> QED
  BY <1>2, <1>3, <1>4 DEF MayPass, Short

\* What the property says of one number.
LEMMA FrameIsExact ==
  ASSUME NEW k \in Frames, leg[k] \in Seq(Stations), FloodOK(flood), Of(k) \subseteq carried,
         FrameInv(flood, Of(k), Saw(k), leg[k], indicated[k], lost)
  PROVE  /\ \A n \in Stations : indicated[k][n] <= 1
         /\ \A n \in Stations : indicated[k][n] = 1 => n \in ReachedBy(k)
         /\ lost = 0 /\ (\A f \in carried : f.seq # k) /\ OneWay(k)
              => \A n \in ReachedBy(k) : indicated[k][n] = 1
<1> DEFINE S == Saw(k)
           g == leg[k]
           o == BeginsAt(g)
           P == Past(g)
           M == flood.members
<1>1. /\ S \subseteq Stations \ {Origin}
      /\ \A n \in Stations : indicated[k][n] = IF n \in S /\ n \in M THEN 1 ELSE 0
  BY DEF FrameInv, ToldOK
<1>2. \A i \in 1..Len(g) : g[i] \in S /\ (i < Len(g) => g[i] \notin M)
  BY DEF FrameInv, LegOK
<1>3. ReachedOK(flood, Of(k), S, g, lost) /\ BegunOK(flood, Of(k), S, g, lost)
  BY DEF FrameInv
<1>4. Start(k) = o /\ Passed(k) = P /\ (Flooded(k) <=> Floods1(flood, g)) /\ o \in Stations
  BY LegWords
<1>5. M \subseteq Stations
  BY DEF FloodOK
<1> HIDE DEF S, o, P, M
<1>6. ASSUME NEW n \in Stations, indicated[k][n] = 1
      PROVE  n \in ReachedBy(k)
  <2>1. n \in S /\ n \in M /\ n # Origin
    BY <1>1, <1>6
  <2>2. CASE n \in On(g)
    <3>1. PICK i \in 1..Len(g) : n = g[i]
      BY <2>2 DEF On
    <3>2. Len(g) \in Nat
      OBVIOUS
    <3>3. i = Len(g) /\ Len(g) # 0
      BY <3>1, <3>2, <1>2, <2>1
    <3>4. n = o
      BY <3>1, <3>3 DEF o, BeginsAt
    <3> QED
      BY <3>4, <2>1, <1>4 DEF ReachedBy, M
  <2>3. CASE n \notin On(g)
    <3>0. /\ Floods1(flood, g)
          /\ \E m \in Nat : \E w \in [1..m -> Stations] : Arrives(flood, o, P, S, w, m, n)
      BY <1>3, <2>1, <2>3 DEF ReachedOK, o, P
    <3>1. PICK m \in Nat : \E w \in [1..m -> Stations] : Arrives(flood, o, P, S, w, m, n)
      BY <3>0
    <3>2. PICK w \in [1..m -> Stations] : Arrives(flood, o, P, S, w, m, n)
      BY <3>1
    <3>3. Injects(w, m) /\ RunsTo(flood, o, P, w, m, n) /\ MayPass(flood, w, m)
      BY <3>2 DEF Arrives, RunsTo, IsWay, Injects
    <3>4. w \in Ways
      BY <3>3, InWays
    <3>5. Leads(k, w, n)
      BY <3>3, RunsAre, PassesAre DEF Leads, o, P
    <3>6. n \notin Passed(k)
      BY <1>4, <2>1, <2>3 DEF P, Past
    <3> QED
      BY <3>0, <3>4, <3>5, <3>6, <2>1, <1>4 DEF ReachedBy, M
  <2> QED
    BY <2>2, <2>3
<1>7. ASSUME lost = 0, \A f \in carried : f.seq # k, OneWay(k), NEW n \in ReachedBy(k)
      PROVE  indicated[k][n] = 1
  <2>1. n \in M /\ n \in Stations
    BY <1>5 DEF ReachedBy, M
  <2> SUFFICES n \in S
    BY <1>1, <2>1
  <2>2. CASE n = o /\ n # Origin
    <3>1. Len(g) # 0 /\ n = g[Len(g)]
      BY <2>2 DEF o, BeginsAt
    <3>2. Len(g) \in Nat
      OBVIOUS
    <3>3. Len(g) \in 1..Len(g)
      BY <3>1, <3>2
    <3> QED
      BY <3>1, <3>3, <1>2
  <2>3. ASSUME n \notin P, Flooded(k), NEW w \in Ways, Leads(k, w, n)
        PROVE  n \in S
    <3>1. PICK m \in Nat : w \in [1..m -> Stations] /\ Injects(w, m)
      BY WaysAre
    <3>2. RunsTo(flood, o, P, w, m, n) /\ MayPass(flood, w, m)
      BY <3>1, <2>1, <2>3, RunsAre, PassesAre DEF Leads, o, P
    <3>3. OnlyWay(flood, o, P)
      <4> SUFFICES ASSUME NEW x \in Stations \ P, NEW i \in Nat, NEW j \in Nat,
                          NEW u \in [1..i -> Stations], NEW v \in [1..j -> Stations],
                          RunsTo(flood, o, P, u, i, x), RunsTo(flood, o, P, v, j, x)
                   PROVE  i = j /\ u = v
        BY DEF OnlyWay
      <4>1. Injects(u, i) /\ Injects(v, j)
        BY DEF RunsTo, IsWay, Injects
      <4>2. u \in Ways /\ v \in Ways
        BY <4>1, InWays
      <4>3. Runs(k, u, x) /\ Runs(k, v, x)
        BY <4>1, RunsAre DEF o, P
      <4>4. u = v
        BY <4>2, <4>3, <1>7, <1>4 DEF OneWay
      <4>5. 1..i = 1..j
        BY <4>4
      <4>6. i = j
        <5>1. i > 0 => i \in 1..j
          BY <4>5
        <5>2. j > 0 => j \in 1..i
          BY <4>5
        <5> QED
          BY <5>1, <5>2
      <4> QED
        BY <4>4, <4>6
    <3>4. Of(k) = {}
      BY <1>7 DEF Of
    <3>5. FrameInv(flood, Of(k), S, g, indicated[k], 0)
      BY <1>7 DEF S
    <3>6. Floods1(flood, g)
      BY <2>3, <1>4
    <3>7. n \in Stations \ P
      BY <2>1, <2>3
    <3> HIDE DEF g
    <3> QED
      BY <3>2, <3>3, <3>4, <3>5, <3>6, <3>7, FloodReaches DEF o, P
  <2> QED
    BY <2>2, <2>3, <1>4 DEF ReachedBy, M
<1>8. \A n \in Stations : indicated[k][n] <= 1
  BY <1>1
<1> QED
  BY <1>6, <1>7, <1>8

-----------------------------------------------------------------------------
(* The actions *)

LEMMA PassedOnIs ==
  ASSUME NEW f, NEW n
  PROVE  PassedOn(n, f) = IF f.to = Everyone THEN RepeatOf(flood, n, f)
                          ELSE RouteOf(flood, groupRoute, n, f)
  BY DEF PassedOn, Repeated, Routed, BroadcastFrame, GroupFrame, GroupMember, RepeatOf, RouteOf

LEMMA RoutedFrames ==
  ASSUME NEW fl, NEW routes, RoutesOK(fl, routes), NEW f \in FrameSet, NEW n \in Stations
  PROVE  \A h \in RouteOf(fl, routes, n, f) : h \in FrameSet /\ h.seq = f.seq
<1>1. /\ f.seq \in Nat /\ f.memberRadius \in Nat /\ f.nonMemberRadius \in Nat
  BY DEF FrameSet
<1>2. routes[n] # Everyone => routes[n] \in Stations
  BY DEF RoutesOK
<1> SUFFICES ASSUME NEW h \in RouteOf(fl, routes, n, f)
             PROVE  h \in FrameSet /\ h.seq = f.seq
  OBVIOUS
<1>3. CASE n \in fl.members
  <2>1. h = [seq |-> f.seq, from |-> n, to |-> Everyone,
             memberRadius |-> f.memberRadius, nonMemberRadius |-> f.nonMemberRadius]
    BY <1>3 DEF RouteOf
  <2> QED
    BY <1>1, <2>1 DEF FrameSet
<1>4. CASE n \notin fl.members
  <2>1. /\ routes[n] # Everyone
        /\ h = [seq |-> f.seq, from |-> n, to |-> routes[n],
                memberRadius |-> f.memberRadius, nonMemberRadius |-> f.nonMemberRadius]
    BY <1>4 DEF RouteOf
  <2> QED
    BY <1>1, <1>2, <2>1 DEF FrameSet
<1> QED
  BY <1>3, <1>4

LEMMA TypeMeans ==
  ASSUME MulticastTypeOK
  PROVE  /\ FloodOK(flood) /\ RoutesOK(flood, groupRoute)
         /\ IsFiniteSet(Stations) /\ Origin \in Stations /\ Everyone \notin Stations
         /\ MaxMulticasts \in Nat
         /\ \A f \in carried : f \in FrameSet /\ f.seq \in Frames /\ f.seq <= numbered
<1>1. FloodOK(flood)
  BY FloodsAssumption DEF MulticastTypeOK, FloodOK
<1>2. RoutesOK(flood, groupRoute)
  BY DEF MulticastTypeOK, RoutesOK
<1>3. \A f \in carried : f \in FrameSet /\ f.seq \in Frames /\ f.seq <= numbered
  BY NwkMulticastAssumption DEF MulticastTypeOK, Frames
<1> QED
  BY <1>1, <1>2, <1>3, NwkMulticastAssumption

LEMMA MulticastInitially == MulticastInit => MulticastInv
<1> SUFFICES ASSUME MulticastInit PROVE MulticastInv
  OBVIOUS
<1>1. /\ flood \in Floods /\ groupRoute = flood.routes
      /\ seen = [n \in Stations |-> {}] /\ carried = {} /\ routeErrors = 0 /\ numbered = 0
      /\ indicated = [k \in Frames |-> [n \in Stations |-> 0]]
      /\ leg = [k \in Frames |-> <<>>] /\ lost = 0
  BY DEF MulticastInit
<1>2. /\ groupRoute \in [Stations -> Stations \cup {Everyone}]
      /\ \A n \in Stations : groupRoute[n] # Everyone => <<n, groupRoute[n]>> \in flood.links
  BY <1>1, FloodsAssumption
<1>3. indicated \in [Frames -> [Stations -> Nat]] /\ leg \in [Frames -> Seq(Stations)]
  BY <1>1
<1>4. MulticastTypeOK
  BY <1>1, <1>2, <1>3, NwkMulticastAssumption DEF MulticastTypeOK
<1>5. EachInv
  <2> SUFFICES ASSUME NEW k \in Frames
               PROVE  IF k <= numbered
                        THEN FrameInv(flood, Of(k), Saw(k), leg[k], indicated[k], lost)
                        ELSE Saw(k) = {} /\ leg[k] = <<>> /\ indicated[k] = [n \in Stations |-> 0]
    BY DEF EachInv
  <2>1. ~(k <= numbered)
    BY <1>1 DEF Frames
  <2>2. Saw(k) = {} /\ leg[k] = <<>> /\ indicated[k] = [n \in Stations |-> 0]
    BY <1>1 DEF Saw
  <2> QED
    BY <2>1, <2>2
<1> QED
  BY <1>4, <1>5 DEF MulticastInv

LEMMA RequestKeeps ==
  ASSUME MulticastInv, NWK_MulticastReq
  PROVE  MulticastInv'
<1> DEFINE f == [seq |-> numbered + 1, from |-> Origin,
                 to |-> IF Origin \in flood.members THEN Everyone ELSE groupRoute[Origin],
                 memberRadius |-> flood.memberRadius, nonMemberRadius |-> flood.nonMemberRadius]
<1>1. /\ numbered < MaxMulticasts /\ numbered' = numbered + 1 /\ carried' = carried \cup {f}
      /\ UNCHANGED <<flood, groupRoute, seen, routeErrors, indicated, leg, lost>>
  BY DEF NWK_MulticastReq, GroupFrame, GroupMember
<1>2. MulticastTypeOK /\ EachInv
  BY DEF MulticastInv
<1>3. /\ FloodOK(flood) /\ RoutesOK(flood, groupRoute)
      /\ Origin \in Stations /\ MaxMulticasts \in Nat
      /\ \A h \in carried : h \in FrameSet /\ h.seq \in Frames /\ h.seq <= numbered
  BY <1>2, TypeMeans
<1>4. numbered \in Nat /\ numbered + 1 \in Frames
  BY <1>1, <1>2, <1>3 DEF MulticastTypeOK, Frames
<1>5. f \in FrameSet /\ f.seq = numbered + 1
  <2>1. flood.memberRadius \in Nat /\ flood.nonMemberRadius \in Nat
        /\ groupRoute[Origin] \in Stations \cup {Everyone}
    BY <1>3 DEF FloodOK, RoutesOK
  <2> QED
    BY <2>1, <1>3, <1>4 DEF FrameSet
<1>6. /\ f.from = Origin
      /\ f.to = (IF Origin \in flood.members THEN Everyone ELSE groupRoute[Origin])
      /\ f.memberRadius = flood.memberRadius /\ f.nonMemberRadius = flood.nonMemberRadius
  OBVIOUS
<1> HIDE DEF f
<1>7. MulticastTypeOK'
  <2>1. carried' \subseteq FrameSet /\ (\A h \in carried' : h.seq \in 1..numbered')
    BY <1>1, <1>2, <1>4, <1>5 DEF MulticastTypeOK
  <2>2. numbered' \in 0..MaxMulticasts
    BY <1>1, <1>4 DEF Frames
  <2> QED
    BY <2>1, <2>2, <1>1, <1>2 DEF MulticastTypeOK
<1>8. EachInv'
  <2> SUFFICES ASSUME NEW k \in Frames
               PROVE  IF k <= numbered'
                        THEN FrameInv(flood, Of(k)', Saw(k), leg[k], indicated[k], lost)
                        ELSE Saw(k) = {} /\ leg[k] = <<>> /\ indicated[k] = [n \in Stations |-> 0]
    BY <1>1 DEF EachInv, Saw, Frames
  <2>1. IF k <= numbered
          THEN FrameInv(flood, Of(k), Saw(k), leg[k], indicated[k], lost)
          ELSE Saw(k) = {} /\ leg[k] = <<>> /\ indicated[k] = [n \in Stations |-> 0]
    BY <1>2 DEF EachInv
  <2>2. CASE k = numbered + 1
    <3>1. Saw(k) = {} /\ leg[k] = <<>> /\ indicated[k] = [n \in Stations |-> 0]
      BY <2>1, <2>2, <1>4
    <3>2. Of(k)' = {f}
      BY <1>1, <1>3, <1>4, <1>5, <2>2 DEF Of
    <3>3. FrameInv(flood, {f}, Saw(k), leg[k], indicated[k], lost)
      BY <3>1, <1>3, <1>5, <1>6, RequestBegins
    <3> QED
      BY <3>2, <3>3, <2>2, <1>1, <1>4
  <2>3. CASE k # numbered + 1
    <3>1. Of(k)' = Of(k)
      BY <1>1, <1>5, <2>3 DEF Of
    <3>2. k <= numbered' <=> k <= numbered
      BY <1>1, <1>4, <2>3 DEF Frames
    <3> QED
      BY <3>1, <3>2, <2>1
  <2> QED
    BY <2>2, <2>3
<1> QED
  BY <1>7, <1>8 DEF MulticastInv

LEMMA ErrorKeeps ==
  ASSUME MulticastInv, RouteErrorEnds
  PROVE  MulticastInv'
<1>1. /\ routeErrors > 0 /\ routeErrors' = routeErrors - 1
      /\ groupRoute' \in {groupRoute, [groupRoute EXCEPT ![Origin] = Everyone]}
      /\ UNCHANGED <<flood, seen, carried, numbered, indicated, leg, lost>>
  BY DEF RouteErrorEnds
<1>2. MulticastTypeOK /\ EachInv
  BY DEF MulticastInv
<1>3. routeErrors' \in Nat
  BY <1>1, <1>2 DEF MulticastTypeOK
<1>4. /\ groupRoute' \in [Stations -> Stations \cup {Everyone}]
      /\ \A n \in Stations : groupRoute'[n] # Everyone => <<n, groupRoute'[n]>> \in flood.links
  <2>1. /\ groupRoute \in [Stations -> Stations \cup {Everyone}]
        /\ \A n \in Stations : groupRoute[n] # Everyone => <<n, groupRoute[n]>> \in flood.links
    BY <1>2 DEF MulticastTypeOK
  <2>2. CASE groupRoute' = groupRoute
    BY <2>1, <2>2
  <2>3. CASE groupRoute' = [groupRoute EXCEPT ![Origin] = Everyone]
    <3>1. groupRoute' \in [Stations -> Stations \cup {Everyone}]
      BY <2>1, <2>3
    <3>2. \A n \in Stations : groupRoute'[n] = groupRoute[n] \/ groupRoute'[n] = Everyone
      BY <2>1, <2>3
    <3> QED
      BY <2>1, <3>1, <3>2
  <2> QED
    BY <1>1, <2>2, <2>3
<1>5. MulticastTypeOK'
  BY <1>1, <1>2, <1>3, <1>4 DEF MulticastTypeOK
<1>6. EachInv'
  BY <1>1, <1>2 DEF EachInv, Of, Saw, Frames
<1> QED
  BY <1>5, <1>6 DEF MulticastInv

\* Nothing lost, nobody left out.
LEMMA CountsLost ==
  ASSUME NEW l \in Nat, NEW A, IsFiniteSet(A), NEW B, IsFiniteSet(B)
  PROVE  /\ l + Cardinality(A) + Cardinality(B) \in Nat
         /\ l + Cardinality(A) + Cardinality(B) = 0 => l = 0 /\ A = {} /\ B = {}
<1>1. Cardinality(A) \in Nat /\ Cardinality(B) \in Nat
  BY FS_CardinalityType
<1>2. (Cardinality(A) = 0 => A = {}) /\ (Cardinality(B) = 0 => B = {})
  BY FS_EmptySet
<1>3. \A a, b \in Nat : l + a + b \in Nat /\ (l + a + b = 0 => l = 0 /\ a = 0 /\ b = 0)
  OBVIOUS
<1>4. /\ l + Cardinality(A) + Cardinality(B) \in Nat
      /\ l + Cardinality(A) + Cardinality(B) = 0
           => l = 0 /\ Cardinality(A) = 0 /\ Cardinality(B) = 0
  BY <1>1, <1>3
<1> QED
  BY <1>2, <1>4

LEMMA HearKeeps ==
  ASSUME MulticastInv, NEW f \in carried, NEW hearing, hearing \subseteq InReach(f),
         NEW full, full \subseteq hearing, Hear(f, hearing, full)
  PROVE  MulticastInv'
<1> DEFINE new == {n \in hearing \ {Origin} : f.seq \notin seen[n]}
           stranded == {n \in new : f.to = n /\ ~GroupMember(n) /\ groupRoute[n] = Everyone}
           k == f.seq
           N == {n \in hearing : n # Origin /\ n \notin Saw(k)}
<1>1. /\ lost' = lost + Cardinality(InReach(f) \ hearing) + Cardinality(full)
      /\ seen' = [n \in Stations |-> IF n \in new THEN seen[n] \cup {f.seq} ELSE seen[n]]
      /\ groupRoute' = [n \in Stations |->
           IF f.to = n /\ n \in (hearing \ {Origin}) \ new THEN Everyone ELSE groupRoute[n]]
      /\ carried' = (carried \ {f}) \cup UNION {PassedOn(n, f) : n \in new \ full}
      /\ routeErrors' = routeErrors + Cardinality(stranded \ full)
      /\ indicated' = [indicated EXCEPT ![f.seq] =
           [n \in Stations |-> @[n] + IF n \in new /\ GroupMember(n) THEN 1 ELSE 0]]
      /\ leg' = IF f.to \in new THEN [leg EXCEPT ![f.seq] = Append(@, f.to)] ELSE leg
      /\ flood' = flood /\ numbered' = numbered
  BY DEF Hear
<1>2. MulticastTypeOK /\ EachInv
  BY DEF MulticastInv
<1>3. /\ FloodOK(flood) /\ RoutesOK(flood, groupRoute)
      /\ IsFiniteSet(Stations) /\ Origin \in Stations /\ Everyone \notin Stations
      /\ \A h \in carried : h \in FrameSet /\ h.seq \in Frames /\ h.seq <= numbered
  BY <1>2, TypeMeans
<1>4. f \in FrameSet /\ k \in Frames /\ k <= numbered
  BY <1>3
<1>5. InReach(f) \subseteq Stations /\ hearing \subseteq Stations /\ full \subseteq Stations
  BY DEF InReach
<1>6. N = new /\ N \subseteq Stations
  BY <1>5 DEF Saw
<1>7. /\ lost \in Nat /\ seen \in [Stations -> SUBSET Nat] /\ routeErrors \in Nat
      /\ indicated \in [Frames -> [Stations -> Nat]] /\ leg \in [Frames -> Seq(Stations)]
      /\ numbered \in 0..MaxMulticasts
  BY <1>2 DEF MulticastTypeOK
<1>8. /\ IsFiniteSet(InReach(f) \ hearing) /\ IsFiniteSet(full) /\ IsFiniteSet(stranded \ full)
  <2>1. InReach(f) \ hearing \subseteq Stations /\ stranded \ full \subseteq Stations
    BY <1>5
  <2> QED
    BY <2>1, <1>3, <1>5, FS_Subset
<1>9. /\ lost' \in Nat
      /\ lost' = 0 => lost = 0 /\ InReach(f) \ hearing = {} /\ full = {}
  BY <1>1, <1>7, <1>8, CountsLost
<1>10. routeErrors' \in Nat
  BY <1>1, <1>7, <1>8, FS_CardinalityType
<1> HIDE DEF new, stranded, N
<1>11. \A n \in N : \A h \in PassedOn(n, f) : h \in FrameSet /\ h.seq = k
  <2> TAKE n \in N
  <2>1. n \in Stations
    BY <1>6
  <2>2. \A h \in RepeatOf(flood, n, f) : h \in FrameSet /\ h.seq = k
    BY <2>1, <1>3, <1>4, RepeatedFrames
  <2>3. \A h \in RouteOf(flood, groupRoute, n, f) : h \in FrameSet /\ h.seq = k
    BY <2>1, <1>3, <1>4, RoutedFrames
  <2> QED
    BY <2>2, <2>3, PassedOnIs
<1>12. carried' = (carried \ {f}) \cup UNION {PassedOn(n, f) : n \in N \ full}
  BY <1>1, <1>6
<1>13. carried' \subseteq FrameSet /\ (\A h \in carried' : h.seq \in 1..numbered')
  <2>1. \A h \in carried' : h \in carried \/ (h \in FrameSet /\ h.seq = k)
    BY <1>11, <1>12
  <2>2. \A h \in carried : h \in FrameSet /\ h.seq \in 1..numbered
    BY <1>2 DEF MulticastTypeOK
  <2> QED
    BY <2>1, <2>2, <1>1
<1>14. /\ groupRoute' \in [Stations -> Stations \cup {Everyone}]
       /\ \A n \in Stations : groupRoute'[n] # Everyone => <<n, groupRoute'[n]>> \in flood.links
  <2>1. \A n \in Stations : groupRoute'[n] \in {groupRoute[n], Everyone}
    BY <1>1
  <2>2. groupRoute' \in [Stations -> Stations \cup {Everyone}]
    BY <1>1, <1>3 DEF RoutesOK
  <2> QED
    BY <2>1, <2>2, <1>3 DEF RoutesOK
<1>15. seen' \in [Stations -> SUBSET Nat]
  BY <1>1, <1>7, <1>4 DEF Frames
<1>16. \A j \in Frames : indicated'[j] = IF j = k THEN GetsIt(flood, indicated[k], N) ELSE indicated[j]
  BY <1>1, <1>4, <1>6, <1>7 DEF GetsIt, GroupMember
<1>17. indicated' \in [Frames -> [Stations -> Nat]]
  <2>1. GetsIt(flood, indicated[k], N) \in [Stations -> Nat]
    BY <1>4, <1>7 DEF GetsIt
  <2>2. indicated' = [j \in Frames |-> IF j = k THEN GetsIt(flood, indicated[k], N) ELSE indicated[j]]
    BY <1>1, <1>4, <1>6, <1>7 DEF GetsIt, GroupMember
  <2> QED
    BY <2>1, <2>2, <1>7
<1>18. f.to \in N => f.to \in Stations
  BY <1>6
<1>19. \A j \in Frames : leg'[j] = IF j = k THEN IF f.to \in N THEN Append(leg[k], f.to) ELSE leg[k]
                                   ELSE leg[j]
  BY <1>1, <1>4, <1>6, <1>7
<1>20. leg' \in [Frames -> Seq(Stations)]
  BY <1>1, <1>4, <1>6, <1>7, <1>18
<1>21. MulticastTypeOK'
  BY <1>1, <1>2, <1>9, <1>10, <1>13, <1>14, <1>15, <1>17, <1>20 DEF MulticastTypeOK
<1>22. \A j \in Frames : Saw(j)' = IF j = k THEN Saw(k) \cup N ELSE Saw(j)
  BY <1>1, <1>6 DEF Saw
<1>23. \A j \in Frames : j # k => Of(j)' = Of(j)
  BY <1>11, <1>12 DEF Of
<1>24. Of(k)' = (Of(k) \ {f}) \cup UNION {PassedOn(n, f) : n \in N \ full}
  BY <1>11, <1>12 DEF Of
<1>25. FrameInv(flood, Of(k), Saw(k), leg[k], indicated[k], lost)
  BY <1>2, <1>4 DEF EachInv
<1>26. f \in Of(k) /\ N = {n \in hearing : n # Origin /\ n \notin Saw(k)}
  BY DEF Of, N
<1>27. FrameInv(flood, Of(k)', Saw(k) \cup N,
                IF f.to \in N THEN Append(leg[k], f.to) ELSE leg[k],
                GetsIt(flood, indicated[k], N), lost')
  <2>1. CASE f.to = Everyone
    <3>1. InReach(f) = {n \in Stations : <<f.from, n>> \in flood.links}
      BY <2>1 DEF InReach
    <3>2. \A n : PassedOn(n, f) = RepeatOf(flood, n, f)
      BY <2>1, PassedOnIs
    <3>3. Of(k)' = (Of(k) \ {f}) \cup UNION {RepeatOf(flood, n, f) : n \in N \ full}
      BY <3>2, <1>24
    <3>4. hearing \subseteq {n \in Stations : <<f.from, n>> \in flood.links}
      BY <3>1
    <3>5. lost' = 0 => /\ lost = 0 /\ full = {}
                       /\ hearing = {n \in Stations : <<f.from, n>> \in flood.links}
      BY <3>1, <3>4, <1>9
    <3>6. f.to \notin N
      BY <2>1, <1>3, <1>18
    <3>7. FloodIsHeard(flood, Of(k), Saw(k), lost, f, hearing, full, N, Of(k)', lost')
      BY <3>3, <3>4, <3>5, <1>26 DEF FloodIsHeard
    <3>8. FrameInv(flood, Of(k)', Saw(k) \cup N, leg[k], GetsIt(flood, indicated[k], N), lost')
      BY <2>1, <3>7, <1>3, <1>25, <1>26, FloodHeard
    <3> QED
      BY <3>6, <3>8
  <2>2. CASE f.to # Everyone
    <3>1. InReach(f) = {n \in Stations : <<f.from, n>> \in flood.links /\ n = f.to}
      BY <2>2 DEF InReach
    <3>2. \A n : PassedOn(n, f) = RouteOf(flood, groupRoute, n, f)
      BY <2>2, PassedOnIs
    <3>3. Of(k)' = (Of(k) \ {f}) \cup UNION {RouteOf(flood, groupRoute, n, f) : n \in N \ full}
      BY <3>2, <1>24
    <3>4. hearing \subseteq {n \in Stations : <<f.from, n>> \in flood.links /\ n = f.to}
      BY <3>1
    <3>5. lost' = 0 => /\ full = {}
                       /\ hearing = {n \in Stations : <<f.from, n>> \in flood.links /\ n = f.to}
      BY <3>1, <3>4, <1>9
    <3>6. RouteIsHeard(flood, groupRoute, Of(k), Saw(k), f, hearing, full, N, Of(k)', lost')
      BY <3>3, <3>4, <3>5, <1>26 DEF RouteIsHeard
    <3> QED
      BY <2>2, <3>6, <1>3, <1>25, <1>26, RoutedHeard
  <2> QED
    BY <2>1, <2>2
<1>28. EachInv'
  <2> SUFFICES ASSUME NEW j \in Frames
               PROVE  IF j <= numbered
                        THEN FrameInv(flood, Of(j)', Saw(j)', leg'[j], indicated'[j], lost')
                        ELSE Saw(j)' = {} /\ leg'[j] = <<>> /\ indicated'[j] = [n \in Stations |-> 0]
    BY <1>1 DEF EachInv, Frames
  <2>1. CASE j = k
    BY <2>1, <1>4, <1>16, <1>19, <1>22, <1>27
  <2>2. CASE j # k
    <3>1. Of(j)' = Of(j) /\ Saw(j)' = Saw(j) /\ leg'[j] = leg[j] /\ indicated'[j] = indicated[j]
      BY <2>2, <1>16, <1>19, <1>22, <1>23
    <3>2. IF j <= numbered
            THEN FrameInv(flood, Of(j), Saw(j), leg[j], indicated[j], lost)
            ELSE Saw(j) = {} /\ leg[j] = <<>> /\ indicated[j] = [n \in Stations |-> 0]
      BY <1>2 DEF EachInv
    <3>3. FrameInv(flood, Of(j), Saw(j), leg[j], indicated[j], lost)
            => FrameInv(flood, Of(j), Saw(j), leg[j], indicated[j], lost')
      BY <1>9, FrameRests
    <3> QED
      BY <3>1, <3>2, <3>3
  <2> QED
    BY <2>1, <2>2
<1> QED
  BY <1>21, <1>28 DEF MulticastInv

LEMMA MulticastInvKept == MulticastInv /\ [MulticastNext]_multicastVars => MulticastInv'
<1> SUFFICES ASSUME MulticastInv, [MulticastNext]_multicastVars PROVE MulticastInv'
  OBVIOUS
<1>1. CASE NWK_MulticastReq
  BY <1>1, RequestKeeps
<1>2. CASE HearAny
  <2>1. PICK f \in carried : \E hearing \in SUBSET InReach(f) :
          \E full \in SUBSET {n \in hearing : Allocates(n, f)} : Hear(f, hearing, full)
    BY <1>2 DEF HearAny
  <2>2. PICK hearing \in SUBSET InReach(f) :
          \E full \in SUBSET {n \in hearing : Allocates(n, f)} : Hear(f, hearing, full)
    BY <2>1
  <2>3. PICK full \in SUBSET {n \in hearing : Allocates(n, f)} : Hear(f, hearing, full)
    BY <2>2
  <2>4. full \subseteq hearing /\ hearing \subseteq InReach(f)
    OBVIOUS
  <2> QED
    BY <2>3, <2>4, HearKeeps
<1>3. CASE RouteErrorEnds
  BY <1>3, ErrorKeeps
<1>4. CASE UNCHANGED multicastVars
  BY <1>4 DEF multicastVars, MulticastInv, MulticastTypeOK, EachInv, Of, Saw, Frames
<1> QED
  BY <1>1, <1>2, <1>3, <1>4 DEF MulticastNext

LEMMA InvIsExact == MulticastInv => MulticastIsExact
<1> SUFFICES ASSUME MulticastInv PROVE MulticastIsExact
  OBVIOUS
<1>1. MulticastTypeOK /\ EachInv
  BY DEF MulticastInv
<1>2. FloodOK(flood) /\ MaxMulticasts \in Nat
  BY <1>1, TypeMeans
<1> SUFFICES ASSUME NEW k \in 1..numbered
             PROVE  /\ \A n \in Stations : indicated[k][n] <= 1
                    /\ \A n \in Stations : indicated[k][n] = 1 => n \in ReachedBy(k)
                    /\ lost = 0 /\ (\A f \in carried : f.seq # k) /\ OneWay(k)
                         => \A n \in ReachedBy(k) : indicated[k][n] = 1
  BY DEF MulticastIsExact
<1>3. k \in Frames /\ k <= numbered
  BY <1>1, <1>2 DEF MulticastTypeOK, Frames
<1>4. leg[k] \in Seq(Stations)
  BY <1>1, <1>3 DEF MulticastTypeOK
<1>5. FrameInv(flood, Of(k), Saw(k), leg[k], indicated[k], lost)
  BY <1>1, <1>3 DEF EachInv
<1>6. Of(k) \subseteq carried
  BY DEF Of
<1> QED
  BY <1>2, <1>3, <1>4, <1>5, <1>6, FrameIsExact

\* Every variable has its type, and routes lead to nodes in reach.
THEOREM MulticastTypeCorrect == MulticastInit /\ [][MulticastNext]_multicastVars => []MulticastTypeOK
<1>1. MulticastInv => MulticastTypeOK
  BY DEF MulticastInv
<1> QED
  BY <1>1, MulticastInitially, MulticastInvKept, PTL

\* A member gets a frame for its group once, over a row of nodes the radii
\* allow, and nobody else gets it (nwkRxHandleReceivedFrame); when it is over
\* and nothing was lost, every member the radii allow has got it where the
\* flood had one way to each node.  For any network, group, radii and routes,
\* and any number of frames under way.
THEOREM FloodsExact == MulticastInit /\ [][MulticastNext]_multicastVars => []MulticastIsExact
  BY MulticastInitially, MulticastInvKept, InvIsExact, PTL

=============================================================================
