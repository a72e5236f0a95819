------------------------ MODULE AquilaProtocolProofs ------------------------
(***************************************************************************)
(* Proofs that the actions an event runs are those of the entries that     *)
(* were stored, and that the table is the list of EntryList, for every     *)
(* number of slots, sectors and bits, every sketch and every depth of the  *)
(* stack.                                                                  *)
(*                                                                         *)
(* An operation is a list of bytes, and wherever a reset cuts it off, the  *)
(* bits of the header give no slot whose entry was not stored              *)
(* (SoundAlways): the entry is there before its bit, and a bit that goes   *)
(* takes nothing with it.                                                  *)
(*                                                                         *)
(* A lookup keeps its place by numbers of entries: a slot's number is how  *)
(* many used slots are before it (Rank), so the iterator, as long as       *)
(* nothing is written and nobody else moves it, has passed the entries     *)
(* with smaller numbers and no other (Look).                               *)
(*                                                                         *)
(* The list is the entries of the used slots by their numbers (Shown).  A  *)
(* slot more is an entry that comes in at its number, a slot less one that *)
(* goes.  While an operation is written, what the bytes so far leave is a  *)
(* list that EntryList allows a reset to leave, and what all of them leave *)
(* is the operation done (Promising).                                      *)
(***************************************************************************)
EXTENDS AquilaProtocol, DataLemmas, FiniteSetTheorems, SequenceTheorems, WellFoundedInduction, TLAPS

-----------------------------------------------------------------------------
(* Slots and cells *)

LEMMA DivMod ==
  ASSUME NEW S \in Nat \ {0}, NEW a \in Int
  PROVE  (a % S) \in 0..(S - 1) /\ a \div S \in Int /\ a = S * (a \div S) + (a % S)
  OBVIOUS

LEMMA SlotPlace ==
  ASSUME NEW s \in Slots
  PROVE  s \div SectorBits \in Sectors /\ s % SectorBits \in Nat
<1> DEFINE B == SectorBits
           q == s \div B
<1>1. B \in Nat \ {0} /\ NSectors \in Nat \ {0} /\ s \in Int /\ 0 <= s /\ s < NSectors * B
  BY EventStoreAssumption DEF Slots
<1>2. (s % B) \in 0..(B - 1) /\ q \in Int /\ s = B * q + (s % B)
  BY <1>1, DivMod
<1> HIDE DEF q, B
<1>3. q >= 0
  <2> SUFFICES ASSUME q <= -1 PROVE FALSE
    BY <1>2
  <2>1. B * q = B * (q + 1) - B /\ B * (q + 1) <= 0
    BY <1>1, <1>2
  <2> QED
    BY <1>1, <1>2, <2>1, B * (q + 1) \in Int
<1>4. q < NSectors
  <2> SUFFICES ASSUME q >= NSectors PROVE FALSE
    BY <1>1, <1>2
  <2>1. B * q = B * NSectors + B * (q - NSectors) /\ B * (q - NSectors) >= 0
    BY <1>1, <1>2
  <2> QED
    BY <1>1, <1>2, <2>1, B * NSectors \in Int, B * (q - NSectors) \in Int
<1> QED
  BY <1>1, <1>2, <1>3, <1>4 DEF Sectors, q, B

LEMMA SameSlot ==
  ASSUME NEW s \in Slots, NEW t \in Slots,
         s \div SectorBits = t \div SectorBits, s % SectorBits = t % SectorBits
  PROVE  s = t
<1>1. SectorBits \in Nat \ {0} /\ s \in Int /\ t \in Int
  BY EventStoreAssumption DEF Slots
<1>2. /\ s = SectorBits * (s \div SectorBits) + (s % SectorBits)
      /\ t = SectorBits * (t \div SectorBits) + (t % SectorBits)
  BY <1>1, DivMod
<1> QED
  BY <1>2

Values == Conds \cup Acts \cup {Blank} \cup BOOLEAN \cup Nat \cup (SUBSET Nat)
Bytes == Cells \X Values

LEMMA AreCells ==
  /\ Signature \in Cells /\ NEntries \in Cells
  /\ \A s \in Slots : Sector(s \div SectorBits) \in Cells /\ Cond(s) \in Cells /\ Act(s) \in Cells
  /\ \A k \in Sectors : Sector(k) \in Cells
<1>1. \A s \in Slots : s \div SectorBits \in Sectors
  BY SlotPlace
<1> QED
  BY <1>1, Zenon DEF Cells

LEMMA CellsDiffer ==
  ASSUME NEW k, NEW s
  PROVE  /\ Signature # NEntries
         /\ Sector(k) \notin {Signature, NEntries} /\ Cond(s) \notin {Signature, NEntries}
         /\ Act(s) \notin {Signature, NEntries}
         /\ Sector(k) # Cond(s) /\ Sector(k) # Act(s) /\ Cond(k) # Act(s)
         /\ (Sector(k) = Sector(s) => k = s) /\ (Cond(k) = Cond(s) => k = s)
         /\ (Act(k) = Act(s) => k = s)
  BY DEF Signature, NEntries, Sector, Cond, Act

-----------------------------------------------------------------------------
(* What the EEPROM is once some of the bytes are written *)

\* No cell is written twice.
Distinct(t) == \A j, k \in DOMAIN t : t[j][1] = t[k][1] => j = k
After(e, t, i) ==
  [c \in Cells |-> IF \E j \in 1..i : t[j][1] = c
                     THEN t[CHOOSE j \in 1..i : t[j][1] = c][2] ELSE e[c]]

LEMMA AfterIs ==
  ASSUME NEW e, NEW t \in Seq(Bytes), Distinct(t), NEW i \in 0..Len(t)
  PROVE  /\ \A j \in 1..i : After(e, t, i)[t[j][1]] = t[j][2]
         /\ \A c \in Cells : (\A j \in 1..i : t[j][1] # c) => After(e, t, i)[c] = e[c]
<1>1. ASSUME NEW j \in 1..i PROVE After(e, t, i)[t[j][1]] = t[j][2]
  <2> DEFINE k == CHOOSE k \in 1..i : t[k][1] = t[j][1]
  <2>1. k \in 1..i /\ t[k][1] = t[j][1]
    OBVIOUS
  <2>2. DOMAIN t = 1..Len(t) /\ k \in DOMAIN t /\ j \in DOMAIN t
    BY <2>1
  <2>3. k = j
    BY <2>1, <2>2 DEF Distinct
  <2>4. t[j] \in Bytes /\ t[j][1] \in Cells
    BY <2>2 DEF Bytes
  <2> QED
    BY <2>1, <2>3, <2>4 DEF After
<1>2. ASSUME NEW c \in Cells, \A j \in 1..i : t[j][1] # c PROVE After(e, t, i)[c] = e[c]
  BY <1>2 DEF After
<1> QED
  BY <1>1, <1>2

\* One byte further.
LEMMA AfterByte ==
  ASSUME NEW e, e = [c \in Cells |-> e[c]], NEW t \in Seq(Bytes), Distinct(t), t # <<>>,
         NEW i \in 0..Len(Tail(t))
  PROVE  /\ After([e EXCEPT ![t[1][1]] = t[1][2]], Tail(t), i) = After(e, t, i + 1)
         /\ Tail(t) \in Seq(Bytes) /\ Len(Tail(t)) = Len(t) - 1 /\ Distinct(Tail(t))
         /\ \A j \in 1..Len(Tail(t)) : Tail(t)[j] = t[j + 1]
<1> DEFINE f == [e EXCEPT ![t[1][1]] = t[1][2]]
           u == Tail(t)
<1>1. /\ u \in Seq(Bytes) /\ Len(u) = Len(t) - 1 /\ Len(t) \in Nat \ {0}
      /\ DOMAIN t = 1..Len(t) /\ DOMAIN u = 1..Len(u)
      /\ \A j \in 1..Len(u) : u[j] = t[j + 1]
  OBVIOUS
<1> HIDE DEF u, f
<1>2. Distinct(u)
  <2> SUFFICES ASSUME NEW j \in DOMAIN u, NEW k \in DOMAIN u, u[j][1] = u[k][1] PROVE j = k
    BY DEF Distinct
  <2>1. j + 1 \in DOMAIN t /\ k + 1 \in DOMAIN t /\ t[j + 1][1] = t[k + 1][1]
    BY <1>1
  <2>2. j \in Nat /\ k \in Nat
    BY <1>1
  <2>3. j + 1 = k + 1
    BY <2>1, Zenon DEF Distinct
  <2> QED
    BY <2>2, <2>3
<1>3. t[1] \in Bytes /\ t[1][1] \in Cells
  BY <1>1 DEF Bytes
<1>4. i \in 0..Len(u) /\ i + 1 \in 0..Len(t)
  BY <1>1 DEF u
<1>0. /\ \A j \in 1..i : After(f, u, i)[u[j][1]] = u[j][2]
      /\ \A c \in Cells : (\A j \in 1..i : u[j][1] # c) => After(f, u, i)[c] = f[c]
  BY <1>1, <1>2, <1>4, AfterIs, Zenon
<1>5. ASSUME NEW c \in Cells PROVE After(f, u, i)[c] = After(e, t, i + 1)[c]
  <2>1. CASE \E j \in 1..i : u[j][1] = c
    <3>1. PICK j \in 1..i : u[j][1] = c
      BY <2>1
    <3>2. After(f, u, i)[c] = u[j][2]
      BY <1>0, <3>1
    <3>3. u[j] = t[j + 1] /\ j + 1 \in 1..(i + 1)
      BY <1>1, <1>4, <3>1
    <3>4. After(e, t, i + 1)[c] = t[j + 1][2]
      BY <1>4, <3>1, <3>3, AfterIs
    <3> QED
      BY <3>2, <3>3, <3>4
  <2>2. CASE (\A j \in 1..i : u[j][1] # c) /\ t[1][1] = c
    <3>1. After(f, u, i)[c] = f[c]
      BY <1>0, <2>2
    <3>2. f[c] = t[1][2]
      BY <1>3, <2>2 DEF f
    <3>3. 1 \in 1..(i + 1)
      BY <1>4
    <3>4. After(e, t, i + 1)[t[1][1]] = t[1][2]
      BY <1>4, <3>3, AfterIs
    <3> QED
      BY <2>2, <3>1, <3>2, <3>4
  <2>3. CASE (\A j \in 1..i : u[j][1] # c) /\ t[1][1] # c
    <3>1. After(f, u, i)[c] = f[c]
      BY <1>0, <2>3
    <3>2. f[c] = e[c]
      BY <1>3, <2>3 DEF f
    <3>3. ASSUME NEW j \in 1..(i + 1) PROVE t[j][1] # c
      <4>1. CASE j = 1
        BY <2>3, <4>1
      <4>2. CASE j # 1
        <5>1. j - 1 \in 1..i /\ j - 1 \in 1..Len(u) /\ (j - 1) + 1 = j
          BY <1>4, <4>2
        <5>2. u[j - 1] = t[j]
          BY <1>1, <5>1
        <5> QED
          BY <2>3, <5>1, <5>2
      <4> QED
        BY <4>1, <4>2
    <3>4. After(e, t, i + 1)[c] = e[c]
      BY <1>4, <3>3, AfterIs
    <3> QED
      BY <3>1, <3>2, <3>4
  <2> QED
    BY <2>1, <2>2, <2>3
<1>6. After(f, u, i) = After(e, t, i + 1)
  <2>1. DOMAIN After(f, u, i) = Cells /\ DOMAIN After(e, t, i + 1) = Cells
    BY DEF After
  <2>2. /\ After(f, u, i) = [c \in Cells |-> After(f, u, i)[c]]
        /\ After(e, t, i + 1) = [c \in Cells |-> After(e, t, i + 1)[c]]
    BY DEF After
  <2> QED
    BY <1>5, <2>2
<1> QED
  BY <1>1, <1>2, <1>6 DEF u, f

-----------------------------------------------------------------------------
(* What the operations write *)

Bits(used, k) == {s % SectorBits : s \in {t \in used : t \div SectorBits = k}}
HasBit(e, s) == s % SectorBits \in e[Sector(s \div SectorBits)]

LEMMA BitsTell ==
  ASSUME NEW used \in SUBSET Slots, NEW s \in Slots
  PROVE  s % SectorBits \in Bits(used, s \div SectorBits) <=> s \in used
  BY SameSlot DEF Bits

LEMMA TwoElements ==
  ASSUME NEW S, NEW x \in S, NEW y \in S
  PROVE  <<x, y>> \in Seq(S) /\ Len(<<x, y>>) = 2 /\ <<x, y>>[1] = x /\ <<x, y>>[2] = y
  OBVIOUS

LEMMA HeaderIs ==
  ASSUME NEW count \in Nat, NEW used \in SUBSET Slots
  PROVE  LET h == Header(count, used)
         IN  /\ h \in Seq(Bytes) /\ Len(h) = NSectors + 2
             /\ h[1] = <<Signature, TRUE>> /\ h[2] = <<NEntries, count>>
             /\ \A j \in 3..(NSectors + 2) : h[j] = <<Sector(j - 3), Bits(used, j - 3)>>
<1> DEFINE a == <<<<Signature, TRUE>>, <<NEntries, count>>>>
           b == [k \in 1..NSectors |-> <<Sector(k - 1), Bits(used, k - 1)>>]
           h == Header(count, used)
<1>1. Header(count, used) = a \o b
  BY DEF Header, Bits
<1>2. <<Signature, TRUE>> \in Bytes /\ <<NEntries, count>> \in Bytes
  BY AreCells DEF Bytes, Values
<1>3. a \in Seq(Bytes) /\ Len(a) = 2 /\ a[1] = <<Signature, TRUE>> /\ a[2] = <<NEntries, count>>
  BY <1>2, TwoElements, Zenon
<1>4. NSectors \in Nat
  BY EventStoreAssumption
<1>5. ASSUME NEW k \in 1..NSectors PROVE <<Sector(k - 1), Bits(used, k - 1)>> \in Bytes
  <2>1. k - 1 \in Sectors
    BY <1>4 DEF Sectors
  <2>2. Sector(k - 1) \in Cells
    BY <2>1, AreCells
  <2>3. Bits(used, k - 1) \in SUBSET Nat
    BY SlotPlace DEF Bits
  <2> QED
    BY <2>2, <2>3 DEF Bytes, Values
<1>6. b \in [1..NSectors -> Bytes]
  BY <1>5
<1>7. b \in Seq(Bytes) /\ Len(b) = NSectors
  BY <1>4, <1>6
<1>8. \A k \in 1..NSectors : b[k] = <<Sector(k - 1), Bits(used, k - 1)>>
  OBVIOUS
<1> HIDE DEF a, b
<1>9. /\ a \o b \in Seq(Bytes) /\ Len(a \o b) = 2 + NSectors
      /\ \A j \in 1..(2 + NSectors) : (a \o b)[j] = IF j <= 2 THEN a[j] ELSE b[j - 2]
  <2>1. /\ a \o b \in Seq(Bytes) /\ Len(a \o b) = Len(a) + Len(b)
        /\ \A j \in 1..(Len(a) + Len(b)) : (a \o b)[j] = IF j <= Len(a) THEN a[j] ELSE b[j - Len(a)]
    BY <1>3, <1>7, ConcatProperties, Zenon
  <2> QED
    BY <1>3, <1>7, <2>1
<1>10. ASSUME NEW j \in 3..(NSectors + 2) PROVE (a \o b)[j] = <<Sector(j - 3), Bits(used, j - 3)>>
  <2>1. j - 2 \in 1..NSectors /\ (j - 2) - 1 = j - 3 /\ j \in 1..(2 + NSectors) /\ ~(j <= 2)
    BY <1>4
  <2>2. (a \o b)[j] = b[j - 2]
    BY <1>9, <2>1
  <2> QED
    BY <1>8, <2>1, <2>2
<1> QED
  <2>1. h = a \o b
    BY <1>1 DEF h
  <2>2. Len(h) = NSectors + 2 /\ h[1] = a[1] /\ h[2] = a[2]
    BY <1>4, <1>9, <2>1
  <2> HIDE DEF h
  <2>3. /\ h \in Seq(Bytes) /\ Len(h) = NSectors + 2
        /\ h[1] = <<Signature, TRUE>> /\ h[2] = <<NEntries, count>>
        /\ \A j \in 3..(NSectors + 2) : h[j] = <<Sector(j - 3), Bits(used, j - 3)>>
    BY <1>3, <1>9, <1>10, <2>1, <2>2, Zenon
  <2> QED
    BY <2>3 DEF h

\* What is known of bytes that end with a header.
EndsWithHeader(t, pre, count, used, e, i) ==
  /\ t \in Seq(Bytes) /\ Len(t) = Len(pre) + NSectors + 2 /\ Distinct(t)
  /\ \A j \in 1..Len(pre) : t[j] = pre[j]
  /\ \A j \in 1..Len(t) : t[j][1] = NEntries => t[j][2] = count
  /\ After(e, t, i)[Signature] = IF i >= Len(pre) + 1 THEN TRUE ELSE e[Signature]
  /\ After(e, t, i)[NEntries] = IF i >= Len(pre) + 2 THEN count ELSE e[NEntries]
  /\ \A s \in Slots : HasBit(After(e, t, i), s) <=>
       IF i >= Len(pre) + 3 + (s \div SectorBits) THEN s \in used ELSE HasBit(e, s)
  /\ i = Len(t) => \A s \in Slots : HasBit(After(e, t, i), s) => s \in used
  /\ \A s \in Slots :
       /\ (\A j \in 1..Len(pre) : t[j][1] # Cond(s)) => After(e, t, i)[Cond(s)] = e[Cond(s)]
       /\ (\A j \in 1..Len(pre) : t[j][1] # Act(s)) => After(e, t, i)[Act(s)] = e[Act(s)]

\* An entry and then the header, or the header alone.
LEMMA WithHeader ==
  ASSUME NEW pre \in Seq(Bytes), NEW count \in Nat, NEW used \in SUBSET Slots,
         \A j \in DOMAIN pre : \E s \in Slots : pre[j][1] \in {Cond(s), Act(s)},
         Distinct(pre), NEW e, NEW i \in 0..(Len(pre) + NSectors + 2)
  PROVE  EndsWithHeader(pre \o Header(count, used), pre, count, used, e, i)
<1> DEFINE t == pre \o Header(count, used)
           p == Len(pre)
           h == Header(count, used)
<1>1. /\ h \in Seq(Bytes) /\ Len(h) = NSectors + 2
      /\ h[1] = <<Signature, TRUE>> /\ h[2] = <<NEntries, count>>
      /\ \A j \in 3..(NSectors + 2) : h[j] = <<Sector(j - 3), Bits(used, j - 3)>>
  BY HeaderIs, Zenon
<1> HIDE DEF h
<1>2. NSectors \in Nat \ {0} /\ p \in Nat /\ DOMAIN pre = 1..p
  BY EventStoreAssumption
<1>3. /\ t \in Seq(Bytes) /\ Len(t) = p + (NSectors + 2)
      /\ \A j \in 1..(p + (NSectors + 2)) : t[j] = IF j <= p THEN pre[j] ELSE h[j - p]
  <2>1. /\ pre \o h \in Seq(Bytes) /\ Len(pre \o h) = Len(pre) + Len(h)
        /\ \A j \in 1..(Len(pre) + Len(h)) : (pre \o h)[j] = IF j <= Len(pre) THEN pre[j] ELSE h[j - Len(pre)]
    BY <1>1, ConcatProperties, Zenon
  <2>2. t = pre \o h
    BY DEF h
  <2> QED
    BY <1>1, <2>1, <2>2
<1>4. /\ t[p + 1] = <<Signature, TRUE>> /\ t[p + 2] = <<NEntries, count>>
      /\ \A k \in Sectors : t[p + 3 + k] = <<Sector(k), Bits(used, k)>>
  <2>1. p + 1 \in 1..(p + (NSectors + 2)) /\ ~(p + 1 <= p) /\ (p + 1) - p = 1
    BY <1>2
  <2>2. p + 2 \in 1..(p + (NSectors + 2)) /\ ~(p + 2 <= p) /\ (p + 2) - p = 2
    BY <1>2
  <2>3. ASSUME NEW k \in Sectors PROVE t[p + 3 + k] = <<Sector(k), Bits(used, k)>>
    <3>1. /\ p + 3 + k \in 1..(p + (NSectors + 2)) /\ ~(p + 3 + k <= p)
          /\ (p + 3 + k) - p = 3 + k /\ 3 + k \in 3..(NSectors + 2) /\ (3 + k) - 3 = k
      <4>1. k \in Nat /\ k <= NSectors - 1
        BY <1>2 DEF Sectors
      <4> QED
        BY <1>2, <4>1
    <3> QED
      BY <1>1, <1>3, <3>1
  <2> QED
    BY <1>1, <1>3, <2>1, <2>2, <2>3
<1>5. \A j \in 1..p : t[j] = pre[j]
  BY <1>2, <1>3
<1>6. DOMAIN t = 1..(p + NSectors + 2) /\ Len(t) = p + NSectors + 2
  BY <1>2, <1>3
<1>7. ASSUME NEW j \in DOMAIN t
      PROVE  \/ j \in 1..p
             \/ j = p + 1
             \/ j = p + 2
             \/ \E k \in Sectors : j = p + 3 + k
  <2>1. CASE j >= p + 3
    <3>1. j - p - 3 \in Sectors /\ j = p + 3 + (j - p - 3)
      BY <1>2, <1>6, <2>1 DEF Sectors
    <3> QED
      BY <3>1
  <2>2. CASE ~(j >= p + 3)
    BY <1>2, <1>6, <2>2
  <2> QED
    BY <2>1, <2>2
<1> HIDE DEF t, p
<1>8. ASSUME NEW j \in 1..p
      PROVE  \E s \in Slots : t[j][1] \in {Cond(s), Act(s)}
  BY <1>2, <1>5, <1>8
<1>9. Distinct(t)
  <2> SUFFICES ASSUME NEW j \in DOMAIN t, NEW m \in DOMAIN t, t[j][1] = t[m][1] PROVE j = m
    BY DEF Distinct
  <2>1. CASE j \in 1..p
    <3>1. PICK s \in Slots : t[j][1] \in {Cond(s), Act(s)}
      BY <1>8, <2>1
    <3>2. m # p + 1 /\ m # p + 2
      BY <1>4, <3>1, CellsDiffer
    <3>3. \A k \in Sectors : m # p + 3 + k
      BY <1>4, <3>1, CellsDiffer
    <3>4. m \in 1..p
      BY <1>7, <3>2, <3>3
    <3> QED
      BY <1>2, <1>5, <2>1, <3>4 DEF Distinct
  <2>2. CASE m \in 1..p
    <3>1. PICK s \in Slots : t[m][1] \in {Cond(s), Act(s)}
      BY <1>8, <2>2
    <3>2. j # p + 1 /\ j # p + 2
      BY <1>4, <3>1, CellsDiffer
    <3>3. \A k \in Sectors : j # p + 3 + k
      BY <1>4, <3>1, CellsDiffer
    <3>4. j \in 1..p
      BY <1>7, <3>2, <3>3
    <3> QED
      BY <2>1, <3>4
  <2>3. CASE j \notin 1..p /\ m \notin 1..p
    <3>1. CASE j \in {p + 1, p + 2} \/ m \in {p + 1, p + 2}
      BY <1>4, <1>7, <2>3, <3>1, CellsDiffer
    <3>2. CASE j \notin {p + 1, p + 2} /\ m \notin {p + 1, p + 2}
      <4>1. PICK k \in Sectors, l \in Sectors : j = p + 3 + k /\ m = p + 3 + l
        BY <1>7, <2>3, <3>2
      <4>2. t[j] = <<Sector(k), Bits(used, k)>> /\ t[m] = <<Sector(l), Bits(used, l)>>
        BY <1>4, <4>1
      <4>3. k = l
        BY <4>2, CellsDiffer
      <4> QED
        BY <4>1, <4>3
    <3> QED
      BY <3>1, <3>2
  <2> QED
    BY <2>1, <2>2, <2>3
<1>10. ASSUME NEW j \in 1..Len(t), t[j][1] = NEntries PROVE t[j][2] = count
  <2>1. j \notin 1..p
    BY <1>8, <1>10, CellsDiffer
  <2>2. j # p + 1 /\ \A k \in Sectors : j # p + 3 + k
    BY <1>4, <1>10, CellsDiffer
  <2>3. j = p + 2
    BY <1>6, <1>7, <2>1, <2>2
  <2> QED
    BY <1>4, <2>3
<1>11. i \in 0..Len(t)
  BY <1>6 DEF p
<1>a. t \in Seq(Bytes) /\ Distinct(t) /\ i \in 0..Len(t)
  BY <1>3, <1>9, <1>11
<1>b. /\ \A j \in 1..i : After(e, t, i)[t[j][1]] = t[j][2]
      /\ \A c \in Cells : (\A j \in 1..i : t[j][1] # c) => After(e, t, i)[c] = e[c]
  BY <1>a, AfterIs, Zenon
<1>12. ASSUME NEW s \in Slots
       PROVE  HasBit(After(e, t, i), s) <=>
                IF i >= p + 3 + (s \div SectorBits) THEN s \in used ELSE HasBit(e, s)
  <2> DEFINE k == s \div SectorBits
  <2>1. k \in Sectors /\ Sector(k) \in Cells /\ k \in Nat /\ k < NSectors
    BY <1>2, SlotPlace, AreCells DEF Sectors
  <2>2. CASE i >= p + 3 + k
    <3>1. p + 3 + k \in 1..i
      BY <1>2, <1>11, <1>6, <2>1, <2>2
    <3>2. After(e, t, i)[t[p + 3 + k][1]] = t[p + 3 + k][2]
      BY <3>1, <1>b
    <3>3. After(e, t, i)[Sector(k)] = Bits(used, k)
      BY <1>4, <2>1, <3>2
    <3> QED
      BY <2>2, <3>3, BitsTell DEF HasBit
  <2>3. CASE ~(i >= p + 3 + k)
    <3>1. ASSUME NEW j \in 1..i PROVE t[j][1] # Sector(k)
      <4>1. j \in DOMAIN t /\ j # p + 3 + k
        BY <1>2, <1>6, <1>11, <2>1, <2>3
      <4>2. CASE j \in 1..p
        BY <1>8, <4>2, CellsDiffer
      <4>3. CASE j \notin 1..p
        <5>1. CASE \E l \in Sectors : j = p + 3 + l
          BY <1>4, <4>1, <5>1, CellsDiffer
        <5>2. CASE j \in {p + 1, p + 2}
          BY <1>4, <5>2, CellsDiffer
        <5> QED
          BY <1>7, <4>1, <4>3, <5>1, <5>2
      <4> QED
        BY <4>2, <4>3
    <3>2. After(e, t, i)[Sector(k)] = e[Sector(k)]
      BY <1>3, <1>9, <1>11, <2>1, <3>1, AfterIs
    <3> QED
      BY <2>3, <3>2 DEF HasBit
  <2> QED
    BY <2>2, <2>3
<1>13. ASSUME i = Len(t), NEW s \in Slots, HasBit(After(e, t, i), s) PROVE s \in used
  <2>1. s \div SectorBits \in 0..(NSectors - 1)
    BY SlotPlace DEF Sectors
  <2>2. i >= p + 3 + (s \div SectorBits)
    BY <1>2, <1>6, <1>13, <2>1
  <2> QED
    BY <1>12, <1>13, <2>2
<1>14. ASSUME NEW c \in Cells, \E s \in Slots : c \in {Cond(s), Act(s)}, \A j \in 1..p : t[j][1] # c
       PROVE  After(e, t, i)[c] = e[c]
  <2>1. ASSUME NEW j \in 1..i PROVE t[j][1] # c
    <3>1. j \in DOMAIN t
      BY <1>6, <1>11
    <3>2. CASE j \in 1..p
      BY <1>14, <3>2
    <3>3. CASE \E l \in Sectors : j = p + 3 + l
      BY <1>4, <1>14, <3>3, CellsDiffer
    <3>4. CASE j \in {p + 1, p + 2}
      BY <1>4, <1>14, <3>4, CellsDiffer
    <3> QED
      BY <1>7, <3>1, <3>2, <3>3, <3>4
  <2> QED
    BY <1>3, <1>9, <1>11, <2>1, AfterIs
<1>15. \A s \in Slots : Cond(s) \in Cells /\ Act(s) \in Cells
  BY AreCells
<1>17. ASSUME NEW c, NEW m \in {1, 2}, c = IF m = 1 THEN Signature ELSE NEntries
       PROVE  After(e, t, i)[c] = IF i >= p + m THEN t[p + m][2] ELSE e[c]
  <2>0. c \in Cells /\ t[p + m][1] = c
    BY <1>4, <1>17, AreCells
  <2>1. CASE i >= p + m
    <3>1. p + m \in 1..i
      BY <1>2, <1>11, <1>6, <2>1
    <3> QED BY <1>b, <2>0, <2>1, <3>1
  <2>2. CASE ~(i >= p + m)
    <3>1. ASSUME NEW j \in 1..i PROVE t[j][1] # c
      <4>1. j \in DOMAIN t /\ j # p + m
        BY <1>2, <1>6, <1>11, <2>2
      <4>2. CASE j \in 1..p
        BY <1>8, <1>17, <4>2, CellsDiffer
      <4>3. CASE \E l \in Sectors : j = p + 3 + l
        BY <1>4, <1>17, <4>3, CellsDiffer
      <4>4. CASE j \in {p + 1, p + 2}
        BY <1>4, <1>17, <4>1, <4>4, CellsDiffer
      <4> QED BY <1>7, <4>1, <4>2, <4>3, <4>4
    <3> QED BY <1>b, <2>0, <2>2, <3>1
  <2> QED BY <2>1, <2>2
<1>18. /\ After(e, t, i)[Signature] = IF i >= p + 1 THEN TRUE ELSE e[Signature]
       /\ After(e, t, i)[NEntries] = IF i >= p + 2 THEN count ELSE e[NEntries]
  <2>1. After(e, t, i)[Signature] = IF i >= p + 1 THEN t[p + 1][2] ELSE e[Signature]
    <3>1. 1 \in {1, 2} /\ Signature = IF 1 = 1 THEN Signature ELSE NEntries
      OBVIOUS
    <3> QED BY <1>17, <3>1
  <2>2. After(e, t, i)[NEntries] = IF i >= p + 2 THEN t[p + 2][2] ELSE e[NEntries]
    <3>1. 2 \in {1, 2} /\ NEntries = IF 2 = 1 THEN Signature ELSE NEntries
      OBVIOUS
    <3> QED BY <1>17, <3>1
  <2>3. t[p + 1][2] = TRUE /\ t[p + 2][2] = count
    BY <1>4
  <2> QED BY <2>1, <2>2, <2>3, Zenon
<1>16. ASSUME NEW s \in Slots
       PROVE  /\ (\A j \in 1..p : t[j][1] # Cond(s)) => After(e, t, i)[Cond(s)] = e[Cond(s)]
              /\ (\A j \in 1..p : t[j][1] # Act(s)) => After(e, t, i)[Act(s)] = e[Act(s)]
  BY <1>14, <1>15
<1> QED
  <2>1. EndsWithHeader(t, pre, count, used, e, i)
    BY <1>3, <1>5, <1>6, <1>9, <1>10, <1>12, <1>13, <1>16, <1>18, Zenon DEF p, EndsWithHeader
  <2> QED
    BY <2>1 DEF t

\* A byte of what is written: an entry whose condition can happen is one that
\* "may" says the slot holds.
SoundFor(e, may) ==
  \A s \in Slots : HasBit(e, s) /\ e[Cond(s)] \in Conds =>
                     [cond |-> e[Cond(s)], act |-> e[Act(s)]] \in may[s]
AllSound(t, may) == \A i \in 0..Len(t) : SoundFor(After(eeprom, t, i), may)
EndSound(t, may) == SoundFor(After(eeprom, t, Len(t)), may)

IsEeprom(e) == e = [c \in Cells |-> e[c]] /\ e[NEntries] \in 0..255
IsMay(may) == may = [s \in Slots |-> may[s]]

\* What a list of bytes to write is, wherever it is cut off.
Sane(t) ==
  /\ t \in Seq(Bytes) /\ Distinct(t)
  /\ \A j \in DOMAIN t : t[j][1] = NEntries => t[j][2] \in 0..255

LEMMA Nothing ==
  /\ <<>> \in Seq(Bytes) /\ Len(<<>>) = 0 /\ DOMAIN <<>> = {} /\ Distinct(<<>>)
  BY DEF Distinct

\* A header of fewer entries, or none: whatever is left out is as it was.
LEMMA ShrinkIsSound ==
  ASSUME IsEeprom(eeprom), NEW may, NEW after, SoundFor(eeprom, may),
         NEW count \in 0..255, NEW used \in SUBSET Used,
         \A s \in used : after[s] = may[s]
  PROVE  LET t == Header(count, used)
         IN  Sane(t) /\ t # <<>> /\ AllSound(t, may) /\ EndSound(t, after)
<1>0. PICK pre \in Seq(Bytes) : pre = <<>> /\ Len(pre) = 0 /\ DOMAIN pre = {} /\ Distinct(pre)
  BY Nothing
<1> DEFINE h == Header(count, used)
           t == pre \o h
<1>1. used \in SUBSET Slots /\ count \in Nat /\ NSectors \in Nat
  BY EventStoreAssumption DEF Used
<1>2. h \in Seq(Bytes) /\ Len(h) = NSectors + 2
  BY <1>1, HeaderIs, Zenon
<1>3. t = h
  <2> HIDE DEF h
  <2> QED
    BY <1>0, <1>2
<1>4. ASSUME NEW i \in 0..Len(t)
      PROVE  /\ Distinct(t) /\ \A j \in 1..Len(t) : t[j][1] = NEntries => t[j][2] = count
             /\ \A s \in Slots : HasBit(After(eeprom, t, i), s) => HasBit(eeprom, s) \/ s \in used
             /\ i = Len(t) => \A s \in Slots : HasBit(After(eeprom, t, i), s) => s \in used
             /\ \A s \in Slots : /\ After(eeprom, t, i)[Cond(s)] = eeprom[Cond(s)]
                                 /\ After(eeprom, t, i)[Act(s)] = eeprom[Act(s)]
  <2>1. i \in 0..(Len(pre) + NSectors + 2)
    <3> HIDE DEF t, h
    <3> QED
      BY <1>0, <1>1, <1>2, <1>3
  <2>2. \A j \in DOMAIN pre : \E s \in Slots : pre[j][1] \in {Cond(s), Act(s)}
    BY <1>0
  <2>3. EndsWithHeader(t, pre, count, used, eeprom, i)
    BY <1>0, <1>1, <2>1, <2>2, WithHeader, Zenon
  <2>4. 1..Len(pre) = {}
    BY <1>0
  <2> HIDE DEF t
  <2> QED
    BY <1>0, <2>3, <2>4 DEF EndsWithHeader
<1> HIDE DEF t
<1>5. t \in Seq(Bytes) /\ Len(t) = NSectors + 2 /\ DOMAIN t = 1..Len(t)
  BY <1>2, <1>3
<1>6. Sane(t) /\ t # <<>>
  <2>1. 0 \in 0..Len(t)
    BY <1>1, <1>5
  <2>2. Distinct(t) /\ \A j \in 1..Len(t) : t[j][1] = NEntries => t[j][2] = count
    BY <1>4, <2>1
  <2> QED
    <3>1. t # <<>>
      BY <1>1, <1>5
    <3>2. ASSUME NEW j \in DOMAIN t, t[j][1] = NEntries PROVE t[j][2] \in 0..255
      <4>1. j \in 1..Len(t)
        BY <1>5
      <4>2. t[j][2] = count
        BY <2>2, <3>2, <4>1
      <4> QED
        BY <4>2
    <3> QED
      BY <1>5, <2>2, <3>1, <3>2 DEF Sane
<1>7. \A s \in Slots : s \in Used <=> HasBit(eeprom, s)
  BY DEF Used, HasBit
<1>8. AllSound(t, may)
  <2> SUFFICES ASSUME NEW i \in 0..Len(t), NEW s \in Slots, HasBit(After(eeprom, t, i), s),
                      After(eeprom, t, i)[Cond(s)] \in Conds
               PROVE  [cond |-> After(eeprom, t, i)[Cond(s)], act |-> After(eeprom, t, i)[Act(s)]] \in may[s]
    BY Zenon DEF AllSound, SoundFor
  <2>1. HasBit(eeprom, s)
    BY <1>4, <1>7
  <2>2. /\ After(eeprom, t, i)[Cond(s)] = eeprom[Cond(s)]
        /\ After(eeprom, t, i)[Act(s)] = eeprom[Act(s)]
    BY <1>4
  <2> QED
    BY <2>1, <2>2, Zenon DEF SoundFor
<1>9. EndSound(t, after)
  <2> SUFFICES ASSUME NEW s \in Slots, HasBit(After(eeprom, t, Len(t)), s),
                      After(eeprom, t, Len(t))[Cond(s)] \in Conds
               PROVE  [cond |-> After(eeprom, t, Len(t))[Cond(s)], act |-> After(eeprom, t, Len(t))[Act(s)]] \in after[s]
    BY Zenon DEF EndSound, SoundFor
  <2>0. Len(t) \in 0..Len(t)
    BY <1>1, <1>5
  <2>1. s \in used /\ HasBit(eeprom, s)
    BY <1>4, <1>7, <2>0
  <2>2. /\ After(eeprom, t, Len(t))[Cond(s)] = eeprom[Cond(s)]
        /\ After(eeprom, t, Len(t))[Act(s)] = eeprom[Act(s)]
    BY <1>4, <2>0
  <2>3. [cond |-> eeprom[Cond(s)], act |-> eeprom[Act(s)]] \in may[s]
    BY <2>1, <2>2, Zenon DEF SoundFor
  <2> QED
    BY <2>1, <2>2, <2>3
<1> QED
  BY <1>3, <1>6, <1>8, <1>9

Less == {p \in Nat \X Nat : p[1] < p[2]}

LEMMA LeastThere ==
  ASSUME NEW T \in SUBSET Nat, T # {}
  PROVE  \E x \in T : \A y \in T : x <= y
<1>1. IsWellFoundedOn(Less, Nat)
  BY NatLessThanWellFounded, Zenon DEF OpToRel, Less
<1>2. PICK x \in T : \A y \in T : <<y, x>> \notin Less
  BY <1>1, WFMin, Zenon
<1>3. ASSUME NEW y \in T PROVE x =< y
  <2>1. x \in Nat /\ y \in Nat /\ <<y, x>> \notin Less
    BY <1>2
  <2>2. ~(y < x)
    BY <2>1 DEF Less
  <2> QED
    BY <2>1, <2>2
<1> QED
  BY <1>2, <1>3

LEMMA FreeIsFree == Used # Slots => FreeSlot \in Slots \ Used
<1> SUFFICES ASSUME Used # Slots PROVE FreeSlot \in Slots \ Used
  OBVIOUS
<1>1. Slots \ Used # {} /\ Slots \ Used \in SUBSET Nat
  BY DEF Used, Slots
<1>2. \E s \in Slots \ Used : \A t \in Slots \ Used : s <= t
  BY <1>1, LeastThere
<1> QED
  BY <1>2, Zenon DEF FreeSlot

LEMMA EntryBytesAre ==
  ASSUME NEW s \in Slots, NEW entry \in Entry
  PROVE  LET b == EntryBytes(s, entry)
         IN  /\ b \in Seq(Bytes) /\ Len(b) = 2 /\ DOMAIN b = {1, 2} /\ Distinct(b)
             /\ b[1] = <<Cond(s), entry.cond>> /\ b[2] = <<Act(s), entry.act>>
<1>1. <<Cond(s), entry.cond>> \in Bytes /\ <<Act(s), entry.act>> \in Bytes
  <2>1. entry.cond \in Conds /\ entry.act \in Acts
    BY DEF Entry
  <2>2. entry.cond \in Values /\ entry.act \in Values
    <3>1. Conds \subseteq Values /\ Acts \subseteq Values
      BY Zenon DEF Values
    <3> QED
      BY <2>1, <3>1
  <2> QED
    BY <2>2, AreCells DEF Bytes
<1> DEFINE b == EntryBytes(s, entry)
<1>2. /\ b \in Seq(Bytes) /\ Len(b) = 2
      /\ b[1] = <<Cond(s), entry.cond>> /\ b[2] = <<Act(s), entry.act>>
  BY <1>1, TwoElements, Zenon DEF EntryBytes
<1> HIDE DEF b
<1>3. DOMAIN b = {1, 2}
  BY <1>2
<1>4. Distinct(b)
  BY <1>2, <1>3, CellsDiffer DEF Distinct
<1> QED
  BY <1>2, <1>3, <1>4 DEF b

\* The entry is there before its bit is.
LEMMA AppendIsSound ==
  ASSUME IsEeprom(eeprom), IsMay(stored), SoundFor(eeprom, stored), HasRoom, NEW entry \in Entry
  PROVE  /\ Sane(AppendBytes(entry)) /\ AppendBytes(entry) # <<>>
         /\ AllSound(AppendBytes(entry), [stored EXCEPT ![FreeSlot] = @ \cup {entry}])
         /\ EndSound(AppendBytes(entry), [stored EXCEPT ![FreeSlot] = {entry}])
<1> DEFINE f == FreeSlot
           may == [stored EXCEPT ![f] = @ \cup {entry}]
           after == [stored EXCEPT ![f] = {entry}]
<1>1. PICK pre \in Seq(Bytes) :
        /\ pre = EntryBytes(f, entry)
        /\ Len(pre) = 2 /\ DOMAIN pre = {1, 2} /\ Distinct(pre)
        /\ pre[1] = <<Cond(f), entry.cond>> /\ pre[2] = <<Act(f), entry.act>>
  BY FreeIsFree, EntryBytesAre DEF HasRoom
<1> DEFINE used == Used \cup {f}
           count == nEntries + 1
           t == pre \o Header(count, used)
<1>2. t = AppendBytes(entry)
  BY <1>1 DEF AppendBytes
<1>3. /\ f \in Slots /\ f \notin Used /\ used \in SUBSET Slots
      /\ count \in Nat /\ count \in 0..255 /\ NSectors \in Nat
  <2>1. f \in Slots /\ f \notin Used
    BY FreeIsFree DEF HasRoom
  <2>2. count \in Nat /\ count \in 0..255 /\ NSectors \in Nat
    <3>1. NSectors \in Nat /\ SectorBits \in Nat
      BY EventStoreAssumption
    <3>2. MaxEntries \in Nat /\ MaxEntries < 255
      BY <3>1, EventStoreAssumption
    <3>3. nEntries \in 0..255
      BY DEF IsEeprom, nEntries
    <3>4. nEntries < MaxEntries
      BY DEF HasRoom
    <3> QED
      BY <3>1, <3>2, <3>3, <3>4
  <2>3. used \in SUBSET Slots
    BY <2>1 DEF Used
  <2> QED
    BY <2>1, <2>2, <2>3
<1>4. \A j \in DOMAIN pre : \E s \in Slots : pre[j][1] \in {Cond(s), Act(s)}
  BY <1>1, <1>3
<1>5. \A s \in Slots : s \in Used <=> HasBit(eeprom, s)
  BY DEF Used, HasBit
<1> HIDE DEF t, used, count, f
<1>6. ASSUME NEW i \in 0..(Len(pre) + NSectors + 2)
      PROVE  EndsWithHeader(t, pre, count, used, eeprom, i)
  BY <1>1, <1>3, <1>4, WithHeader, Zenon DEF t
<1>7. /\ t \in Seq(Bytes) /\ Len(t) = NSectors + 4 /\ Distinct(t) /\ DOMAIN t = 1..Len(t)
      /\ t[1] = <<Cond(f), entry.cond>> /\ t[2] = <<Act(f), entry.act>>
      /\ \A j \in 1..Len(t) : t[j][1] = NEntries => t[j][2] = count
  <2>1. EndsWithHeader(t, pre, count, used, eeprom, 0)
    BY <1>1, <1>3, <1>6
  <2>2. t \in Seq(Bytes)
    BY <2>1 DEF EndsWithHeader
  <2>3. DOMAIN t = 1..Len(t)
    BY <2>2
  <2>4. /\ Len(t) = Len(pre) + NSectors + 2 /\ Distinct(t)
        /\ \A j \in 1..Len(pre) : t[j] = pre[j]
        /\ \A j \in 1..Len(t) : t[j][1] = NEntries => t[j][2] = count
    BY <2>1, Zenon DEF EndsWithHeader
  <2>5. 1 \in 1..Len(pre) /\ 2 \in 1..Len(pre) /\ Len(t) = NSectors + 4
    BY <1>1, <1>3, <2>4
  <2> QED
    BY <1>1, <2>2, <2>3, <2>4, <2>5
<1>8. Sane(t) /\ t # <<>>
  <2>1. t # <<>>
    BY <1>3, <1>7
  <2>2. \A j \in DOMAIN t : t[j][1] = NEntries => t[j][2] \in 0..255
    BY <1>3, <1>7
  <2> QED
    BY <1>7, <2>1, <2>2 DEF Sane
<1>9. ASSUME NEW i \in 0..Len(t), NEW s \in Slots, HasBit(After(eeprom, t, i), s)
      PROVE  /\ s # f => /\ HasBit(eeprom, s)
                         /\ After(eeprom, t, i)[Cond(s)] = eeprom[Cond(s)]
                         /\ After(eeprom, t, i)[Act(s)] = eeprom[Act(s)]
             /\ s = f => /\ After(eeprom, t, i)[Cond(s)] = entry.cond
                         /\ After(eeprom, t, i)[Act(s)] = entry.act
  <2>1. EndsWithHeader(t, pre, count, used, eeprom, i)
    BY <1>1, <1>3, <1>6, <1>7
  <2>2. IF i >= 5 + (s \div SectorBits) THEN s \in used ELSE HasBit(eeprom, s)
    BY <1>1, <1>9, <2>1 DEF EndsWithHeader
  <2>3. CASE s # f
    <3>1. HasBit(eeprom, s)
      BY <1>5, <2>2, <2>3 DEF used
    <3>a. t[1][1] = Cond(f) /\ t[2][1] = Act(f) /\ \A j \in 1..Len(pre) : j \in {1, 2}
      BY <1>1, <1>7
    <3>b. Cond(f) # Cond(s) /\ Cond(f) # Act(s) /\ Act(f) # Cond(s) /\ Act(f) # Act(s)
      BY <2>3, CellsDiffer
    <3>2. \A j \in 1..Len(pre) : t[j][1] # Cond(s) /\ t[j][1] # Act(s)
      BY <3>a, <3>b
    <3>3. /\ After(eeprom, t, i)[Cond(s)] = eeprom[Cond(s)]
          /\ After(eeprom, t, i)[Act(s)] = eeprom[Act(s)]
      BY <2>1, <3>2, Zenon DEF EndsWithHeader
    <3> QED
      BY <2>3, <3>1, <3>3
  <2>4. CASE s = f
    <3>1. i >= 5 + (s \div SectorBits) /\ s \div SectorBits \in Nat
      BY <1>3, <1>5, <2>2, <2>4, SlotPlace DEF Sectors
    <3>2. 1 \in 1..i /\ 2 \in 1..i
      BY <1>3, <1>7, <3>1
    <3>3. /\ \A j \in 1..i : After(eeprom, t, i)[t[j][1]] = t[j][2]
          /\ \A c \in Cells : (\A j \in 1..i : t[j][1] # c) => After(eeprom, t, i)[c] = eeprom[c]
      BY <1>7, AfterIs, Zenon
    <3>4. After(eeprom, t, i)[t[1][1]] = t[1][2] /\ After(eeprom, t, i)[t[2][1]] = t[2][2]
      BY <3>2, <3>3
    <3> QED
      BY <1>7, <2>4, <3>4
  <2> QED
    BY <2>3, <2>4
<1>10. ASSUME NEW i \in 0..Len(t), NEW s \in Slots, HasBit(After(eeprom, t, i), s),
              After(eeprom, t, i)[Cond(s)] \in Conds
       PROVE  LET e == [cond |-> After(eeprom, t, i)[Cond(s)], act |-> After(eeprom, t, i)[Act(s)]]
              IN  e \in may[s] /\ e \in after[s]
  <2>1. CASE s # f
    <3>1. [cond |-> eeprom[Cond(s)], act |-> eeprom[Act(s)]] \in stored[s]
      BY <1>9, <1>10, <2>1 DEF SoundFor
    <3>2. may[s] = stored[s] /\ after[s] = stored[s]
      BY <2>1 DEF IsMay
    <3> QED
      BY <1>9, <1>10, <2>1, <3>1, <3>2
  <2>2. CASE s = f
    <3>1. entry \in may[s] /\ entry \in after[s]
      BY <1>3, <2>2 DEF IsMay
    <3>2. entry = [cond |-> entry.cond, act |-> entry.act]
      BY DEF Entry
    <3> QED
      BY <1>9, <1>10, <2>2, <3>1, <3>2
  <2> QED
    BY <2>1, <2>2
<1>11. Len(t) \in 0..Len(t)
  BY <1>3, <1>7
<1> HIDE DEF may, after
<1>12. AllSound(t, may) /\ EndSound(t, after)
  <2>1. AllSound(t, may)
    BY <1>10, Zenon DEF AllSound, SoundFor
  <2>2. EndSound(t, after)
    BY <1>10, <1>11, Zenon DEF EndSound, SoundFor
  <2> QED
    BY <2>1, <2>2
<1> QED
  BY <1>2, <1>8, <1>12 DEF may, after, f

\* An entry that is replaced is old, new, or half of each.
LEMMA SetIsSound ==
  ASSUME IsEeprom(eeprom), IsMay(stored), SoundFor(eeprom, stored),
         NEW f \in Used, NEW entry \in Entry
  PROVE  /\ Sane(SetBytes(f, entry)) /\ SetBytes(f, entry) # <<>>
         /\ AllSound(SetBytes(f, entry), [stored EXCEPT ![f] = @ \cup Mixed(EntryAt(f), entry)])
         /\ EndSound(SetBytes(f, entry), [stored EXCEPT ![f] = {entry}])
<1> DEFINE may == [stored EXCEPT ![f] = @ \cup Mixed(EntryAt(f), entry)]
           after == [stored EXCEPT ![f] = {entry}]
           t == SetBytes(f, entry)
<1>1. f \in Slots
  BY DEF Used
<1>2. /\ t \in Seq(Bytes) /\ Len(t) = 2 /\ DOMAIN t = {1, 2} /\ Distinct(t)
      /\ t[1] = <<Cond(f), entry.cond>> /\ t[2] = <<Act(f), entry.act>>
  BY <1>1, EntryBytesAre, Zenon DEF SetBytes
<1> HIDE DEF t
<1>3. Sane(t) /\ t # <<>>
  <2>1. t[1][1] # NEntries /\ t[2][1] # NEntries
    BY <1>2, CellsDiffer
  <2>2. t # <<>>
    BY <1>2
  <2> QED
    BY <1>2, <2>1, <2>2 DEF Sane
<1>4. ASSUME NEW i \in 0..Len(t)
      PROVE  /\ \A j \in 1..i : After(eeprom, t, i)[t[j][1]] = t[j][2]
             /\ \A c \in Cells : (\A j \in 1..i : t[j][1] # c) => After(eeprom, t, i)[c] = eeprom[c]
  BY <1>2, AfterIs, Zenon
<1>5. ASSUME NEW i \in 0..Len(t), NEW j \in 1..i PROVE j \in {1, 2}
  BY <1>2
<1>6. ASSUME NEW i \in 0..Len(t), NEW s \in Slots
      PROVE  /\ HasBit(After(eeprom, t, i), s) <=> HasBit(eeprom, s)
             /\ s # f => /\ After(eeprom, t, i)[Cond(s)] = eeprom[Cond(s)]
                         /\ After(eeprom, t, i)[Act(s)] = eeprom[Act(s)]
             /\ s = f => /\ After(eeprom, t, i)[Cond(s)] \in {eeprom[Cond(s)], entry.cond}
                         /\ After(eeprom, t, i)[Act(s)] \in {eeprom[Act(s)], entry.act}
             /\ s = f /\ i = 2 => /\ After(eeprom, t, i)[Cond(s)] = entry.cond
                                  /\ After(eeprom, t, i)[Act(s)] = entry.act
  <2>1. Sector(s \div SectorBits) \in Cells /\ Cond(s) \in Cells /\ Act(s) \in Cells
    BY AreCells
  <2>2. \A j \in 1..i : t[j][1] # Sector(s \div SectorBits)
    BY <1>2, <1>5, CellsDiffer
  <2>3. HasBit(After(eeprom, t, i), s) <=> HasBit(eeprom, s)
    BY <1>4, <2>1, <2>2 DEF HasBit
  <2>4. CASE s # f
    <3>1. \A j \in 1..i : t[j][1] # Cond(s) /\ t[j][1] # Act(s)
      BY <1>2, <1>5, <2>4, CellsDiffer
    <3> QED
      BY <1>4, <2>1, <2>3, <2>4, <3>1
  <2>5. CASE s = f
    <3>1. CASE i = 0
      <4>1. \A j \in 1..i : FALSE
        BY <3>1
      <4>2. After(eeprom, t, i)[Cond(s)] = eeprom[Cond(s)] /\ After(eeprom, t, i)[Act(s)] = eeprom[Act(s)]
        BY <1>4, <2>1, <4>1, Zenon
      <4> QED
        BY <2>3, <2>5, <3>1, <4>2
    <3>2. CASE i = 1
      <4>1. 1 \in 1..i /\ \A j \in 1..i : j = 1
        BY <3>2
      <4>2. After(eeprom, t, i)[Cond(s)] = entry.cond
        BY <1>2, <1>4, <2>5, <4>1
      <4>3. \A j \in 1..i : t[j][1] # Act(s)
        <5>1. t[1][1] # Act(s)
          BY <1>2, CellsDiffer
        <5> QED
          BY <4>1, <5>1
      <4>4. After(eeprom, t, i)[Act(s)] = eeprom[Act(s)]
        BY <1>4, <2>1, <4>3
      <4> QED
        BY <2>3, <2>5, <3>2, <4>2, <4>4
    <3>3. CASE i = 2
      <4>1. 1 \in 1..i /\ 2 \in 1..i
        BY <3>3
      <4>2. After(eeprom, t, i)[t[1][1]] = t[1][2] /\ After(eeprom, t, i)[t[2][1]] = t[2][2]
        BY <1>4, <4>1
      <4>3. After(eeprom, t, i)[Cond(s)] = entry.cond /\ After(eeprom, t, i)[Act(s)] = entry.act
        BY <1>2, <2>5, <4>2
      <4> QED
        BY <2>3, <2>5, <3>3, <4>3
    <3> QED
      BY <1>2, <3>1, <3>2, <3>3
  <2> QED
    BY <2>4, <2>5
<1>7. HasBit(eeprom, f)
  BY DEF Used, HasBit
<1>8. entry = [cond |-> entry.cond, act |-> entry.act] /\ entry.cond \in Conds
  BY DEF Entry
<1>9. ASSUME NEW i \in 0..Len(t), NEW s \in Slots, HasBit(After(eeprom, t, i), s),
             After(eeprom, t, i)[Cond(s)] \in Conds
      PROVE  LET e == [cond |-> After(eeprom, t, i)[Cond(s)], act |-> After(eeprom, t, i)[Act(s)]]
             IN  e \in may[s] /\ (i = 2 => e \in after[s])
  <2>1. CASE s # f
    <3>1. [cond |-> eeprom[Cond(s)], act |-> eeprom[Act(s)]] \in stored[s]
      BY <1>6, <1>9, <2>1 DEF SoundFor
    <3>2. may[s] = stored[s] /\ after[s] = stored[s]
      BY <2>1 DEF IsMay
    <3> QED
      BY <1>6, <1>9, <2>1, <3>1, <3>2
  <2>2. CASE s = f
    <3> DEFINE e == [cond |-> After(eeprom, t, i)[Cond(s)], act |-> After(eeprom, t, i)[Act(s)]]
    <3>1. may[s] = stored[s] \cup Mixed(EntryAt(f), entry) /\ after[s] = {entry}
      BY <1>1, <2>2 DEF IsMay
    <3>2. e \in Mixed(EntryAt(f), entry)
      BY <1>6, <2>2 DEF Mixed, EntryAt
    <3>3. i = 2 => e = entry
      BY <1>6, <1>8, <2>2
    <3> QED
      BY <3>1, <3>2, <3>3
  <2> QED
    BY <2>1, <2>2
<1>10. Len(t) \in 0..Len(t) /\ Len(t) = 2
  BY <1>2
<1> HIDE DEF may, after
<1>11. AllSound(t, may) /\ EndSound(t, after)
  <2>1. AllSound(t, may)
    BY <1>9, Zenon DEF AllSound, SoundFor
  <2>2. EndSound(t, after)
    BY <1>9, <1>10, Zenon DEF EndSound, SoundFor
  <2> QED
    BY <2>1, <2>2
<1> QED
  BY <1>3, <1>11 DEF may, after, t

-----------------------------------------------------------------------------
(* Sequences of frames *)

IsList(s) == s \in Seq({s[k] : k \in DOMAIN s})

LEMMA SeqIsList ==
  ASSUME NEW S, NEW s \in Seq(S)
  PROVE  IsList(s) /\ Len(s) \in Nat /\ DOMAIN s = 1..Len(s)
<1>1. Len(s) \in Nat /\ DOMAIN s = 1..Len(s) /\ s \in [1..Len(s) -> S]
  OBVIOUS
<1>2. s \in [1..Len(s) -> {s[k] : k \in DOMAIN s}]
  BY <1>1
<1>3. s \in Seq({s[k] : k \in DOMAIN s})
  <2> DEFINE R == {s[k] : k \in DOMAIN s}
  <2> HIDE DEF R
  <2> QED
    BY <1>1, <1>2, SeqDef DEF R
<1> QED
  BY <1>1, <1>3 DEF IsList

LEMMA SeqGrows ==
  ASSUME NEW A, NEW S, A \subseteq S, NEW s \in Seq(A)
  PROVE  s \in Seq(S)
<1>1. Len(s) \in Nat /\ s \in [1..Len(s) -> A]
  OBVIOUS
<1>2. s \in [1..Len(s) -> S]
  BY <1>1
<1> QED
  BY <1>1, <1>2

LEMMA ListIs ==
  ASSUME NEW s, IsList(s)
  PROVE  Len(s) \in Nat /\ DOMAIN s = 1..Len(s) /\ (s = <<>> <=> Len(s) = 0)
<1> DEFINE S == {s[k] : k \in DOMAIN s}
<1>1. s \in Seq(S)
  BY DEF IsList
<1> HIDE DEF S
<1> QED
  BY <1>1

LEMMA Pushed ==
  ASSUME NEW s, IsList(s), NEW f
  PROVE  /\ IsList(Append(s, f)) /\ Len(Append(s, f)) = Len(s) + 1
         /\ \A k \in 1..Len(s) : Append(s, f)[k] = s[k]
         /\ Append(s, f)[Len(s) + 1] = f
<1> DEFINE S == {s[k] : k \in DOMAIN s} \cup {f}
<1>1. s \in Seq(S)
  <2>1. s \in Seq({s[k] : k \in DOMAIN s}) /\ {s[k] : k \in DOMAIN s} \subseteq S
    BY DEF IsList
  <2> HIDE DEF S
  <2> QED
    BY <2>1, SeqGrows
<1>2. f \in S
  OBVIOUS
<1> HIDE DEF S
<1>3. Append(s, f) \in Seq(S)
  BY <1>1, <1>2
<1>4. IsList(Append(s, f))
  BY <1>3, SeqIsList
<1>5. /\ Len(Append(s, f)) = Len(s) + 1
      /\ \A k \in 1..Len(s) : Append(s, f)[k] = s[k]
      /\ Append(s, f)[Len(s) + 1] = f
  BY <1>1, <1>2
<1> QED
  BY <1>4, <1>5

LEMMA Popped ==
  ASSUME NEW s, IsList(s), s # <<>>
  PROVE  /\ IsList(Front(s)) /\ Len(Front(s)) = Len(s) - 1
         /\ \A k \in 1..(Len(s) - 1) : Front(s)[k] = s[k]
<1> DEFINE S == {s[k] : k \in DOMAIN s}
<1>1. s \in Seq(S) /\ Len(s) \in Nat /\ Len(s) # 0
  BY ListIs DEF IsList
<1> HIDE DEF S
<1>2. /\ Front(s) \in Seq(S) /\ Len(Front(s)) = Len(s) - 1
      /\ \A k \in 1..(Len(s) - 1) : Front(s)[k] = s[k]
  <2> DEFINE m == Len(s) - 1
             t == SubSeq(s, 1, m)
  <2>1. m \in Nat /\ \A k \in 1..m : s[k] \in S
    BY <1>1
  <2> HIDE DEF m
  <2>2. /\ t \in Seq(S) /\ Len(t) = IF 1 <= m THEN m - 1 + 1 ELSE 0
        /\ \A k \in 1..(m - 1 + 1) : t[k] = s[1 + k - 1]
    BY <2>1, SubSeqProperties
  <2>3. t \in Seq(S) /\ Len(t) = m /\ \A k \in 1..m : t[k] = s[k]
    BY <2>1, <2>2
  <2> QED
    BY <2>3 DEF m, Front
<1> QED
  BY <1>2, SeqIsList

LEMMA Replaced ==
  ASSUME NEW s, IsList(s), NEW n \in 1..Len(s), NEW f
  PROVE  LET t == [s EXCEPT ![n] = f]
         IN  /\ IsList(t) /\ Len(t) = Len(s)
             /\ \A k \in 1..Len(s) : t[k] = IF k = n THEN f ELSE s[k]
<1> DEFINE S == {s[k] : k \in DOMAIN s} \cup {f}
           t == [s EXCEPT ![n] = f]
<1>1. s \in Seq(S) /\ f \in S
  <2>1. s \in Seq({s[k] : k \in DOMAIN s}) /\ {s[k] : k \in DOMAIN s} \subseteq S
    BY DEF IsList
  <2> HIDE DEF S
  <2> QED
    BY <2>1, SeqGrows DEF S
<1> HIDE DEF S
<1>2. t \in Seq(S) /\ Len(t) = Len(s) /\ \A k \in 1..Len(s) : t[k] = IF k = n THEN f ELSE s[k]
  BY <1>1
<1> HIDE DEF t
<1>3. IsList(t)
  BY <1>2, SeqIsList
<1> QED
  BY <1>2, <1>3 DEF t

-----------------------------------------------------------------------------
(* The stack *)

EventFields == {"place", "reply", "cond", "sub", "i", "n", "ran", "alone"}
IsLookup(f) ==
  /\ f = [x \in EventFields |-> f[x]] /\ f.place = "event"
  /\ f.cond \in Conds
IsFrame(f) ==
  /\ f.place \in {"write", "event", "callback"}
  /\ f.place = "event" => IsLookup(f)

\* The EEPROM is written by what is innermost.
WellStacked(s) ==
  /\ IsList(s)
  /\ \A k \in 1..Len(s) : IsFrame(s[k]) /\ (s[k].place = "write" => k = Len(s))

LEMMA PushWell ==
  ASSUME NEW s, WellStacked(s), s # <<>> => Last(s).place # "write", NEW f, IsFrame(f)
  PROVE  WellStacked(Append(s, f))
<1>1. IsList(s) /\ Len(s) \in Nat /\ (Len(s) # 0 => s[Len(s)].place # "write")
  BY ListIs DEF WellStacked, Last
<1>2. \A k \in 1..Len(s) : s[k].place # "write"
  BY <1>1 DEF WellStacked
<1> DEFINE t == Append(s, f)
<1>3. /\ IsList(t) /\ Len(t) = Len(s) + 1
      /\ \A k \in 1..Len(s) : t[k] = s[k]
      /\ t[Len(s) + 1] = f
  BY <1>1, Pushed
<1> HIDE DEF t
<1>4. ASSUME NEW k \in 1..Len(t) PROVE IsFrame(t[k]) /\ (t[k].place = "write" => k = Len(t))
  <2>1. CASE k = Len(s) + 1
    BY <1>3, <2>1
  <2>2. CASE k # Len(s) + 1
    <3>1. k \in 1..Len(s)
      BY <1>1, <1>3, <2>2
    <3> QED
      BY <1>2, <1>3, <3>1 DEF WellStacked
  <2> QED
    BY <2>1, <2>2
<1>5. WellStacked(t)
  BY <1>3, <1>4 DEF WellStacked
<1> QED
  BY <1>5 DEF t

LEMMA PopWell ==
  ASSUME NEW s, WellStacked(s), s # <<>>
  PROVE  /\ WellStacked(Front(s))
         /\ Front(s) # <<>> => Last(Front(s)).place # "write"
<1> DEFINE t == Front(s)
<1>1. Len(s) \in Nat
  BY ListIs DEF WellStacked
<1>2. /\ IsList(t) /\ Len(t) = Len(s) - 1
      /\ \A k \in 1..(Len(s) - 1) : t[k] = s[k]
  BY Popped DEF WellStacked
<1> HIDE DEF t
<1>3. ASSUME NEW k \in 1..Len(t) PROVE IsFrame(t[k]) /\ t[k].place # "write"
  <2>1. k \in 1..Len(s) /\ k # Len(s) /\ t[k] = s[k]
    BY <1>1, <1>2
  <2> QED
    BY <2>1 DEF WellStacked
<1>4. WellStacked(t)
  BY <1>2, <1>3 DEF WellStacked
<1>5. t # <<>> => Last(t).place # "write"
  <2>1. t # <<>> => Len(t) \in 1..Len(t)
    BY <1>2, ListIs
  <2> QED
    BY <1>3, <2>1 DEF Last
<1> QED
  BY <1>4, <1>5 DEF t

LEMMA ReplaceWell ==
  ASSUME NEW s, WellStacked(s), s # <<>>, NEW f, IsFrame(f)
  PROVE  LET t == [s EXCEPT ![Len(s)] = f]
         IN  /\ WellStacked(t) /\ Len(t) = Len(s) /\ t # <<>> /\ Last(t) = f
             /\ \A k \in 1..(Len(s) - 1) : t[k] = s[k]
<1> DEFINE t == [s EXCEPT ![Len(s)] = f]
<1>1. IsList(s) /\ Len(s) \in Nat \ {0} /\ Len(s) \in 1..Len(s)
  BY ListIs DEF WellStacked
<1>2. /\ IsList(t) /\ Len(t) = Len(s)
      /\ \A k \in 1..Len(s) : t[k] = IF k = Len(s) THEN f ELSE s[k]
  BY <1>1, Replaced
<1> HIDE DEF t
<1>3. t # <<>> /\ Last(t) = f
  BY <1>1, <1>2, ListIs DEF Last
<1>4. WellStacked(t)
  BY <1>1, <1>2 DEF WellStacked
<1> QED
  <2>1. /\ WellStacked(t) /\ Len(t) = Len(s) /\ t # <<>> /\ Last(t) = f
        /\ \A k \in 1..(Len(s) - 1) : t[k] = s[k]
    BY <1>1, <1>2, <1>3, <1>4
  <2> QED
    BY <2>1, Zenon DEF t

LEMMA DisturbWell ==
  ASSUME NEW s, WellStacked(s)
  PROVE  /\ WellStacked(Disturbed(s)) /\ Len(Disturbed(s)) = Len(s)
         /\ \A k \in 1..Len(s) : /\ Disturbed(s)[k].place = s[k].place
                                 /\ s[k].place = "event" => ~Disturbed(s)[k].alone
         /\ s # <<>> => Disturbed(s) # <<>> /\ Last(Disturbed(s)).place = Last(s).place
<1> DEFINE t == Disturbed(s)
           S == {t[k] : k \in 1..Len(s)}
<1>1. IsList(s) /\ Len(s) \in Nat /\ DOMAIN s = 1..Len(s) /\ (s = <<>> <=> Len(s) = 0)
  BY ListIs DEF WellStacked
<1>2. /\ t = [k \in 1..Len(s) |-> t[k]]
      /\ \A k \in 1..Len(s) : t[k] = IF s[k].place = "event" THEN [s[k] EXCEPT !.alone = FALSE] ELSE s[k]
  BY <1>1 DEF Disturbed
<1>3. ASSUME NEW k \in 1..Len(s)
      PROVE  /\ IsFrame(t[k]) /\ t[k].place = s[k].place
             /\ s[k].place = "event" => ~t[k].alone
  <2>1. IsFrame(s[k])
    BY DEF WellStacked
  <2>2. CASE s[k].place = "event"
    <3>1. t[k] = [s[k] EXCEPT !.alone = FALSE] /\ IsLookup(s[k])
      BY <1>2, <2>1, <2>2 DEF IsFrame
    <3>2. /\ t[k] = [x \in EventFields |-> t[k][x]] /\ t[k].place = "event"
          /\ t[k].cond = s[k].cond /\ ~t[k].alone
      BY <3>1 DEF IsLookup, EventFields
    <3>3. IsLookup(t[k])
      BY <3>1, <3>2 DEF IsLookup
    <3> QED
      BY <2>2, <3>2, <3>3 DEF IsFrame
  <2>3. CASE s[k].place # "event"
    BY <1>2, <2>1, <2>3
  <2> QED
    BY <2>2, <2>3
<1> HIDE DEF t
<1>4. t \in [1..Len(s) -> S] 
  BY <1>2
<1> HIDE DEF S
<1>5. t \in Seq(S) /\ Len(t) = Len(s)
  BY <1>1, <1>4
<1>6. IsList(t)
  BY <1>5, SeqIsList
<1>7. WellStacked(t)
  BY <1>3, <1>5, <1>6 DEF WellStacked
<1>8. s # <<>> => t # <<>> /\ Last(t).place = Last(s).place
  <2>1. s # <<>> => Len(s) \in 1..Len(s)
    BY <1>1
  <2> QED
    BY <1>1, <1>3, <1>5, <1>6, <2>1, ListIs DEF Last
<1> QED
  BY <1>3, <1>5, <1>7, <1>8 DEF t

-----------------------------------------------------------------------------
(* The number of an entry *)

LEMMA SlotsAre ==
  /\ NSectors * SectorBits \in Nat /\ Slots \subseteq Nat
  /\ \A s \in Slots : s < NSectors * SectorBits
  /\ IsFiniteSet(Slots)
<1>1. NSectors \in Nat /\ SectorBits \in Nat
  BY EventStoreAssumption
<1> DEFINE m == NSectors * SectorBits
<1>2. m \in Nat
  BY <1>1
<1> HIDE DEF m
<1>3. Slots = 0..(m - 1)
  BY DEF Slots, m
<1>4. IsFiniteSet(Slots)
  BY <1>2, <1>3, FS_Interval
<1> QED
  BY <1>2, <1>3, <1>4 DEF m

\* How many slots of a set come before a place.
Count(U, p) == Cardinality({t \in U : t < p})

LEMMA SomeSlots ==
  ASSUME NEW U \in SUBSET Slots
  PROVE  /\ IsFiniteSet(U) /\ Cardinality(U) \in Nat
         /\ \A s \in U : s \in Slots /\ s \in Nat
         /\ \A p : Count(U, p) \in Nat /\ IsFiniteSet({t \in U : t < p})
<1>1. IsFiniteSet(U)
  BY SlotsAre, FS_Subset
<1>2. Cardinality(U) \in Nat
  BY <1>1, FS_CardinalityType
<1>3. ASSUME NEW p
      PROVE  Count(U, p) \in Nat /\ IsFiniteSet({t \in U : t < p})
  <2>1. {t \in U : t < p} \in SUBSET U
    OBVIOUS
  <2>2. IsFiniteSet({t \in U : t < p})
    BY <1>1, <2>1, FS_Subset
  <2> QED
    BY <2>2, FS_CardinalityType DEF Count
<1> QED
  BY <1>1, <1>2, <1>3, SlotsAre

\* A slot that is used counts.
LEMMA CountGrows ==
  ASSUME NEW U \in SUBSET Slots, NEW s \in U, NEW q \in Nat, s < q
  PROVE  Count(U, s) + 1 <= Count(U, q)
<1> DEFINE A == {t \in U : t < s}
           B == {t \in U : t < q}
<1>1. A \cup {s} \in SUBSET B /\ s \notin A
  <2>1. s \in Nat /\ \A t \in U : t \in Nat
    BY SomeSlots
  <2>2. \A t \in A : t \in B
    BY <2>1
  <2>3. s \in B /\ s \notin A
    BY <2>1
  <2> HIDE DEF A, B
  <2> QED
    BY <2>2, <2>3
<1>2. IsFiniteSet(A) /\ IsFiniteSet(B)
  BY SomeSlots
<1> HIDE DEF A, B
<1>3. Cardinality(A \cup {s}) = Cardinality(A) + 1
  BY <1>1, <1>2, FS_AddElement
<1>4. Cardinality(A \cup {s}) <= Cardinality(B)
  BY <1>1, <1>2, FS_Subset
<1> QED
  BY <1>3, <1>4 DEF Count, A, B

LEMMA CountSteps ==
  ASSUME NEW U \in SUBSET Slots, NEW p \in Nat, NEW q \in Nat, p <= q
  PROVE  Count(U, p) <= Count(U, q) /\ Count(U, q) <= Cardinality(U)
<1>1. \A s \in U : s \in Nat
  BY SomeSlots
<1> DEFINE A == {t \in U : t < p}
           B == {t \in U : t < q}
<1>2. A \in SUBSET B /\ B \in SUBSET U
  BY <1>1
<1>3. IsFiniteSet(A) /\ IsFiniteSet(B) /\ IsFiniteSet(U)
  BY SomeSlots
<1> HIDE DEF A, B
<1>4. Cardinality(A) <= Cardinality(B) /\ Cardinality(B) <= Cardinality(U)
  BY <1>2, <1>3, FS_Subset
<1> QED
  BY <1>4 DEF Count, A, B

\* All slots come before the end of the table.
LEMMA CountAll ==
  ASSUME NEW U \in SUBSET Slots
  PROVE  Count(U, NSectors * SectorBits) = Cardinality(U)
<1>1. \A s \in U : s < NSectors * SectorBits
  BY SlotsAre
<1> DEFINE m == NSectors * SectorBits
<1>2. \A s \in U : s < m
  BY <1>1
<1> HIDE DEF m
<1>3. {t \in U : t < m} = U
  BY <1>2
<1> QED
  BY <1>3 DEF Count, m

\* No number is left out.
LEMMA NumbersFollow ==
  ASSUME NEW U \in SUBSET Slots, NEW q \in Nat, NEW n \in Nat, n < Count(U, q)
  PROVE  \E t \in U : Count(U, t) = n
<1>0. \A p : Count(U, p) \in Nat
  BY SomeSlots
<1>a. \A t \in U : t \in Nat
  BY SomeSlots
<1> DEFINE X == {y \in Nat : Count(U, y) > n}
<1>1. X \in SUBSET Nat /\ X # {}
  BY <1>0
<1>2. PICK x \in X : \A y \in X : x <= y
  BY <1>1, LeastThere
<1>3. x \in Nat /\ Count(U, x) > n /\ Count(U, x) \in Nat
  BY <1>0, <1>2
<1>4. x # 0
  <2>1. {t \in U : t < 0} = {}
    BY <1>a
  <2> QED BY <1>3, <2>1, FS_EmptySet DEF Count
<1> DEFINE u == x - 1
<1>5. u \in Nat /\ u < x /\ x = u + 1
  BY <1>3, <1>4
<1> HIDE DEF u
<1>6. ~(Count(U, u) > n)
  BY <1>2, <1>5
<1>7. {t \in U : t < x} = {t \in U : t < u} \cup {t \in {u} : t \in U}
  BY <1>a, <1>5
<1>8. u \in U
  <2> SUFFICES ASSUME u \notin U PROVE FALSE
    OBVIOUS
  <2>1. {t \in U : t < x} = {t \in U : t < u}
    BY <1>7
  <2> QED BY <1>3, <1>6, <2>1 DEF Count
<1>9. Count(U, x) = Count(U, u) + 1
  <2> DEFINE A == {t \in U : t < u}
             B == {t \in U : t < x}
  <2>1. B = A \cup {u} /\ u \notin A
    BY <1>5, <1>7, <1>8
  <2>2. IsFiniteSet(A)
    BY SomeSlots
  <2> HIDE DEF A, B
  <2>3. Cardinality(A \cup {u}) = Cardinality(A) + 1
    BY <2>1, <2>2, FS_AddElement
  <2> QED
    BY <2>1, <2>3 DEF Count, A, B
<1>10. Count(U, u) = n
  BY <1>0, <1>3, <1>6, <1>9
<1> QED
  BY <1>8, <1>10

LEMMA UsedAre ==
  /\ Used \in SUBSET Slots /\ IsFiniteSet(Used)
  /\ \A s \in Used : s \in Slots /\ s \in Nat
<1>1. Used \in SUBSET Slots
  BY DEF Used
<1>2. IsFiniteSet(Used)
  BY <1>1, SlotsAre, FS_Subset
<1> QED
  BY <1>1, <1>2, SlotsAre

\* The number of the entry in a slot.
Rank(p) == Cardinality({t \in Used : t < p})

LEMMA RankIs == \A p : Rank(p) \in Nat /\ IsFiniteSet({t \in Used : t < p})
  BY UsedAre, SomeSlots DEF Rank, Count

LEMMA RankCounts ==
  ASSUME NEW s \in Used, NEW q \in Nat, s < q
  PROVE  Rank(s) + 1 <= Rank(q)
<1>1. Used \in SUBSET Slots
  BY UsedAre
<1>2. Count(Used, s) + 1 <= Count(Used, q)
  BY <1>1, CountGrows
<1> QED
  BY <1>2 DEF Rank, Count

LEMMA RankSum ==
  ASSUME NEW p \in Nat, NEW q \in Nat, p <= q
  PROVE  Rank(p) + Cardinality({t \in Used : t >= p /\ t < q}) = Rank(q)
<1> DEFINE A == {t \in Used : t < p}
           B == {t \in Used : t >= p /\ t < q}
           C == {t \in Used : t < q}
<1>1. C = A \cup B /\ A \cap B = {}
  <2>1. \A t \in Used : t \in Nat
    BY UsedAre
  <2>2. \A t : t \in C <=> t \in A \/ t \in B
    BY <2>1
  <2>3. \A t : ~(t \in A /\ t \in B)
    BY <2>1
  <2> HIDE DEF A, B, C
  <2> QED
    BY <2>2, <2>3
<1>2. IsFiniteSet(A) /\ IsFiniteSet(B)
  <2>1. B \in SUBSET Used
    OBVIOUS
  <2>2. IsFiniteSet(B)
    BY <2>1, UsedAre, FS_Subset
  <2> QED
    BY <2>2, RankIs
<1> HIDE DEF A, B, C
<1>3. Cardinality(A \cup B) = Cardinality(A) + Cardinality(B) - Cardinality(A \cap B)
  BY <1>2, FS_Union
<1>4. Cardinality({}) = 0 /\ Cardinality(A) \in Nat /\ Cardinality(B) \in Nat
  BY <1>2, FS_EmptySet, FS_CardinalityType
<1>5. Cardinality(A \cap B) = 0
  BY <1>1, <1>4, Zenon
<1>6. Cardinality(A \cup B) = Cardinality(C)
  BY <1>1, Zenon
<1>7. Cardinality(A) + Cardinality(B) = Cardinality(C)
  <2> DEFINE a == Cardinality(A)
             b == Cardinality(B)
             c == Cardinality(C)
  <2>1. a \in Nat /\ b \in Nat /\ c = a + b - 0
    BY <1>3, <1>4, <1>5, <1>6, Zenon
  <2> HIDE DEF a, b, c
  <2>2. a + b = c
    BY <2>1
  <2> QED
    BY <2>2 DEF a, b, c
<1> QED
  BY <1>7 DEF Rank, A, B, C

LEMMA RanksFollow ==
  ASSUME NEW s \in Used, NEW n \in Nat, n < Rank(s)
  PROVE  \E t \in Used : Rank(t) = n
<1>1. Used \in SUBSET Slots /\ s \in Nat /\ n < Count(Used, s)
  BY UsedAre DEF Rank, Count
<1>2. \E t \in Used : Count(Used, t) = n
  BY <1>1, NumbersFollow
<1> QED
  BY <1>2 DEF Rank, Count

\* What the lookup finds from a place on, if it counted what lies before.
LEMMA SeekIs ==
  ASSUME NEW n, NEW p \in Nat
  PROVE  Seek(n, p, Rank(p)) = {s \in Used : n < nEntries /\ s >= p /\ Rank(s) = n}
<1>1. ASSUME NEW s \in Used, s >= p
      PROVE  Rank(p) + Cardinality({t \in Used : t >= p /\ t < s}) = Rank(s)
  BY <1>1, RankSum, UsedAre
<1> QED
  BY <1>1 DEF Seek

LEMMA RankOfNone == Rank(0) = 0
<1>1. {t \in Used : t < 0} = {}
  BY UsedAre
<1> QED
  BY <1>1, FS_EmptySet DEF Rank

LEMMA SlotOfIs == \A n : SlotOf(n) = {s \in Used : n < nEntries /\ Rank(s) = n}
<1> TAKE n
<1>1. SlotOf(n) = {s \in Used : n < nEntries /\ s >= 0 /\ Rank(s) = n}
  BY RankOfNone, SeekIs DEF SlotOf
<1> QED
  BY <1>1, UsedAre

LEMMA OneSlotOfRank ==
  ASSUME NEW s \in Used, NEW t \in Used, Rank(s) = Rank(t)
  PROVE  s = t
<1>1. s \in Nat /\ t \in Nat /\ Rank(s) \in Nat /\ Rank(t) \in Nat
  BY UsedAre, RankIs
<1>2. ~(s < t)
  BY <1>1, RankCounts
<1>3. ~(t < s)
  BY <1>1, RankCounts
<1> QED
  BY <1>1, <1>2, <1>3

-----------------------------------------------------------------------------
(* A set of at most one element as a sequence *)

LEMMA NoneInSequence == SetToSeq({}) = <<>>
<1> DEFINE F == [1..Cardinality({}) -> {}]
<1>1. 1..Cardinality({}) = {}
  BY FS_EmptySet
<1>2. ASSUME NEW f \in F PROVE f = <<>>
  <2>1. f \in [1..0 -> {}]
    BY <1>1, FS_EmptySet, Zenon
  <2>2. f \in Seq({}) /\ Len(f) = 0
    BY <2>1
  <2> QED
    BY <2>2
<1>3. <<>> \in F /\ IsInjective(<<>>)
  BY <1>1 DEF IsInjective
<1>4. (CHOOSE f \in F : IsInjective(f)) \in F
  BY <1>3
<1>5. SetToSeq({}) \in F
  BY <1>4, Zenon DEF SetToSeq
<1> QED
  BY <1>2, <1>5

LEMMA OneLong ==
  ASSUME NEW S, NEW f \in [1..1 -> S]
  PROVE  f = <<f[1]>>
<1>1. f \in Seq(S)
  <2>1. 1 \in Nat
    OBVIOUS
  <2> QED
    BY <2>1, SeqDef
<1>2. Len(f) = 1
  <2>1. Len(f) \in Nat /\ DOMAIN f = 1..Len(f) /\ DOMAIN f = 1..1
    BY <1>1
  <2> QED
    BY <2>1
<1>3. <<f[1]>> \in Seq(S) /\ Len(<<f[1]>>) = 1 /\ <<f[1]>>[1] = f[1]
  BY <1>1, <1>2
<1> QED
  BY <1>1, <1>2, <1>3, SeqEqual

LEMMA OneInSequence == \A x : SetToSeq({x}) = <<x>>
<1> TAKE x
<1> DEFINE F == [1..Cardinality({x}) -> {x}]
<1>1. Cardinality({x}) = 1
  BY FS_Singleton
<1>2. 1..Cardinality({x}) = {1}
  BY <1>1
<1>3. ASSUME NEW f \in F PROVE f = <<x>>
  <2> DEFINE S == {x}
  <2>1. f \in [1..1 -> S]
    BY <1>1, Zenon
  <2>2. \A y \in S : y = x
    OBVIOUS
  <2> HIDE DEF S
  <2>3. f[1] \in S
    <3>1. 1 \in 1..1
      OBVIOUS
    <3> QED
      BY <2>1, <3>1, Zenon
  <2>4. f = <<f[1]>>
    BY <2>1, OneLong
  <2> QED
    BY <2>2, <2>3, <2>4
<1>4. <<x>> \in F /\ IsInjective(<<x>>)
  BY <1>2 DEF IsInjective
<1>5. (CHOOSE f \in F : IsInjective(f)) \in F
  BY <1>4
<1>6. SetToSeq({x}) \in F
  BY <1>5, Zenon DEF SetToSeq
<1> QED
  BY <1>3, <1>6

-----------------------------------------------------------------------------
(* The lookups on the stack *)

UsedIn(e) == {s \in Slots : HasBit(e, s)}
RankIn(e, p) == Cardinality({t \in UsedIn(e) : t < p})

\* A lookup that nothing disturbed: the iterator stands at its entry, and what
\* it found so far are the matching entries before that one.
Look(fr, e, it) ==
  \/ fr.n = -1 /\ fr.i = 0 /\ fr.ran = <<>>
  \/ /\ fr.n = (IF e[NEntries] > MaxEntries THEN 0 ELSE e[NEntries])
     /\ fr.i \in 0..fr.n
     /\ it \in [place: Nat, count: Nat, entry: Nat]
     /\ it.entry = fr.i /\ it.count = RankIn(e, it.place)
     /\ \A s \in UsedIn(e) : s < it.place => RankIn(e, s) < fr.i
     /\ fr.ran \in Seq(UsedIn(e))
     /\ \A s : (\E k \in 1..Len(fr.ran) : fr.ran[k] = s)
                 <=> s \in UsedIn(e) /\ RankIn(e, s) < fr.i /\ e[Cond(s)] = fr.cond
     /\ \A j, k \in 1..Len(fr.ran) : j < k => fr.ran[j] < fr.ran[k]

\* Above a lookup that nothing disturbed there are callbacks only.
Lookups(st, e, it) ==
  \A k \in 1..Len(st) : st[k].place = "event" /\ st[k].alone =>
    /\ Look(st[k], e, it)
    /\ \A j \in 1..Len(st) : j > k => st[j].place = "callback"

\* The subscriptions it looked at, and how it was called, make no difference.
LEMMA LookSame ==
  ASSUME NEW fr, NEW f, f.n = fr.n, f.i = fr.i, f.ran = fr.ran, f.cond = fr.cond,
         NEW e, NEW it, Look(fr, e, it)
  PROVE  Look(f, e, it)
<1>1. CASE fr.n = -1 /\ fr.i = 0 /\ fr.ran = <<>>
  BY <1>1 DEF Look
<1>2. CASE ~(fr.n = -1 /\ fr.i = 0 /\ fr.ran = <<>>)
  <2>1. /\ f.n = (IF e[NEntries] > MaxEntries THEN 0 ELSE e[NEntries])
        /\ f.i \in 0..f.n
        /\ it \in [place: Nat, count: Nat, entry: Nat]
        /\ it.entry = f.i /\ it.count = RankIn(e, it.place)
        /\ f.ran \in Seq(UsedIn(e))
    BY <1>2, Zenon DEF Look
  <2>2. \A s \in UsedIn(e) : s < it.place => RankIn(e, s) < f.i
    BY <1>2, Zenon DEF Look
  <2>3. \A s : (\E k \in 1..Len(f.ran) : f.ran[k] = s)
                 <=> s \in UsedIn(e) /\ RankIn(e, s) < f.i /\ e[Cond(s)] = f.cond
    <3>1. \A s : (\E k \in 1..Len(fr.ran) : fr.ran[k] = s)
                   <=> s \in UsedIn(e) /\ RankIn(e, s) < fr.i /\ e[Cond(s)] = fr.cond
      BY <1>2, Zenon DEF Look
    <3> DEFINE found(r, s) == \E k \in 1..Len(r) : r[k] = s
    <3>2. \A s : found(fr.ran, s) <=> s \in UsedIn(e) /\ RankIn(e, s) < fr.i /\ e[Cond(s)] = fr.cond
      BY <3>1
    <3> HIDE DEF found
    <3>3. \A s : found(f.ran, s) <=> s \in UsedIn(e) /\ RankIn(e, s) < f.i /\ e[Cond(s)] = f.cond
      BY <3>2
    <3> QED
      BY <3>3 DEF found
  <2>4. \A j, k \in 1..Len(f.ran) : j < k => f.ran[j] < f.ran[k]
    BY <1>2, Zenon DEF Look
  <2> QED
    BY <2>1, <2>2, <2>3, <2>4, Zenon DEF Look
<1> QED
  BY <1>1, <1>2

LEMMA LookPush ==
  ASSUME NEW s, WellStacked(s), NEW e, NEW it, Lookups(s, e, it),
         NEW f, f.place = "callback"
  PROVE  Lookups(Append(s, f), e, it)
<1> DEFINE t == Append(s, f)
<1>1. /\ Len(s) \in Nat /\ Len(t) = Len(s) + 1
      /\ \A k \in 1..Len(s) : t[k] = s[k]
      /\ t[Len(s) + 1] = f
  BY ListIs, Pushed DEF WellStacked
<1> HIDE DEF t
<1>2. ASSUME NEW k \in 1..Len(t), t[k].place = "event", t[k].alone
      PROVE  Look(t[k], e, it) /\ \A j \in 1..Len(t) : j > k => t[j].place = "callback"
  <2>1. k \in 1..Len(s) /\ t[k] = s[k]
    BY <1>1, <1>2
  <2>2. Look(s[k], e, it) /\ \A j \in 1..Len(s) : j > k => s[j].place = "callback"
    BY <1>2, <2>1 DEF Lookups
  <2>3. ASSUME NEW j \in 1..Len(t), j > k PROVE t[j].place = "callback"
    <3>1. CASE j = Len(s) + 1
      BY <1>1, <3>1
    <3>2. CASE j # Len(s) + 1
      <4>1. j \in 1..Len(s)
        BY <1>1, <3>2
      <4> QED
        BY <1>1, <2>2, <2>3, <4>1
    <3> QED
      BY <3>1, <3>2
  <2> QED
    BY <2>1, <2>2, <2>3
<1>3. Lookups(t, e, it)
  BY <1>2 DEF Lookups
<1> QED
  BY <1>3 DEF t

LEMMA LookDisturb ==
  ASSUME NEW s, WellStacked(s), NEW e, NEW it,
         NEW f, f.place = "event" /\ f.alone => Look(f, e, it)
  PROVE  Lookups(Append(Disturbed(s), f), e, it)
<1> DEFINE d == Disturbed(s)
           t == Append(d, f)
<1>1. /\ WellStacked(d) /\ Len(d) = Len(s) /\ Len(s) \in Nat
      /\ \A k \in 1..Len(s) : ~(d[k].place = "event" /\ d[k].alone)
  BY DisturbWell, ListIs DEF WellStacked
<1> HIDE DEF d
<1>2. /\ Len(t) = Len(d) + 1
      /\ \A k \in 1..Len(d) : t[k] = d[k]
      /\ t[Len(d) + 1] = f
  BY <1>1, Pushed DEF WellStacked
<1> HIDE DEF t
<1>3. ASSUME NEW k \in 1..Len(t), t[k].place = "event", t[k].alone
      PROVE  Look(t[k], e, it) /\ \A j \in 1..Len(t) : j > k => t[j].place = "callback"
  <2>1. k = Len(t) /\ t[k] = f
    <3>1. ~(k \in 1..Len(d))
      BY <1>1, <1>2, <1>3
    <3> QED
      BY <1>1, <1>2, <3>1
  <2> QED
    BY <1>1, <1>2, <1>3, <2>1
<1>4. Lookups(t, e, it)
  BY <1>3 DEF Lookups
<1> QED
  BY <1>4 DEF t, d

LEMMA LookPop ==
  ASSUME NEW s, WellStacked(s), s # <<>>, NEW e, NEW it, Lookups(s, e, it)
  PROVE  Lookups(Front(s), e, it)
<1> DEFINE t == Front(s)
<1>1. /\ Len(s) \in Nat /\ Len(t) = Len(s) - 1
      /\ \A k \in 1..(Len(s) - 1) : t[k] = s[k]
  BY ListIs, Popped DEF WellStacked
<1> HIDE DEF t
<1>2. \A k \in 1..Len(t) : k \in 1..Len(s) /\ t[k] = s[k]
  BY <1>1
<1>3. Lookups(t, e, it)
  BY <1>2 DEF Lookups
<1> QED
  BY <1>3 DEF t

\* Only the innermost lookup moves the iterator.
LEMMA LookReplace ==
  ASSUME NEW s, WellStacked(s), s # <<>>, Last(s).place = "event",
         NEW e, NEW it, NEW it2, Lookups(s, e, it),
         NEW f, IsFrame(f), f.place = "event" /\ f.alone => Look(f, e, it2)
  PROVE  Lookups([s EXCEPT ![Len(s)] = f], e, it2)
<1> DEFINE t == [s EXCEPT ![Len(s)] = f]
<1>1. /\ Len(t) = Len(s) /\ Last(t) = f
      /\ \A k \in 1..(Len(s) - 1) : t[k] = s[k]
  <2>1. LET u == [s EXCEPT ![Len(s)] = f]
        IN  /\ WellStacked(u) /\ Len(u) = Len(s) /\ u # <<>> /\ Last(u) = f
            /\ \A k \in 1..(Len(s) - 1) : u[k] = s[k]
    BY ReplaceWell
  <2> QED
    BY <2>1, Zenon
<1>2. Len(s) \in Nat \ {0}
  BY ListIs DEF WellStacked
<1> HIDE DEF t
<1>3. ASSUME NEW k \in 1..Len(t), t[k].place = "event", t[k].alone
      PROVE  Look(t[k], e, it2) /\ \A j \in 1..Len(t) : j > k => t[j].place = "callback"
  <2>1. k = Len(s)
    <3>1. SUFFICES ASSUME k # Len(s) PROVE FALSE
      OBVIOUS
    <3>2. k \in 1..Len(s) /\ Len(s) \in 1..Len(s) /\ Len(s) > k /\ t[k] = s[k]
      BY <1>1, <1>2, <3>1
    <3>3. s[Len(s)].place = "callback"
      BY <1>3, <3>2 DEF Lookups
    <3> QED
      BY <3>3 DEF Last
  <2>2. t[k] = f
    BY <1>1, <2>1 DEF Last
  <2> QED
    BY <1>1, <1>2, <1>3, <2>1, <2>2
<1>4. Lookups(t, e, it2)
  BY <1>3 DEF Lookups
<1> QED
  BY <1>4 DEF t

\* Nothing is undisturbed while the EEPROM is written.
LEMMA LookWrite ==
  ASSUME NEW s, WellStacked(s), s # <<>>, Last(s).place = "write",
         NEW e, NEW it, NEW e2, NEW it2, Lookups(s, e, it)
  PROVE  Lookups(s, e2, it2)
<1>1. Len(s) \in Nat \ {0}
  BY ListIs DEF WellStacked
<1>2. ASSUME NEW k \in 1..Len(s), s[k].place = "event", s[k].alone
      PROVE  FALSE
  <2>1. k # Len(s)
    BY <1>2 DEF Last
  <2>2. Len(s) \in 1..Len(s) /\ Len(s) > k
    BY <1>1, <2>1
  <2>3. s[Len(s)].place = "callback"
    BY <1>2, <2>2 DEF Lookups
  <2> QED
    BY <2>3 DEF Last
<1> QED
  BY <1>2 DEF Lookups

-----------------------------------------------------------------------------
(* One step of a lookup *)

LEMMA InIs == UsedIn(eeprom) = Used /\ \A p : RankIn(eeprom, p) = Rank(p)
<1>1. UsedIn(eeprom) = Used
  BY DEF UsedIn, Used, HasBit
<1> QED
  BY <1>1 DEF RankIn, Rank

\* What an undisturbed lookup that is under way knows.
LookAt(fr, it) ==
  /\ fr.n = nEntries /\ fr.i \in Nat /\ fr.i < nEntries
  /\ it.place \in Nat /\ it.entry = fr.i /\ it.count = Rank(it.place)
  /\ it = [f \in {"place", "count", "entry"} |-> it[f]]
  /\ \A s \in Used : s < it.place => Rank(s) < fr.i
  /\ fr.ran \in Seq(Used)
  /\ \A s : (\E k \in 1..Len(fr.ran) : fr.ran[k] = s)
              <=> s \in Used /\ Rank(s) < fr.i /\ eeprom[Cond(s)] = fr.cond
  /\ \A j, k \in 1..Len(fr.ran) : j < k => fr.ran[j] < fr.ran[k]

LEMMA LookIsAt ==
  ASSUME nEntries \in Nat, NEW fr, fr.i < fr.n, NEW it, Look(fr, eeprom, it)
  PROVE  LookAt(fr, it)
<1>1. ~(fr.n = -1 /\ fr.i = 0 /\ fr.ran = <<>>)
  OBVIOUS
<1>2. /\ fr.n = (IF nEntries > MaxEntries THEN 0 ELSE nEntries)
      /\ fr.i \in 0..fr.n
      /\ it \in [place: Nat, count: Nat, entry: Nat]
      /\ it.entry = fr.i /\ it.count = Rank(it.place)
      /\ \A s \in Used : s < it.place => Rank(s) < fr.i
      /\ fr.ran \in Seq(Used)
      /\ \A s : (\E k \in 1..Len(fr.ran) : fr.ran[k] = s)
                  <=> s \in Used /\ Rank(s) < fr.i /\ eeprom[Cond(s)] = fr.cond
      /\ \A j, k \in 1..Len(fr.ran) : j < k => fr.ran[j] < fr.ran[k]
  <2>1. eeprom[NEntries] = nEntries
    BY DEF nEntries
  <2> QED
    BY <1>1, <2>1, InIs, Zenon DEF Look
<1>3. fr.n = nEntries /\ fr.i \in Nat /\ fr.i < nEntries
  BY <1>2
<1>4. /\ it.place \in Nat
      /\ it = [f \in {"place", "count", "entry"} |-> it[f]]
  BY <1>2
<1> QED
  BY <1>2, <1>3, <1>4, Zenon DEF LookAt

\* The sequence of what was found, once one more entry is looked at.
Extends(ran, i, cond, ran2) ==
  /\ ran2 \in Seq(Used)
  /\ \A s : (\E k \in 1..Len(ran2) : ran2[k] = s)
              <=> s \in Used /\ Rank(s) < i + 1 /\ eeprom[Cond(s)] = cond
  /\ \A j, k \in 1..Len(ran2) : j < k => ran2[j] < ran2[k]

\* No entry of this number, or one that does not match.
LEMMA RanStays ==
  ASSUME NEW fr, NEW it, LookAt(fr, it),
         \A s \in Used : Rank(s) = fr.i => eeprom[Cond(s)] # fr.cond
  PROVE  Extends(fr.ran, fr.i, fr.cond, fr.ran \o <<>>)
<1>1. fr.ran \o <<>> = fr.ran
  BY ConcatEmptySeq DEF LookAt
<1>2. \A s \in Used : eeprom[Cond(s)] = fr.cond => (Rank(s) < fr.i <=> Rank(s) < fr.i + 1)
  <2>1. \A s : Rank(s) \in Nat
    BY RankIs
  <2> QED
    BY <2>1 DEF LookAt
<1>3. Extends(fr.ran, fr.i, fr.cond, fr.ran)
  BY <1>2, Zenon DEF LookAt, Extends
<1> QED
  BY <1>1, <1>3

LEMMA RanGrows ==
  ASSUME NEW fr, NEW it, LookAt(fr, it),
         NEW s \in Used, Rank(s) = fr.i, eeprom[Cond(s)] = fr.cond
  PROVE  Extends(fr.ran, fr.i, fr.cond, fr.ran \o <<s>>)
<1> DEFINE r == fr.ran
           t == r \o <<s>>
           n == Len(r)
<1>1. r \in Seq(Used) /\ n \in Nat /\ <<s>> \in Seq(Used) /\ Len(<<s>>) = 1 /\ <<s>>[1] = s
  BY DEF LookAt
<1>2. /\ t \in Seq(Used) /\ Len(t) = n + 1
      /\ \A k \in 1..n : t[k] = r[k]
      /\ t[n + 1] = s
  <2>1. /\ t \in Seq(Used) /\ Len(t) = n + 1
        /\ \A k \in 1..(n + 1) : t[k] = IF k <= n THEN r[k] ELSE <<s>>[k - n]
    BY <1>1, ConcatProperties
  <2> QED
    BY <1>1, <2>1
<1>3. \A x : (\E k \in 1..n : r[k] = x) <=> x \in Used /\ Rank(x) < fr.i /\ eeprom[Cond(x)] = fr.cond
  BY Zenon DEF LookAt
<1>4. \A j, k \in 1..n : j < k => r[j] < r[k]
  BY Zenon DEF LookAt
<1>5. fr.i \in Nat /\ \A x : Rank(x) \in Nat
  BY RankIs DEF LookAt
<1> HIDE DEF t, r, n
<1>6. ASSUME NEW x
      PROVE  (\E k \in 1..Len(t) : t[k] = x)
               <=> x \in Used /\ Rank(x) < fr.i + 1 /\ eeprom[Cond(x)] = fr.cond
  <2>1. (\E k \in 1..Len(t) : t[k] = x) <=> (\E k \in 1..n : r[k] = x) \/ x = s
    <3>1. (\E k \in 1..Len(t) : t[k] = x) => (\E k \in 1..n : r[k] = x) \/ x = s
      <4>1. \A k \in 1..Len(t) : k \in 1..n \/ k = n + 1
        BY <1>1, <1>2
      <4> QED
        BY <1>2, <4>1
    <3>2. (\E k \in 1..n : r[k] = x) => \E k \in 1..Len(t) : t[k] = x
      <4>1. \A k \in 1..n : k \in 1..Len(t)
        BY <1>1, <1>2
      <4> QED
        BY <1>2, <4>1
    <3>3. x = s => \E k \in 1..Len(t) : t[k] = x
      <4>1. n + 1 \in 1..Len(t)
        BY <1>1, <1>2
      <4> QED
        BY <1>2, <4>1
    <3> QED
      BY <3>1, <3>2, <3>3
  <2>2. x \in Used /\ Rank(x) = fr.i => x = s
    BY OneSlotOfRank
  <2>3. Rank(x) < fr.i + 1 <=> Rank(x) < fr.i \/ Rank(x) = fr.i
    BY <1>5
  <2> QED
    BY <1>3, <2>1, <2>2, <2>3
<1>7. ASSUME NEW j \in 1..Len(t), NEW k \in 1..Len(t), j < k
      PROVE  t[j] < t[k]
  <2>1. j \in 1..n
    BY <1>1, <1>2, <1>7
  <2>2. CASE k \in 1..n
    BY <1>2, <1>4, <1>7, <2>1, <2>2
  <2>3. CASE k \notin 1..n
    <3>1. t[k] = s
      BY <1>1, <1>2, <2>3
    <3>2. t[j] \in Used /\ Rank(t[j]) < fr.i
      BY <1>2, <1>3, <2>1
    <3>3. t[j] \in Nat /\ s \in Nat /\ t[j] # s
      BY <3>2, <1>5, UsedAre
    <3>4. ~(s < t[j])
      <4>1. SUFFICES ASSUME s < t[j] PROVE FALSE
        OBVIOUS
      <4>2. Rank(s) + 1 <= Rank(t[j])
        BY <3>2, <3>3, <4>1, RankCounts
      <4> QED
        BY <1>5, <3>2, <4>2
    <3> QED
      BY <3>1, <3>3, <3>4
  <2> QED
    BY <2>2, <2>3
<1>8. Extends(r, fr.i, fr.cond, t)
  BY <1>2, <1>6, <1>7, Zenon DEF Extends
<1> QED
  BY <1>8 DEF t, r

\* The iterator and the frame together, after one step.
LEMMA LookGoesOn ==
  ASSUME nEntries \in 0..255, nEntries <= MaxEntries, MaxEntries \in Nat,
         NEW fr, IsLookup(fr), NEW it, LookAt(fr, it),
         NEW it2, it2 \in [place: Nat, count: Nat, entry: Nat],
         it2.entry = fr.i + 1, it2.count = Rank(it2.place),
         \A s \in Used : s < it2.place => Rank(s) < fr.i + 1,
         NEW more, Extends(fr.ran, fr.i, fr.cond, fr.ran \o more)
  PROVE  Look([fr EXCEPT !.i = @ + 1, !.ran = @ \o more], eeprom, it2)
<1> DEFINE g == [fr EXCEPT !.i = @ + 1, !.ran = @ \o more]
<1>1. g.i = fr.i + 1 /\ g.ran = fr.ran \o more /\ g.n = fr.n /\ g.cond = fr.cond
  BY DEF IsLookup, EventFields
<1> HIDE DEF g
<1>2. /\ g.n = (IF eeprom[NEntries] > MaxEntries THEN 0 ELSE eeprom[NEntries])
      /\ g.i \in 0..g.n
  <2>1. eeprom[NEntries] = nEntries
    BY DEF nEntries
  <2>2. fr.n = nEntries /\ fr.i \in Nat /\ fr.i < nEntries
    BY DEF LookAt
  <2> QED
    BY <1>1, <2>1, <2>2
<1>3. /\ g.ran \in Seq(UsedIn(eeprom))
      /\ \A s : (\E k \in 1..Len(g.ran) : g.ran[k] = s)
                  <=> s \in UsedIn(eeprom) /\ RankIn(eeprom, s) < g.i /\ eeprom[Cond(s)] = g.cond
      /\ \A j, k \in 1..Len(g.ran) : j < k => g.ran[j] < g.ran[k]
  <2>1. Extends(fr.ran, fr.i, fr.cond, g.ran)
    BY <1>1, Zenon
  <2>2. g.ran \in Seq(Used)
    BY <2>1, Zenon DEF Extends
  <2>3. \A s : (\E k \in 1..Len(g.ran) : g.ran[k] = s)
                 <=> s \in Used /\ Rank(s) < g.i /\ eeprom[Cond(s)] = g.cond
    BY <1>1, <2>1, Zenon DEF Extends
  <2>4. \A j, k \in 1..Len(g.ran) : j < k => g.ran[j] < g.ran[k]
    BY <2>1, Zenon DEF Extends
  <2> QED
    BY <2>2, <2>3, <2>4, InIs, Zenon
<1>4. /\ it2.entry = g.i /\ it2.count = RankIn(eeprom, it2.place)
      /\ \A s \in UsedIn(eeprom) : s < it2.place => RankIn(eeprom, s) < g.i
  BY <1>1, InIs, Zenon
<1>5. Look(g, eeprom, it2)
  BY <1>2, <1>3, <1>4, Zenon DEF Look
<1> QED
  BY <1>5 DEF g

LEMMA LookStep ==
  ASSUME nEntries \in 0..255, NEW fr, IsLookup(fr), fr.i < fr.n,
         Look(fr, eeprom, iterator), IteratorNext
  PROVE  Look([fr EXCEPT !.i = @ + 1,
                         !.ran = @ \o SetToSeq({s \in Found : EntryAt(s).cond = fr.cond})],
              eeprom, iterator')
<1> DEFINE p == iterator.place
           matching == {s \in Found : EntryAt(s).cond = fr.cond}
<1>1. LookAt(fr, iterator)
  BY LookIsAt
<1>2. /\ p \in Nat /\ fr.i \in Nat /\ fr.i < nEntries /\ iterator.entry = fr.i
      /\ iterator.count = Rank(p)
      /\ \A s \in Used : s < p => Rank(s) < fr.i
      /\ iterator = [f \in {"place", "count", "entry"} |-> iterator[f]]
  BY <1>1, Zenon DEF LookAt
<1>3. nEntries <= MaxEntries /\ MaxEntries \in Nat
  <2>1. MaxEntries \in Nat
    BY SlotsAre, EventStoreAssumption
  <2>2. fr.n = (IF nEntries > MaxEntries THEN 0 ELSE nEntries)
    <3>1. ~(fr.n = -1 /\ fr.i = 0 /\ fr.ran = <<>>)
      BY <1>2
    <3> QED
      BY <3>1, Zenon DEF Look, nEntries
  <2>3. fr.n = nEntries
    BY <1>1, Zenon DEF LookAt
  <2> QED
    BY <1>2, <2>1, <2>2, <2>3
<1>4. Found = {s \in Used : s >= p /\ Rank(s) = fr.i}
  <2>1. Seek(fr.i, p, Rank(p)) = {s \in Used : fr.i < nEntries /\ s >= p /\ Rank(s) = fr.i}
    BY <1>2, SeekIs
  <2> QED
    BY <1>2, <2>1 DEF Found
<1>5. ASSUME NEW s \in Used, Rank(s) = fr.i PROVE s \in Found
  <2>1. ~(s < p)
    BY <1>2, <1>5
  <2> QED
    BY <1>2, <1>4, <1>5, <2>1, UsedAre
<1>6. \A s : EntryAt(s).cond = eeprom[Cond(s)]
  BY DEF EntryAt
<1>7. CASE Found = {}
  <2>1. \A s \in Used : Rank(s) # fr.i
    BY <1>5, <1>7
  <2>2. matching = {}
    BY <1>7
  <2>3. Extends(fr.ran, fr.i, fr.cond, fr.ran \o SetToSeq(matching))
    BY <1>1, <2>1, <2>2, RanStays, NoneInSequence
  <2> DEFINE end == NSectors * SectorBits
             passed == Cardinality({t \in Used : t >= p})
  <2>4. iterator' = [place |-> end, count |-> iterator.count + passed, entry |-> fr.i + 1]
    <3>1. ~(iterator.entry >= nEntries)
      BY <1>2
    <3>2. Seek(iterator.entry, iterator.place, iterator.count) = {}
      BY <1>7, Zenon DEF Found
    <3> QED
      BY <1>2, <3>1, <3>2, Zenon DEF IteratorNext
  <2>5. end \in Nat /\ \A s \in Used : s < end
    BY SlotsAre, UsedAre
  <2> HIDE DEF end
  <2>6. Rank(p) + passed = Rank(end) /\ Rank(end) \in Nat
    <3>1. CASE p <= end
      <4>1. {t \in Used : t >= p} = {t \in Used : t >= p /\ t < end}
        BY <2>5
      <4>2. Rank(p) + Cardinality({t \in Used : t >= p /\ t < end}) = Rank(end)
        BY <1>2, <2>5, <3>1, RankSum
      <4> QED
        BY <4>1, <4>2, RankIs
    <3>2. CASE ~(p <= end)
      <4>1. \A t \in Used : t < p /\ t < end /\ ~(t >= p)
        BY <1>2, <2>5, <3>2, UsedAre
      <4>2. {t \in Used : t < p} = {t \in Used : t < end} /\ {t \in Used : t >= p} = {}
        BY <4>1
      <4>3. Rank(p) = Rank(end) /\ passed = 0
        BY <4>2, FS_EmptySet DEF Rank
      <4>4. Rank(end) \in Nat
        BY RankIs
      <4> HIDE DEF passed
      <4> QED
        BY <4>3, <4>4
    <3> QED
      BY <3>1, <3>2
  <2> HIDE DEF passed
  <2>7. \A s \in Used : s < end => Rank(s) < fr.i + 1
    <3>1. ASSUME NEW s \in Used PROVE ~(fr.i < Rank(s))
      BY <1>2, <2>1, RanksFollow
    <3>2. \A s : Rank(s) \in Nat
      BY RankIs
    <3> QED
      BY <1>2, <3>1, <3>2
  <2>8. /\ iterator' \in [place: Nat, count: Nat, entry: Nat]
        /\ iterator'.entry = fr.i + 1 /\ iterator'.place = end /\ iterator'.count = Rank(end)
    BY <1>2, <2>4, <2>5, <2>6
  <2> HIDE DEF matching
  <2>9. Look([fr EXCEPT !.i = @ + 1, !.ran = @ \o SetToSeq(matching)], eeprom, iterator')
    BY <1>1, <1>3, <2>3, <2>7, <2>8, LookGoesOn
  <2> QED
    BY <2>9 DEF matching
<1>8. CASE Found # {}
  <2>1. PICK s \in Found : TRUE
    BY <1>8
  <2>2. s \in Used /\ s >= p /\ Rank(s) = fr.i /\ s \in Nat
    BY <1>4, <2>1, UsedAre
  <2>3. \A t \in Found : t = s
    BY <1>4, <2>2, OneSlotOfRank
  <2>4. Extends(fr.ran, fr.i, fr.cond, fr.ran \o SetToSeq(matching))
    <3>1. CASE eeprom[Cond(s)] = fr.cond
      <4>1. matching = {s}
        BY <1>6, <2>1, <2>3, <3>1
      <4>2. SetToSeq(matching) = <<s>>
        BY <4>1, OneInSequence
      <4> QED
        BY <1>1, <2>2, <3>1, <4>2, RanGrows
    <3>2. CASE eeprom[Cond(s)] # fr.cond
      <4>1. matching = {}
        BY <1>6, <2>1, <2>3, <3>2
      <4>2. SetToSeq(matching) = <<>>
        BY <4>1, NoneInSequence
      <4>3. \A t \in Used : Rank(t) = fr.i => eeprom[Cond(t)] # fr.cond
        BY <1>5, <2>3, <3>2
      <4> QED
        BY <1>1, <4>2, <4>3, RanStays
    <3> QED
      BY <3>1, <3>2
  <2>5. (CHOOSE t \in Found : TRUE) = s
    BY <2>1, <2>3
  <2>6. iterator' = [place |-> s, count |-> fr.i, entry |-> fr.i + 1]
    <3>1. iterator' = [place |-> CHOOSE t \in Found : TRUE, count |-> fr.i, entry |-> fr.i + 1]
      <4>1. ~(iterator.entry >= nEntries)
        BY <1>2
      <4> QED
        BY <1>2, <1>8, <4>1, Zenon DEF IteratorNext, Found
    <3> QED
      BY <2>5, <3>1, Zenon
  <2>7. /\ iterator' \in [place: Nat, count: Nat, entry: Nat]
        /\ iterator'.entry = fr.i + 1 /\ iterator'.place = s /\ iterator'.count = Rank(s)
    BY <1>2, <2>2, <2>6
  <2>8. \A t \in Used : t < s => Rank(t) < fr.i + 1
    <3>1. \A t : Rank(t) \in Nat
      BY RankIs
    <3>2. \A t \in Used : t < s => Rank(t) + 1 <= Rank(s)
      BY <2>2, RankCounts
    <3> QED
      BY <1>2, <2>2, <3>1, <3>2
  <2> HIDE DEF matching
  <2>9. Look([fr EXCEPT !.i = @ + 1, !.ran = @ \o SetToSeq(matching)], eeprom, iterator')
    BY <1>1, <1>3, <2>4, <2>7, <2>8, LookGoesOn
  <2> QED
    BY <2>9 DEF matching
<1> QED
  BY <1>7, <1>8

-----------------------------------------------------------------------------
(* The invariant *)

\* Wherever the write is cut off, the table says nothing that is not stored.
SoundAlways(e, t, may) == \A i \in 0..Len(t) : SoundFor(After(e, t, i), may)
StoreOK == IsEeprom(eeprom) /\ Sane(todo) /\ IsMay(stored) /\ SoundAlways(eeprom, todo, stored)
EndOK(f) == f.reply => SoundFor(After(eeprom, todo, Len(todo)), f.then) /\ IsMay(f.then)

EventsInv ==
  /\ WellStacked(stack) /\ Lookups(stack, eeprom, iterator)
  /\ StoreOK
  /\ todo # <<>> => Running("write")
  /\ Running("write") => EndOK(Top)
  /\ got => received \in Asks

LEMMA AfterNone == \A e, t : e = [c \in Cells |-> e[c]] => After(e, t, 0) = e
<1> TAKE e, t
<1>1. HAVE e = [c \in Cells |-> e[c]]
<1>2. 1..0 = {}
  OBVIOUS
<1>3. After(e, t, 0) = [c \in Cells |-> e[c]]
  BY <1>2, Zenon DEF After
<1> QED
  BY <1>1, <1>3

LEMMA SoundNow ==
  ASSUME StoreOK
  PROVE  SoundFor(eeprom, stored)
<1>1. 0 \in 0..Len(todo)
  <2>1. Len(todo) \in Nat
    BY DEF StoreOK, Sane
  <2> QED
    BY <2>1
<1>2. After(eeprom, todo, 0) = eeprom
  BY AfterNone DEF StoreOK, IsEeprom
<1> QED
  BY <1>1, <1>2, Zenon DEF StoreOK, SoundAlways

LEMMA NothingToDo ==
  /\ Sane(<<>>)
  /\ \A e, may : IsEeprom(e) =>
       /\ (SoundAlways(e, <<>>, may) <=> SoundFor(e, may))
       /\ After(e, <<>>, Len(<<>>)) = e
<1>1. Sane(<<>>)
  BY Nothing DEF Sane
<1>2. 0..Len(<<>>) = {0} /\ Len(<<>>) = 0
  BY Nothing
<1> QED
  BY <1>1, <1>2, AfterNone DEF SoundAlways, IsEeprom

\* The stack changes while nothing is being written.
LEMMA StackMoves ==
  ASSUME EventsInv, UNCHANGED <<eeprom, todo, stored>>, todo = <<>>,
         WellStacked(stack'), Lookups(stack', eeprom, iterator'),
         stack' # <<>> => Last(stack').place # "write",
         got' => received' \in Asks
  PROVE  EventsInv'
<1>1. StoreOK'
  BY DEF EventsInv, StoreOK
<1>2. ~Running("write")'
  BY DEF Running, Top
<1> QED
  BY <1>1, <1>2 DEF EventsInv

LEMMA NothingMoves ==
  ASSUME EventsInv, UNCHANGED <<storeVars, stored, stack>>, got' => received' \in Asks
  PROVE  EventsInv'
<1>1. StoreOK'
  BY DEF EventsInv, StoreOK, storeVars
<1>2. Running("write")' <=> Running("write")
  BY DEF Running, Top
<1>3. Running("write") => EndOK(Top)'
  BY DEF EventsInv, EndOK, Top, storeVars
<1>4. WellStacked(stack') /\ Lookups(stack', eeprom', iterator') /\ todo' = todo
  BY DEF EventsInv, storeVars
<1> QED
  BY <1>1, <1>2, <1>3, <1>4 DEF EventsInv

\* Code of the sketch is no write, and what it calls may be one.
Free == stack = <<>> \/ Running("callback")
LEMMA SketchIsFree ==
  ASSUME EventsInv, Free
  PROVE  /\ todo = <<>> /\ WellStacked(Disturbed(stack))
         /\ stack # <<>> => Last(stack).place # "write"
         /\ Disturbed(stack) # <<>> => Last(Disturbed(stack)).place # "write"
<1>1. stack # <<>> => Last(stack).place = "callback"
  BY DEF Free, Running, Top
<1>2. todo = <<>>
  BY <1>1 DEF EventsInv, Running, Top
<1>3. WellStacked(stack)
  BY DEF EventsInv
<1>4. /\ WellStacked(Disturbed(stack)) /\ Len(Disturbed(stack)) = Len(stack)
      /\ stack # <<>> => Last(Disturbed(stack)).place = Last(stack).place
  BY <1>3, DisturbWell
<1>5. Disturbed(stack) # <<>> => stack # <<>>
  BY <1>3, <1>4, ListIs DEF WellStacked
<1> QED
  BY <1>1, <1>2, <1>4, <1>5

LEMMA PushLast ==
  ASSUME NEW s, WellStacked(s), NEW f
  PROVE  Append(s, f) # <<>> /\ Last(Append(s, f)) = f
<1> DEFINE t == Append(s, f)
<1>1. IsList(t) /\ Len(t) = Len(s) + 1 /\ t[Len(s) + 1] = f /\ Len(s) \in Nat
  BY ListIs, Pushed DEF WellStacked
<1> HIDE DEF t
<1>2. t # <<>> /\ Last(t) = f
  BY <1>1, ListIs DEF Last
<1> QED
  BY <1>2 DEF t

\* A write starts.
LEMMA WriteStarts ==
  ASSUME EventsInv, Free, UNCHANGED eeprom, todo' # <<>>, Sane(todo'),
         NEW f, f.place = "write", stack' = Append(Disturbed(stack), f),
         IsMay(stored'), SoundAlways(eeprom, todo', stored'),
         f.reply => SoundFor(After(eeprom, todo', Len(todo')), f.then) /\ IsMay(f.then),
         got' => received' \in Asks
  PROVE  EventsInv'
<1>1. WellStacked(stack)
  BY DEF EventsInv
<1>2. IsFrame(f)
  BY DEF IsFrame
<1>3. WellStacked(stack')
  BY <1>2, SketchIsFree, PushWell
<1>4. Lookups(stack', eeprom, iterator')
  BY <1>1, LookDisturb
<1>5. stack' # <<>> /\ Last(stack') = f
  BY SketchIsFree, PushLast
<1>6. StoreOK'
  BY DEF StoreOK, EventsInv
<1>7. Running("write")' /\ EndOK(Top)'
  BY <1>5 DEF Running, Top, EndOK
<1> QED
  BY <1>3, <1>4, <1>6, <1>7 DEF EventsInv

-----------------------------------------------------------------------------
(* Every action keeps it *)

LEMMA StackKept ==
  ASSUME EventsInv, UNCHANGED <<storeVars, stored, stack>>, got' = FALSE
  PROVE  EventsInv'
  BY NothingMoves

LEMMA ParsesIs ==
  ASSUME NEW types, Parses(types)
  PROVE  Free /\ got /\ received.type \in types /\ got' = FALSE
  BY DEF Parses, InSketch, Free

LEMMA KeepSmall ==
  ASSUME EventsInv,
         Protocol__rxHandler \/ ParseNothing \/ ParseGetEntry \/ ParseGetAction
  PROVE  EventsInv'
<1>1. CASE Protocol__rxHandler
  <2>1. UNCHANGED <<storeVars, stored, stack>> /\ received' \in Asks
    BY <1>1 DEF Protocol__rxHandler
  <2> QED
    BY <2>1, NothingMoves
<1>2. CASE ParseNothing
  <2>1. UNCHANGED <<storeVars, stored, stack>> /\ got' = FALSE
    BY <1>2 DEF ParseNothing, Parses
  <2> QED
    BY <2>1, StackKept
<1>3. CASE ParseGetEntry
  <2>1. UNCHANGED <<storeVars, stored, stack>> /\ got' = FALSE
    BY <1>3 DEF ParseGetEntry, Parses
  <2> QED
    BY <2>1, StackKept
<1>4. CASE ParseGetAction
  <2>1. UNCHANGED <<storeVars, stored, stack>> /\ got' = FALSE
    BY <1>4 DEF ParseGetAction, Parses
  <2> QED
    BY <2>1, StackKept
<1> QED
  BY <1>1, <1>2, <1>3, <1>4

\* What only sends leaves the table, the stack and the packet alone.
LEMMA KeepSends ==
  ASSUME EventsInv, sendNow \/ requestActionThere
  PROVE  EventsInv'
<1>1. UNCHANGED <<storeVars, stored, stack, got, received>>
  BY DEF sendNow, requestActionThere, radio
<1>2. got' => received' \in Asks
  BY <1>1 DEF EventsInv
<1> QED
  BY <1>1, <1>2, NothingMoves

LEMMA StoreStarts ==
  ASSUME EventsInv, Free, got' = FALSE,
         NEW operation, NEW bytes, NEW legal, Store(operation, TRUE, bytes, legal),
         bytes # <<>>, Sane(bytes), IsMay(stored'), IsMay(legal),
         AllSound(bytes, stored'), EndSound(bytes, legal)
  PROVE  EventsInv'
<1> DEFINE f == Writing(operation, TRUE, legal)
<1>1. todo' = bytes /\ stack' = Append(Disturbed(stack), f) /\ UNCHANGED eeprom
  BY DEF Store, Writes
<1>2. f.place = "write" /\ f.then = legal
  BY DEF Writing
<1> HIDE DEF f
<1>3. SoundAlways(eeprom, todo', stored') /\ SoundFor(After(eeprom, todo', Len(todo')), f.then)
  BY <1>1, <1>2, Zenon DEF AllSound, EndSound, SoundAlways
<1> QED
  BY <1>1, <1>2, <1>3, WriteStarts

LEMMA StoreRefuses ==
  ASSUME EventsInv, got' = FALSE, UNCHANGED stored,
         NEW operation, NEW bytes, NEW legal, Store(operation, FALSE, bytes, legal)
  PROVE  EventsInv'
<1>1. UNCHANGED <<storeVars, stored, stack>>
  BY DEF Store, storeVars
<1> QED
  BY <1>1, StackKept

\* What the EEPROM, and what may be stored, are at the start of a write.
LEMMA AtStart ==
  ASSUME EventsInv
  PROVE  IsEeprom(eeprom) /\ IsMay(stored) /\ SoundFor(eeprom, stored) /\ nEntries \in 0..255
<1>1. IsEeprom(eeprom) /\ IsMay(stored)
  BY DEF EventsInv, StoreOK
<1>2. SoundFor(eeprom, stored)
  BY SoundNow DEF EventsInv
<1> QED
  BY <1>1, <1>2 DEF IsEeprom, nEntries

LEMMA FormatIs ==
  ASSUME EventsInv
  PROVE  /\ Sane(FormatBytes) /\ FormatBytes # <<>> /\ AllSound(FormatBytes, stored)
         /\ EndSound(FormatBytes, [s \in Slots |-> {}]) /\ IsMay([s \in Slots |-> {}])
<1> DEFINE after == [s \in Slots |-> {}]
<1>1. IsMay(after)
  BY DEF IsMay
<1> HIDE DEF after
<1>2. {} \in SUBSET Used /\ 0 \in 0..255 /\ \A s \in {} : after[s] = stored[s]
  OBVIOUS
<1>3. LET t == Header(0, {})
      IN  Sane(t) /\ t # <<>> /\ AllSound(t, stored) /\ EndSound(t, after)
  BY <1>2, AtStart, ShrinkIsSound
<1> QED
  BY <1>1, <1>3, Zenon DEF FormatBytes, after

LEMMA KeepClear ==
  ASSUME EventsInv, clearEntries
  PROVE  EventsInv'
<1> DEFINE after == [s \in Slots |-> {}]
<1>1. Store("clear", TRUE, FormatBytes, after) /\ stored' = stored
  BY DEF clearEntries
<1>2. Free /\ got' = FALSE
  BY ParsesIs DEF clearEntries
<1>3. /\ Sane(FormatBytes) /\ FormatBytes # <<>> /\ AllSound(FormatBytes, stored)
      /\ EndSound(FormatBytes, after) /\ IsMay(after)
  BY FormatIs, Zenon
<1> HIDE DEF after
<1>4. AllSound(FormatBytes, stored') /\ IsMay(stored')
  BY <1>1, <1>3, AtStart
<1> QED
  BY <1>1, <1>2, <1>3, <1>4, StoreStarts

LEMMA KeepAdd ==
  ASSUME EventsInv, addEntry
  PROVE  EventsInv'
<1> DEFINE entry == received.entry
           after == [stored EXCEPT ![FreeSlot] = {entry}]
           may == [stored EXCEPT ![FreeSlot] = @ \cup {entry}]
<1>1. Free /\ got /\ received.type \in {"addEntry"} /\ got' = FALSE
  BY ParsesIs DEF addEntry
<1>2. entry \in Entry
  <2>1. received \in Asks
    BY <1>1 DEF EventsInv
  <2> QED
    BY <1>1, <2>1, AquilaProtocolAssumption
<1>3. /\ Store("insert", HasRoom, AppendBytes(entry), after)
      /\ stored' = IF HasRoom THEN may ELSE stored
  BY Zenon DEF addEntry
<1>4. CASE HasRoom
  <2>1. Store("insert", TRUE, AppendBytes(entry), after) /\ stored' = may
    BY <1>3, <1>4
  <2>2. /\ Sane(AppendBytes(entry)) /\ AppendBytes(entry) # <<>>
        /\ AllSound(AppendBytes(entry), may) /\ EndSound(AppendBytes(entry), after)
    BY <1>2, <1>4, AtStart, AppendIsSound
  <2>3. IsMay(may) /\ IsMay(after)
    BY AtStart DEF IsMay
  <2> HIDE DEF may, after, entry
  <2>4. IsMay(stored') /\ AllSound(AppendBytes(entry), stored')
    BY <2>1, <2>2, <2>3
  <2> QED
    BY <1>1, <2>1, <2>2, <2>3, <2>4, StoreStarts
<1>5. CASE ~HasRoom
  <2> HIDE DEF may, after, entry
  <2>1. Store("insert", FALSE, AppendBytes(entry), after) /\ stored' = stored
    <3>1. HasRoom = FALSE
      BY <1>5 DEF HasRoom
    <3> QED
      BY <1>3, <3>1, Zenon
  <2> QED
    BY <1>1, <2>1, StoreRefuses
<1> QED
  BY <1>4, <1>5

LEMMA SlotOfUsed ==
  ASSUME NEW n, SlotOf(n) # {}
  PROVE  (CHOOSE t \in SlotOf(n) : TRUE) \in Used /\ n < nEntries
<1>1. (CHOOSE t \in SlotOf(n) : TRUE) \in SlotOf(n)
  OBVIOUS
<1> QED
  BY <1>1, SlotOfIs

LEMMA KeepSet ==
  ASSUME EventsInv, setEntry
  PROVE  EventsInv'
<1> DEFINE slots == SlotOf(received.n)
           s == CHOOSE t \in slots : TRUE
           entry == received.entry
           after == [stored EXCEPT ![s] = {entry}]
           may == [stored EXCEPT ![s] = @ \cup Mixed(EntryAt(s), entry)]
<1>1. Free /\ got /\ received.type \in {"setEntry"} /\ got' = FALSE
  BY ParsesIs DEF setEntry
<1>2. entry \in Entry
  <2>1. received \in Asks
    BY <1>1 DEF EventsInv
  <2> QED
    BY <1>1, <2>1, AquilaProtocolAssumption
<1>3. CASE slots = {}
  <2>1. Store("replace", FALSE, <<>>, stored) /\ stored' = stored
    BY <1>3, Zenon DEF setEntry
  <2> QED
    BY <1>1, <2>1, StoreRefuses
<1>4. CASE slots # {}
  <2>1. Store("replace", TRUE, SetBytes(s, entry), after) /\ stored' = may
    BY <1>4, Zenon DEF setEntry
  <2>2. s \in Used
    BY <1>4, SlotOfUsed
  <2> HIDE DEF s, entry
  <2>3. /\ Sane(SetBytes(s, entry)) /\ SetBytes(s, entry) # <<>>
        /\ AllSound(SetBytes(s, entry), may) /\ EndSound(SetBytes(s, entry), after)
    BY <1>2, <2>2, AtStart, SetIsSound
  <2>4. IsMay(may) /\ IsMay(after)
    BY AtStart DEF IsMay
  <2> HIDE DEF may, after
  <2>5. IsMay(stored') /\ AllSound(SetBytes(s, entry), stored')
    BY <2>1, <2>3, <2>4
  <2> QED
    BY <1>1, <2>1, <2>3, <2>4, <2>5, StoreStarts
<1> QED
  BY <1>3, <1>4

LEMMA KeepDel ==
  ASSUME EventsInv, delEntry
  PROVE  EventsInv'
<1> DEFINE slots == SlotOf(received.n)
           s == CHOOSE t \in slots : TRUE
           after == [stored EXCEPT ![s] = {}]
<1>1. Free /\ got /\ received.type \in {"delEntry"} /\ got' = FALSE
  BY ParsesIs DEF delEntry
<1>2. Store("remove", slots # {}, DelBytes(s), after) /\ stored' = stored
  BY Zenon DEF delEntry
<1>3. CASE slots = {}
  <2>1. Store("remove", FALSE, DelBytes(s), after)
    BY <1>2, <1>3, Zenon
  <2> HIDE DEF after, s
  <2> QED
    BY <1>1, <1>2, <2>1, StoreRefuses
<1>4. CASE slots # {}
  <2>1. Store("remove", TRUE, DelBytes(s), after)
    BY <1>2, <1>4, Zenon
  <2>2. s \in Used /\ received.n < nEntries
    BY <1>4, SlotOfUsed
  <2>3. nEntries - 1 \in 0..255
    <3>1. received \in Asks
      BY <1>1 DEF EventsInv
    <3>2. received.n \in 0..255
      BY <1>1, <3>1, AquilaProtocolAssumption
    <3> QED
      BY <2>2, <3>2, AtStart
  <2> HIDE DEF s
  <2>4. IsMay(after) /\ \A t \in Used \ {s} : after[t] = stored[t]
    <3>1. Used \subseteq Slots
      BY UsedAre
    <3> QED
      BY <3>1, AtStart DEF IsMay
  <2> HIDE DEF after
  <2>5. LET t == Header(nEntries - 1, Used \ {s})
        IN  Sane(t) /\ t # <<>> /\ AllSound(t, stored) /\ EndSound(t, after)
    <3>1. Used \ {s} \in SUBSET Used
      OBVIOUS
    <3> QED
      BY <2>3, <2>4, <3>1, AtStart, ShrinkIsSound
  <2>6. /\ Sane(DelBytes(s)) /\ DelBytes(s) # <<>> /\ AllSound(DelBytes(s), stored)
        /\ EndSound(DelBytes(s), after)
    BY <2>5, Zenon DEF DelBytes
  <2>7. IsMay(stored') /\ AllSound(DelBytes(s), stored')
    BY <1>2, <2>6, AtStart
  <2> QED
    BY <1>1, <2>1, <2>4, <2>6, <2>7, StoreStarts
<1> QED
  BY <1>3, <1>4

\* A callback or a lookup starts.
LEMMA Starts ==
  ASSUME EventsInv, Free, UNCHANGED <<storeVars, stored>>, got' => received' \in Asks,
         NEW f, IsFrame(f), f.place # "write",
         \/ stack' = Append(stack, f) /\ f.place = "callback"
         \/ stack' = Append(Disturbed(stack), f) /\ (f.place = "event" => Look(f, eeprom, iterator))
  PROVE  EventsInv'
<1>1. WellStacked(stack) /\ Lookups(stack, eeprom, iterator)
  BY DEF EventsInv
<1>2. todo = <<>> /\ UNCHANGED <<eeprom, todo, stored, iterator>>
  BY SketchIsFree DEF storeVars
<1>3. CASE stack' = Append(stack, f) /\ f.place = "callback"
  <2>1. WellStacked(stack') /\ stack' # <<>> /\ Last(stack') = f
    BY <1>1, <1>3, SketchIsFree, PushWell, PushLast
  <2>2. Lookups(stack', eeprom, iterator')
    BY <1>1, <1>2, <1>3, LookPush
  <2> QED
    BY <1>2, <2>1, <2>2, StackMoves
<1>4. CASE stack' = Append(Disturbed(stack), f) /\ (f.place = "event" => Look(f, eeprom, iterator))
  <2>1. WellStacked(stack') /\ stack' # <<>> /\ Last(stack') = f
    BY <1>1, <1>4, SketchIsFree, PushWell, PushLast
  <2>2. Lookups(stack', eeprom, iterator')
    BY <1>1, <1>2, <1>4, LookDisturb
  <2> QED
    BY <1>2, <2>1, <2>2, StackMoves
<1> QED
  BY <1>3, <1>4

LEMMA CallbackIs == \A reply : IsFrame(Callback(reply)) /\ Callback(reply).place = "callback"
  BY DEF Callback, IsFrame

LEMMA LookupIs ==
  ASSUME NEW cond \in Conds
  PROVE  /\ IsFrame(Lookup(cond)) /\ Lookup(cond).place = "event"
         /\ Look(Lookup(cond), eeprom, iterator)
<1>1. Lookup(cond) = [x \in EventFields |-> Lookup(cond)[x]]
  BY DEF Lookup, EventFields
<1>2. /\ Lookup(cond).place = "event" /\ Lookup(cond).cond = cond /\ Lookup(cond).n = -1
      /\ Lookup(cond).i = 0 /\ Lookup(cond).ran = <<>>
  BY DEF Lookup
<1>3. IsFrame(Lookup(cond))
  BY <1>1, <1>2 DEF IsFrame, IsLookup
<1>4. Look(Lookup(cond), eeprom, iterator)
  BY <1>2 DEF Look
<1> QED
  BY <1>2, <1>3, <1>4

LEMMA KeepAction ==
  ASSUME EventsInv, ParseAction
  PROVE  EventsInv'
<1>1. Free /\ got' = FALSE
  BY ParsesIs DEF ParseAction
<1>2. UNCHANGED <<storeVars, stored>>
  BY DEF ParseAction
<1>3. stack' = Append(Disturbed(stack), Callback(TRUE)) \/ stack' = stack
  BY DEF ParseAction
<1>4. CASE stack' = Append(Disturbed(stack), Callback(TRUE))
  <2>1. IsFrame(Callback(TRUE)) /\ Callback(TRUE).place = "callback"
    BY CallbackIs
  <2> QED
    BY <1>1, <1>2, <1>4, <2>1, Starts
<1>5. CASE stack' = stack
  BY <1>1, <1>2, <1>5, StackKept
<1> QED
  BY <1>3, <1>4, <1>5

LEMMA KeepEvent ==
  ASSUME EventsInv, ParseEvent
  PROVE  EventsInv'
<1>1. Free /\ got /\ received.type \in {"event"} /\ got' = FALSE
  BY ParsesIs DEF ParseEvent
<1>2. received.cond \in Conds
  <2>1. received \in Asks
    BY <1>1 DEF EventsInv
  <2> QED
    BY <1>1, <2>1, AquilaProtocolAssumption
<1>3. UNCHANGED <<storeVars, stored>> /\ stack' = Append(Disturbed(stack), Lookup(received.cond))
  BY DEF ParseEvent
<1>4. /\ IsFrame(Lookup(received.cond)) /\ Lookup(received.cond).place = "event"
      /\ Look(Lookup(received.cond), eeprom, iterator)
  BY <1>2, LookupIs
<1> QED
  BY <1>1, <1>3, <1>4, Starts

LEMMA KeepEmit ==
  ASSUME EventsInv, NEW cond \in Conds, emit(cond)
  PROVE  EventsInv'
<1>1. Free /\ UNCHANGED <<storeVars, stored, got, received>>
      /\ stack' = Append(Disturbed(stack), Lookup(cond))
  BY DEF emit, InSketch, Free, radio
<1>2. /\ IsFrame(Lookup(cond)) /\ Lookup(cond).place = "event"
      /\ Look(Lookup(cond), eeprom, iterator)
  BY LookupIs
<1>3. got' => received' \in Asks
  BY <1>1 DEF EventsInv
<1> QED
  BY <1>1, <1>2, <1>3, Starts

LEMMA KeepRequest ==
  ASSUME EventsInv, NEW n, requestAction(n)
  PROVE  EventsInv'
<1>1. Free /\ UNCHANGED <<storeVars, stored, got, received>>
      /\ stack' = Append(stack, Callback(FALSE))
  BY DEF requestAction, InSketch, Free, radio, Push
<1>2. IsFrame(Callback(FALSE)) /\ Callback(FALSE).place = "callback"
  BY CallbackIs
<1>3. got' => received' \in Asks
  BY <1>1 DEF EventsInv
<1> QED
  BY <1>1, <1>2, <1>3, Starts

\* What is innermost returns.
LEMMA Returns ==
  ASSUME EventsInv, stack # <<>>, todo = <<>>, Pop,
         UNCHANGED <<eeprom, todo, iterator, got, received>>,
         IsMay(stored'), SoundFor(eeprom, stored')
  PROVE  EventsInv'
<1>1. WellStacked(stack) /\ Lookups(stack, eeprom, iterator)
  BY DEF EventsInv
<1>2. WellStacked(stack') /\ (stack' # <<>> => Last(stack').place # "write")
  BY <1>1, PopWell DEF Pop
<1>3. Lookups(stack', eeprom, iterator')
  BY <1>1, LookPop DEF Pop
<1>4. StoreOK'
  <2>1. IsEeprom(eeprom) /\ Sane(<<>>)
    BY NothingToDo DEF EventsInv, StoreOK
  <2>2. SoundAlways(eeprom, <<>>, stored')
    BY <2>1, NothingToDo
  <2> QED
    BY <2>1, <2>2 DEF StoreOK
<1>5. ~Running("write")' /\ todo' = <<>>
  BY <1>2 DEF Running, Top
<1> QED
  BY <1>2, <1>3, <1>4, <1>5 DEF EventsInv

LEMMA KeepReturns ==
  ASSUME EventsInv, FormatDone \/ Acknowledge \/ EventDone \/ CallbackReturns
  PROVE  EventsInv'
<1>1. IsMay(stored) /\ SoundFor(eeprom, stored)
  BY AtStart
<1>2. \A place : Running(place) => stack # <<>> /\ (place # "write" => todo = <<>>)
  BY DEF Running, EventsInv
<1>3. CASE FormatDone
  <2>1. /\ stack # <<>> /\ todo = <<>> /\ Pop
        /\ UNCHANGED <<eeprom, todo, iterator, got, received, stored>>
    BY <1>2, <1>3 DEF FormatDone, storeVars, radio
  <2> QED
    BY <1>1, <2>1, Returns
<1>4. CASE Acknowledge
  <2>1. /\ stack # <<>> /\ todo = <<>> /\ Pop /\ Running("write") /\ Top.reply
        /\ stored' = Top.then
        /\ UNCHANGED <<eeprom, todo, iterator, got, received>>
    BY <1>2, <1>4 DEF Acknowledge, storeVars, radio
  <2>2. SoundFor(After(eeprom, todo, Len(todo)), Top.then) /\ IsMay(Top.then)
    BY <2>1 DEF EventsInv, EndOK
  <2>3. After(eeprom, todo, Len(todo)) = eeprom
    BY <2>1, AtStart, NothingToDo
  <2>4. IsMay(stored') /\ SoundFor(eeprom, stored')
    BY <2>1, <2>2, <2>3
  <2> QED
    BY <2>1, <2>4, Returns
<1>5. CASE EventDone
  <2>1. /\ stack # <<>> /\ todo = <<>> /\ Pop
        /\ UNCHANGED <<eeprom, todo, iterator, got, received, stored>>
    BY <1>2, <1>5 DEF EventDone, Stays, storeVars, radio
  <2> QED
    BY <1>1, <2>1, Returns
<1>6. CASE CallbackReturns
  <2>1. /\ stack # <<>> /\ todo = <<>> /\ Pop
        /\ UNCHANGED <<eeprom, todo, iterator, got, received, stored>>
    BY <1>2, <1>6 DEF CallbackReturns, storeVars, radio
  <2> QED
    BY <1>1, <2>1, Returns
<1> QED
  BY <1>3, <1>4, <1>5, <1>6

\* A lookup goes on, and may call an action.
LEMMA GoesOn ==
  ASSUME EventsInv, Running("event"), UNCHANGED <<eeprom, todo, stored, got, received>>,
         NEW f, IsFrame(f), f.place = "event", f.alone => Look(f, eeprom, iterator'),
         \/ stack' = Updated(f)
         \/ stack' = Append(Updated(f), Callback(FALSE))
  PROVE  EventsInv'
<1> DEFINE t == Updated(f)
<1>1. /\ WellStacked(stack) /\ Lookups(stack, eeprom, iterator) /\ stack # <<>>
      /\ Last(stack).place = "event" /\ todo = <<>>
  BY DEF EventsInv, Running, Top
<1>2. WellStacked(t) /\ t # <<>> /\ Last(t) = f
  <2>1. LET u == [stack EXCEPT ![Len(stack)] = f]
        IN  /\ WellStacked(u) /\ Len(u) = Len(stack) /\ u # <<>> /\ Last(u) = f
            /\ \A k \in 1..(Len(stack) - 1) : u[k] = stack[k]
    BY <1>1, ReplaceWell
  <2> QED
    BY <2>1, Zenon DEF Updated
<1>3. Lookups(t, eeprom, iterator')
  BY <1>1, LookReplace DEF Updated
<1>4. got' => received' \in Asks
  BY DEF EventsInv
<1> HIDE DEF t
<1>5. CASE stack' = t
  BY <1>1, <1>2, <1>3, <1>4, <1>5, StackMoves
<1>6. CASE stack' = Append(t, Callback(FALSE))
  <2>1. IsFrame(Callback(FALSE)) /\ Callback(FALSE).place = "callback"
    BY CallbackIs
  <2>2. WellStacked(stack') /\ stack' # <<>> /\ Last(stack') = Callback(FALSE)
    BY <1>2, <1>6, <2>1, PushWell, PushLast
  <2>3. Lookups(stack', eeprom, iterator')
    BY <1>2, <1>3, <1>6, <2>1, LookPush
  <2> QED
    BY <1>1, <1>4, <2>1, <2>2, <2>3, StackMoves
<1> QED
  BY <1>5, <1>6 DEF t

\* What stands innermost, and that no field of it is lost.
LEMMA TopIsLookup ==
  ASSUME EventsInv, Running("event")
  PROVE  IsLookup(Top) /\ (Top.alone => Look(Top, eeprom, iterator))
<1>1. WellStacked(stack) /\ Lookups(stack, eeprom, iterator)
  BY DEF EventsInv
<1>2. stack # <<>> /\ Top.place = "event" /\ Top = stack[Len(stack)]
  BY DEF Running, Top, Last
<1>3. Len(stack) \in 1..Len(stack)
  BY <1>1, <1>2, ListIs DEF WellStacked
<1>4. IsFrame(Top) /\ (Top.alone => Look(Top, eeprom, iterator))
  BY <1>1, <1>2, <1>3, Zenon DEF WellStacked, Lookups
<1> QED
  BY <1>2, <1>4 DEF IsFrame

LEMMA KeepLocal ==
  ASSUME EventsInv, checkLocalEvent
  PROVE  EventsInv'
<1> DEFINE fr == Top
           f == [fr EXCEPT !.sub = @ + 1]
<1>1. /\ Running("event") /\ UNCHANGED <<eeprom, todo, iterator, stored, got, received>>
      /\ stack' = Updated(f) \/ stack' = Append(Updated(f), Callback(FALSE))
  BY DEF checkLocalEvent, Stays, radio, storeVars
<1>2. IsLookup(fr) /\ (fr.alone => Look(fr, eeprom, iterator))
  BY <1>1, TopIsLookup
<1> HIDE DEF fr
<1>3. /\ f = [x \in EventFields |-> f[x]] /\ f.place = "event" /\ f.cond = fr.cond
      /\ f.alone = fr.alone /\ f.i = fr.i /\ f.n = fr.n /\ f.ran = fr.ran
  BY <1>2 DEF IsLookup, EventFields
<1> HIDE DEF f
<1>4. IsFrame(f)
  BY <1>2, <1>3 DEF IsFrame, IsLookup
<1>5. f.alone => Look(f, eeprom, iterator')
  <2>1. ASSUME Look(fr, eeprom, iterator) PROVE Look(f, eeprom, iterator)
    BY <1>3, <2>1, LookSame
  <2> QED
    BY <1>1, <1>2, <1>3, <2>1
<1> QED
  BY <1>1, <1>3, <1>4, <1>5, GoesOn

LEMMA KeepBegins ==
  ASSUME EventsInv, IterateBegin
  PROVE  EventsInv'
<1> DEFINE fr == Top
           n == IF nEntries > MaxEntries THEN 0 ELSE nEntries
           f == [fr EXCEPT !.n = n]
<1>1. /\ Running("event") /\ UNCHANGED <<eeprom, todo, stored, got, received>>
      /\ fr.n = -1 /\ iterator' = IteratorStart /\ stack' = Updated(f)
  BY Zenon DEF IterateBegin, Stays, radio
<1>2. IsLookup(fr) /\ (fr.alone => Look(fr, eeprom, iterator))
  BY <1>1, TopIsLookup
<1>3. MaxEntries \in Nat /\ nEntries \in 0..255
  BY SlotsAre, EventStoreAssumption, AtStart
<1>4. n \in Nat /\ n = IF eeprom[NEntries] > MaxEntries THEN 0 ELSE eeprom[NEntries]
  BY <1>3 DEF nEntries
<1> HIDE DEF fr, n
<1>5. /\ f = [x \in EventFields |-> f[x]] /\ f.place = "event" /\ f.cond = fr.cond
      /\ f.alone = fr.alone /\ f.i = fr.i /\ f.n = n /\ f.ran = fr.ran
  BY <1>2 DEF IsLookup, EventFields
<1> HIDE DEF f
<1>6. IsFrame(f)
  BY <1>2, <1>5 DEF IsFrame, IsLookup
<1>7. ASSUME f.alone PROVE Look(f, eeprom, iterator')
  <2>1. f.i = 0 /\ f.ran = <<>>
    <3>1. Look(fr, eeprom, iterator)
      BY <1>2, <1>5, <1>7
    <3>2. ~(fr.n = IF eeprom[NEntries] > MaxEntries THEN 0 ELSE eeprom[NEntries])
      BY <1>1, <1>4
    <3> QED
      BY <1>5, <3>1, <3>2, Zenon DEF Look
  <2>2. f.n = (IF eeprom[NEntries] > MaxEntries THEN 0 ELSE eeprom[NEntries]) /\ f.i \in 0..f.n
    BY <1>4, <1>5, <2>1
  <2> DEFINE it == iterator'
  <2>3. it \in [place: Nat, count: Nat, entry: Nat] /\ it.entry = 0 /\ it.place = 0 /\ it.count = 0
    BY <1>1 DEF IteratorStart
  <2>4. \A s \in UsedIn(eeprom) : ~(s < 0)
    BY InIs, UsedAre
  <2>5. RankIn(eeprom, 0) = 0 /\ \A s : ~(RankIn(eeprom, s) < 0)
    <3>1. RankIn(eeprom, 0) = 0
      BY InIs, RankOfNone
    <3>2. ASSUME NEW s PROVE ~(RankIn(eeprom, s) < 0)
      <4>1. RankIn(eeprom, s) \in Nat
        BY InIs, RankIs, Zenon
      <4> QED
        BY <4>1
    <3> QED
      BY <3>1, <3>2
  <2>6. f.ran \in Seq(UsedIn(eeprom)) /\ Len(f.ran) = 0
    BY <2>1
  <2>7. 1..Len(f.ran) = {}
    BY <2>6
  <2> HIDE DEF it
  <2>8. /\ \A s \in UsedIn(eeprom) : s < it.place => RankIn(eeprom, s) < f.i
        /\ \A s : (\E k \in 1..Len(f.ran) : f.ran[k] = s)
                    <=> s \in UsedIn(eeprom) /\ RankIn(eeprom, s) < f.i /\ eeprom[Cond(s)] = f.cond
        /\ \A j, k \in 1..Len(f.ran) : j < k => f.ran[j] < f.ran[k]
    BY <2>1, <2>3, <2>4, <2>5, <2>7, Zenon
  <2>9. Look(f, eeprom, it)
    BY <2>1, <2>2, <2>3, <2>5, <2>6, <2>8, Zenon DEF Look
  <2> QED
    BY <2>9 DEF it
<1> QED
  BY <1>1, <1>5, <1>6, <1>7, GoesOn

LEMMA KeepIterate ==
  ASSUME EventsInv, Iterate
  PROVE  EventsInv'
<1> DEFINE fr == Top
           more == SetToSeq({s \in Found : EntryAt(s).cond = fr.cond})
           f == [fr EXCEPT !.i = @ + 1, !.ran = @ \o more]
<1>1. /\ Running("event") /\ UNCHANGED <<eeprom, todo, stored, got, received>>
      /\ fr.i < fr.n /\ IteratorNext
      /\ stack' = Updated(f) \/ stack' = Append(Updated(f), Callback(FALSE))
  BY Zenon DEF Iterate, Stays, radio
<1>2. IsLookup(fr) /\ (fr.alone => Look(fr, eeprom, iterator))
  BY <1>1, TopIsLookup
<1>3. nEntries \in 0..255
  BY AtStart
<1> HIDE DEF fr
<1>4. fr.alone => Look(f, eeprom, iterator')
  BY <1>1, <1>2, <1>3, LookStep
<1> HIDE DEF more
<1>5. /\ f = [x \in EventFields |-> f[x]] /\ f.place = "event" /\ f.cond = fr.cond
      /\ f.alone = fr.alone
  BY <1>2 DEF IsLookup, EventFields
<1> HIDE DEF f
<1>6. IsFrame(f)
  BY <1>2, <1>5 DEF IsFrame, IsLookup
<1> QED
  BY <1>1, <1>4, <1>5, <1>6, GoesOn

\* One byte less to be written, and one more is there.
LEMMA KeepByte ==
  ASSUME EventsInv, Byte
  PROVE  EventsInv'
<1> DEFINE e2 == [eeprom EXCEPT ![todo[1][1]] = todo[1][2]]
           t2 == Tail(todo)
<1>1. /\ todo # <<>> /\ eeprom' = e2 /\ todo' = t2
      /\ UNCHANGED <<iterator, stack, stored, got, received>>
  BY DEF Byte, WriteByte, radio
<1>2. /\ IsEeprom(eeprom) /\ Sane(todo) /\ IsMay(stored) /\ SoundAlways(eeprom, todo, stored)
      /\ eeprom = [c \in Cells |-> eeprom[c]] /\ todo \in Seq(Bytes) /\ Distinct(todo)
  BY DEF EventsInv, StoreOK, IsEeprom, Sane
<1>3. /\ t2 \in Seq(Bytes) /\ Len(t2) = Len(todo) - 1 /\ Distinct(t2) /\ Len(todo) \in Nat
      /\ \A j \in 1..Len(t2) : t2[j] = todo[j + 1]
      /\ \A i \in 0..Len(t2) : After(e2, t2, i) = After(eeprom, todo, i + 1)
  <2>1. Len(t2) \in Nat /\ Len(todo) \in Nat
    BY <1>1, <1>2
  <2>2. 0 \in 0..Len(t2)
    BY <2>1
  <2> QED
    BY <1>1, <1>2, <2>1, <2>2, AfterByte
<1>4. 1 \in DOMAIN todo /\ todo[1] \in Bytes /\ todo[1][1] \in Cells
  <2>1. 1 \in DOMAIN todo /\ todo[1] \in Bytes
    BY <1>1, <1>2
  <2> QED
    BY <2>1 DEF Bytes
<1>5. IsEeprom(e2)
  <2>1. e2 = [c \in Cells |-> e2[c]]
    BY <1>2
  <2>2. e2[NEntries] \in 0..255
    <3>1. NEntries \in Cells
      BY AreCells
    <3>2. e2[NEntries] = IF todo[1][1] = NEntries THEN todo[1][2] ELSE eeprom[NEntries]
      BY <1>2, <3>1
    <3>3. todo[1][1] = NEntries => todo[1][2] \in 0..255
      BY <1>2, <1>4 DEF Sane
    <3>4. eeprom[NEntries] \in 0..255
      BY <1>2 DEF IsEeprom
    <3> QED
      BY <3>2, <3>3, <3>4
  <2> QED
    BY <2>1, <2>2 DEF IsEeprom
<1> HIDE DEF e2, t2
<1>6. Sane(t2)
  <2>1. ASSUME NEW j \in DOMAIN t2, t2[j][1] = NEntries PROVE t2[j][2] \in 0..255
    <3>1. j \in 1..Len(t2) /\ j + 1 \in DOMAIN todo /\ t2[j] = todo[j + 1]
      BY <1>2, <1>3
    <3> QED
      BY <1>2, <2>1, <3>1 DEF Sane
  <2> QED
    BY <1>3, <2>1 DEF Sane
<1>7. SoundAlways(e2, t2, stored)
  <2>1. \A i \in 0..Len(t2) : i + 1 \in 0..Len(todo)
    BY <1>3
  <2> QED
    BY <1>2, <1>3, <2>1 DEF SoundAlways
<1>8. StoreOK'
  BY <1>1, <1>2, <1>5, <1>6, <1>7 DEF StoreOK
<1>9. After(e2, t2, Len(t2)) = After(eeprom, todo, Len(todo))
  <2>1. Len(t2) \in 0..Len(t2) /\ Len(t2) + 1 = Len(todo)
    BY <1>3
  <2> QED
    BY <1>3, <2>1
<1>10. Running("write") /\ EndOK(Top) /\ WellStacked(stack) /\ Lookups(stack, eeprom, iterator)
  BY <1>1 DEF EventsInv
<1>11. Running("write")' /\ EndOK(Top)'
  BY <1>1, <1>9, <1>10 DEF Running, Top, EndOK
<1>12. Lookups(stack, e2, iterator)
  BY <1>10, LookWrite DEF Running, Top
<1>13. WellStacked(stack') /\ Lookups(stack', eeprom', iterator') /\ (got' => received' \in Asks)
  BY <1>1, <1>10, <1>12 DEF EventsInv
<1> QED
  BY <1>8, <1>11, <1>13 DEF EventsInv

LEMMA EmptyStack ==
  /\ WellStacked(<<>>) /\ Disturbed(<<>>) = <<>>
  /\ \A e, it : Lookups(<<>>, e, it)
<1>1. IsList(<<>>) /\ DOMAIN <<>> = {} /\ 1..Len(<<>>) = {}
  <2>1. <<>> \in Seq({})
    OBVIOUS
  <2>2. IsList(<<>>)
    BY <2>1, SeqIsList
  <2>3. 1..0 = {}
    OBVIOUS
  <2> QED
    BY <2>2, <2>3, Nothing
<1>2. WellStacked(<<>>)
  BY <1>1 DEF WellStacked
<1>3. \A e, it : Lookups(<<>>, e, it)
  BY <1>1 DEF Lookups
<1>4. Disturbed(<<>>) = <<>>
  <2>1. WellStacked(Disturbed(<<>>)) /\ Len(Disturbed(<<>>)) = Len(<<>>)
    BY <1>2, DisturbWell
  <2> QED
    BY <2>1, ListIs DEF WellStacked
<1> QED
  BY <1>2, <1>3, <1>4

LEMMA KeepBegin ==
  ASSUME EventsInv, begin
  PROVE  EventsInv'
<1>1. /\ todo = <<>> /\ stack = <<>> /\ got' = FALSE
      /\ UNCHANGED <<eeprom, iterator, stored>>
  BY DEF begin
<1>2. CASE eeprom[Signature]
  <2>1. UNCHANGED <<storeVars, stored, stack>>
    BY <1>1, <1>2 DEF begin, storeVars
  <2> QED
    BY <1>1, <2>1, StackKept
<1>3. CASE ~eeprom[Signature]
  <2> DEFINE legal == [s \in Slots |-> {}]
             f == Writing("clear", FALSE, legal)
  <2>1. todo' = FormatBytes /\ stack' = Append(stack, f)
    BY <1>3 DEF begin, Writes, Push
  <2>2. f.place = "write" /\ ~f.reply
    BY DEF Writing
  <2> HIDE DEF f
  <2>3. /\ Sane(FormatBytes) /\ FormatBytes # <<>> /\ SoundAlways(eeprom, FormatBytes, stored)
        /\ IsMay(stored)
    BY FormatIs, AtStart DEF AllSound, SoundAlways
  <2>4. stack' = Append(Disturbed(stack), f) /\ Free
    BY <1>1, <2>1, EmptyStack DEF Free
  <2> QED
    BY <1>1, <2>1, <2>2, <2>3, <2>4, WriteStarts
<1> QED
  BY <1>2, <1>3

LEMMA KeepReset ==
  ASSUME EventsInv, Reset
  PROVE  EventsInv'
<1>1. todo' = <<>> /\ stack' = <<>> /\ got' = FALSE /\ UNCHANGED <<eeprom, stored>>
  BY DEF Reset
<1>2. IsEeprom(eeprom) /\ IsMay(stored) /\ SoundFor(eeprom, stored)
  BY AtStart
<1>3. StoreOK'
  <2>1. SoundAlways(eeprom, <<>>, stored) /\ Sane(<<>>)
    BY <1>2, NothingToDo
  <2> QED
    BY <1>1, <1>2, <2>1 DEF StoreOK
<1>4. WellStacked(stack') /\ Lookups(stack', eeprom', iterator')
  BY <1>1, EmptyStack
<1>5. ~Running("write")'
  BY <1>1 DEF Running
<1> QED
  BY <1>1, <1>3, <1>4, <1>5 DEF EventsInv

-----------------------------------------------------------------------------
(* The tables a node may start with *)

\* Which cell is which.
LEMMA CellIs ==
  /\ Signature[1] = "signature" /\ NEntries[1] = "nEntries"
  /\ \A k : /\ Sector(k)[1] = "sector" /\ Sector(k)[2] = k
            /\ Cond(k)[1] = "cond" /\ Cond(k)[2] = k
            /\ Act(k)[1] = "act" /\ Act(k)[2] = k
            /\ {Sector(k), Cond(k), Act(k)} \cap {Signature, NEntries} = {}
  /\ NEntries # Signature
  BY DEF Signature, NEntries, Sector, Cond, Act

LEMMA ErasedIs ==
  /\ IsEeprom(Erased)
  /\ \A s \in Slots : Erased[Cond(s)] = Blank
<1>1. Erased = [c \in Cells |-> Erased[c]]
  BY DEF Erased
<1>2. Erased[NEntries] = 255
  BY AreCells, CellIs DEF Erased
<1>3. ASSUME NEW s \in Slots PROVE Erased[Cond(s)] = Blank
  BY AreCells, CellIs DEF Erased
<1>4. IsEeprom(Erased)
  BY <1>1, <1>2 DEF IsEeprom
<1> QED
  BY <1>3, <1>4

LEMMA FilledIs ==
  ASSUME NEW entries \in Seq(Entry), Len(entries) <= MaxEntries
  PROVE  /\ IsEeprom(Filled(entries))
         /\ \A s \in Slots : HasBit(Filled(entries), s) =>
              /\ s < Len(entries)
              /\ Filled(entries)[Cond(s)] = entries[s + 1].cond
              /\ Filled(entries)[Act(s)] = entries[s + 1].act
<1> DEFINE used == 0..(Len(entries) - 1)
           F == Filled(entries)
<1>1. Len(entries) \in Nat /\ MaxEntries \in Nat /\ MaxEntries < 255
  BY SlotsAre, EventStoreAssumption
<1>2. F = [c \in Cells |-> F[c]]
  BY DEF Filled
<1>3. F[NEntries] = Len(entries)
  BY AreCells, CellIs DEF Filled
<1>4. IsEeprom(F)
  <2>1. Len(entries) \in 0..255
    <3>1. \A n, m \in Nat : n <= m /\ m < 255 => n \in 0..255
      OBVIOUS
    <3> QED
      BY <1>1, <3>1, Zenon
  <2> HIDE DEF F
  <2> QED
    BY <1>2, <1>3, <2>1 DEF IsEeprom
<1>5. ASSUME NEW s \in Slots, HasBit(F, s) PROVE s \in used
  <2> DEFINE k == s \div SectorBits
             bits == {t % SectorBits : t \in {t \in used : t \div SectorBits = k}}
             c == Sector(k)
  <2>1. F[c] = bits
    <3>1. c \in Cells /\ c # Signature /\ c # NEntries /\ c[1] = "sector" /\ c[2] = k
      BY AreCells, CellIs
    <3> HIDE DEF c, k
    <3> QED
      BY <3>1, Zenon DEF Filled
  <2>2. s % SectorBits \in bits
    BY <1>5, <2>1 DEF HasBit
  <2>3. PICK t \in used : t \div SectorBits = s \div SectorBits /\ t % SectorBits = s % SectorBits
    BY <2>2
  <2>4. t \in Slots
    <3>1. MaxEntries = NSectors * SectorBits
      BY EventStoreAssumption
    <3> QED
      BY <1>1, <3>1 DEF Slots
  <2> QED
    BY <2>3, <2>4, SameSlot
<1>6. ASSUME NEW s \in Slots, s \in used
      PROVE  F[Cond(s)] = entries[s + 1].cond /\ F[Act(s)] = entries[s + 1].act
  <2> DEFINE c == Cond(s)
             a == Act(s)
  <2>1. /\ c \in Cells /\ c # Signature /\ c # NEntries
        /\ c[1] = "cond" /\ c[1] # "sector" /\ c[2] = s
    BY AreCells, CellIs
  <2>2. /\ a \in Cells /\ a # Signature /\ a # NEntries
        /\ a[1] = "act" /\ a[1] # "sector" /\ a[1] # "cond" /\ a[2] = s
    BY AreCells, CellIs
  <2> HIDE DEF c, a
  <2>3. F[c] = entries[c[2] + 1].cond
    BY <1>6, <2>1, Zenon DEF Filled
  <2>4. F[a] = entries[a[2] + 1].act
    BY <1>6, <2>2, Zenon DEF Filled
  <2> QED
    BY <2>1, <2>2, <2>3, <2>4 DEF c, a
<1>7. \A s \in used : s < Len(entries)
  BY <1>1
<1> HIDE DEF used, F
<1>8. \A s \in Slots : HasBit(F, s) =>
        /\ s < Len(entries)
        /\ F[Cond(s)] = entries[s + 1].cond
        /\ F[Act(s)] = entries[s + 1].act
  BY <1>5, <1>6, <1>7
<1> QED
  BY <1>4, <1>8 DEF F

LEMMA StartsSound ==
  ASSUME Init
  PROVE  IsEeprom(eeprom) /\ IsMay(stored) /\ SoundFor(eeprom, stored)
<1>1. CASE eeprom = Erased /\ stored = [s \in Slots |-> {}]
  <2>1. Blank \notin Conds
    BY EventStoreAssumption
  <2>2. SoundFor(eeprom, stored)
    BY <1>1, <2>1, ErasedIs DEF SoundFor
  <2> QED
    BY <1>1, <2>2, ErasedIs DEF IsMay
<1>2. ASSUME NEW entries \in Tables, eeprom = Filled(entries),
             stored = [s \in Slots |-> IF s < Len(entries) THEN {entries[s + 1]} ELSE {}]
      PROVE  IsEeprom(eeprom) /\ IsMay(stored) /\ SoundFor(eeprom, stored)
  <2>1. entries \in Seq(Entry) /\ Len(entries) <= MaxEntries
    BY AquilaProtocolAssumption
  <2>2. ASSUME NEW s \in Slots, HasBit(eeprom, s)
        PROVE  [cond |-> eeprom[Cond(s)], act |-> eeprom[Act(s)]] \in stored[s]
    <3>1. s < Len(entries) /\ eeprom[Cond(s)] = entries[s + 1].cond /\ eeprom[Act(s)] = entries[s + 1].act
      BY <1>2, <2>1, <2>2, FilledIs
    <3>2. entries[s + 1] \in Entry
      <4>1. s \in Nat
        BY SlotsAre
      <4> QED
        BY <2>1, <3>1, <4>1
    <3>3. [cond |-> entries[s + 1].cond, act |-> entries[s + 1].act] = entries[s + 1]
      BY <3>2 DEF Entry
    <3> QED
      BY <1>2, <3>1, <3>3
  <2>3. SoundFor(eeprom, stored)
    BY <2>2 DEF SoundFor
  <2> QED
    BY <1>2, <2>1, <2>3, FilledIs DEF IsMay
<1> QED
  BY <1>1, <1>2 DEF Init

LEMMA EventsInit ==
  ASSUME Init
  PROVE  EventsInv
<1>1. todo = <<>> /\ stack = <<>> /\ got = FALSE
  BY DEF Init, StoreInit
<1>2. Sane(<<>>) /\ SoundAlways(eeprom, <<>>, stored)
  BY StartsSound, NothingToDo
<1>3. StoreOK
  BY <1>1, <1>2, StartsSound DEF StoreOK
<1>4. ~Running("write")
  BY <1>1 DEF Running
<1> QED
  BY <1>1, <1>3, <1>4, EmptyStack DEF EventsInv

LEMMA EventsNext ==
  ASSUME EventsInv, [Next]_vars
  PROVE  EventsInv'
<1>1. CASE Step
  BY <1>1, KeepBegin, KeepReturns, KeepByte, KeepLocal, KeepBegins, KeepIterate DEF Step
<1>2. CASE Parse
  BY <1>2, KeepSmall, KeepClear, KeepAdd, KeepSet, KeepDel, KeepAction, KeepEvent DEF Parse
<1>3. CASE Protocol__rxHandler
  BY <1>3, KeepSmall
<1>4. CASE \E cond \in Conds : emit(cond)
  BY <1>4, KeepEmit
<1>5. CASE \E n \in 0..(MaxActions - 1) : requestAction(n)
  BY <1>5, KeepRequest
<1>6. CASE Reset
  BY <1>6, KeepReset
<1>7. CASE sendNow \/ requestActionThere
  BY <1>7, KeepSends
<1>8. CASE UNCHANGED vars
  <2>1. UNCHANGED <<storeVars, stored, stack, got, received>>
    BY <1>8 DEF vars, radio
  <2>2. got' => received' \in Asks
    BY <2>1 DEF EventsInv
  <2> QED
    BY <2>1, <2>2, NothingMoves
<1> QED
  BY <1>1, <1>2, <1>3, <1>4, <1>5, <1>6, <1>7, <1>8 DEF Next

-----------------------------------------------------------------------------
(* What an event runs *)

LEMMA VisibleAre ==
  ASSUME nEntries \in 0..255, nEntries <= MaxEntries, MaxEntries \in Nat
  PROVE  VisibleSlots = {s \in Used : Rank(s) < nEntries}
<1>1. ASSUME NEW s
      PROVE  s \in VisibleSlots <=> \E n \in 0..(MaxEntries - 1) : s \in SlotOf(n)
  BY DEF VisibleSlots
<1>2. ASSUME NEW s
      PROVE  s \in VisibleSlots <=> s \in Used /\ Rank(s) < nEntries
  <2>1. Rank(s) \in Nat
    BY RankIs
  <2>2. s \in VisibleSlots <=> \E n \in 0..(MaxEntries - 1) : s \in Used /\ n < nEntries /\ Rank(s) = n
    BY <1>1, SlotOfIs
  <2> QED
    BY <2>1, <2>2
<1> QED
  BY <1>2

LEMMA RunsWhatIsStored ==
  ASSUME EventsInv
  PROVE  EventsRunEntries
<1>1. RunsAreStored
  <2>1. SUFFICES ASSUME Running("event"), NEW s \in Found, EntryAt(s).cond = Top.cond
                 PROVE  EntryAt(s) \in stored[s]
    BY DEF RunsAreStored
  <2>2. s \in Used
    BY DEF Found, Seek
  <2>3. Top.cond \in Conds
    BY <2>1, TopIsLookup DEF IsLookup
  <2>4. HasBit(eeprom, s) /\ eeprom[Cond(s)] \in Conds /\ s \in Slots
    BY <2>1, <2>2, <2>3 DEF Used, HasBit, EntryAt
  <2> QED
    BY <2>4, AtStart DEF SoundFor, EntryAt
<1>2. EventRunsAll
  <2> DEFINE fr == Top
  <2>1. SUFFICES ASSUME Running("event"), fr.i = fr.n, fr.alone, nEntries <= MaxEntries
                 PROVE  /\ Range(fr.ran) = {s \in VisibleSlots : EntryAt(s).cond = fr.cond}
                        /\ \A j, k \in DOMAIN fr.ran : j < k => fr.ran[j] < fr.ran[k]
    BY DEF EventRunsAll
  <2>2. Look(fr, eeprom, iterator)
    BY <2>1, TopIsLookup
  <2>3. nEntries \in 0..255 /\ MaxEntries \in Nat /\ eeprom[NEntries] = nEntries
    BY AtStart, SlotsAre, EventStoreAssumption DEF nEntries
  <2> HIDE DEF fr
  <2>4. ~(fr.n = -1 /\ fr.i = 0 /\ fr.ran = <<>>)
    BY <2>1
  <2>5. /\ fr.n = (IF nEntries > MaxEntries THEN 0 ELSE nEntries)
        /\ fr.ran \in Seq(Used)
    BY <2>2, <2>3, <2>4, InIs, Zenon DEF Look
  <2>6. \A s : (\E k \in 1..Len(fr.ran) : fr.ran[k] = s)
                 <=> s \in Used /\ Rank(s) < fr.i /\ eeprom[Cond(s)] = fr.cond
    BY <2>2, <2>4, InIs, Zenon DEF Look
  <2>7. \A j, k \in 1..Len(fr.ran) : j < k => fr.ran[j] < fr.ran[k]
    BY <2>2, <2>4, Zenon DEF Look
  <2>8. fr.i = nEntries /\ DOMAIN fr.ran = 1..Len(fr.ran)
    BY <2>1, <2>3, <2>5
  <2>9. ASSUME NEW s
        PROVE  s \in Range(fr.ran) <=> s \in VisibleSlots /\ EntryAt(s).cond = fr.cond
    <3>1. s \in Range(fr.ran) <=> \E k \in 1..Len(fr.ran) : fr.ran[k] = s
      BY <2>8 DEF Range
    <3>2. s \in VisibleSlots <=> s \in Used /\ Rank(s) < fr.i
      BY <2>1, <2>3, <2>8, VisibleAre
    <3>3. EntryAt(s).cond = eeprom[Cond(s)]
      BY DEF EntryAt
    <3> QED
      BY <2>6, <3>1, <3>2, <3>3
  <2>10. Range(fr.ran) = {s \in VisibleSlots : EntryAt(s).cond = fr.cond}
    BY <2>9
  <2> QED
    BY <2>7, <2>8, <2>10
<1> QED
  BY <1>1, <1>2 DEF EventsRunEntries

\* The actions an event runs are those of entries that the hub has stored, at
\* any byte of an operation and after any reset, and an event that nothing
\* disturbs runs all of them, in the order of the table (checkEvent,
\* PDB_iteratorGetNextEntry).
THEOREM EventsRunWhatIsStored == Spec => []EventsRunEntries
<1>1. Init => EventsInv
  BY EventsInit
<1>2. EventsInv /\ [Next]_vars => EventsInv'
  BY EventsNext
<1>3. EventsInv => EventsRunEntries
  BY RunsWhatIsStored
<1> QED
  BY <1>1, <1>2, <1>3, PTL DEF Spec

-----------------------------------------------------------------------------
(* The slots of a set, by their numbers *)

\* The k-th slot of a set of slots, counted from 0.
At(U, k) == CHOOSE s \in U : Count(U, s) = k

LEMMA AtIs ==
  ASSUME NEW U \in SUBSET Slots
  PROVE  /\ \A k \in 0..(Cardinality(U) - 1) : At(U, k) \in U /\ Count(U, At(U, k)) = k
         /\ \A s \in U : Count(U, s) \in 0..(Cardinality(U) - 1) /\ At(U, Count(U, s)) = s
<1>0. /\ Cardinality(U) \in Nat /\ \A p : Count(U, p) \in Nat
      /\ \A s \in U : s \in Nat /\ s < NSectors * SectorBits
      /\ NSectors * SectorBits \in Nat
  BY SomeSlots, SlotsAre
<1>1. ASSUME NEW k \in 0..(Cardinality(U) - 1)
      PROVE  At(U, k) \in U /\ Count(U, At(U, k)) = k
  <2>1. k \in Nat /\ k < Count(U, NSectors * SectorBits)
    BY <1>0, CountAll
  <2>2. \E s \in U : Count(U, s) = k
    BY <1>0, <2>1, NumbersFollow
  <2> QED BY <2>2 DEF At
<1>2. ASSUME NEW s \in U
      PROVE  Count(U, s) \in 0..(Cardinality(U) - 1)
  <2> DEFINE m == NSectors * SectorBits
  <2>1. m \in Nat /\ s < m /\ s \in Nat /\ Count(U, m) = Cardinality(U)
    BY <1>0, CountAll
  <2> HIDE DEF m
  <2>2. Count(U, s) + 1 <= Count(U, m)
    BY <2>1, CountGrows
  <2> QED BY <1>0, <2>1, <2>2
<1>3. ASSUME NEW s \in U, NEW t \in U, Count(U, s) = Count(U, t)
      PROVE  s = t
  <2>1. s \in Nat /\ t \in Nat
    BY <1>0
  <2>2. ~(s < t) /\ ~(t < s)
    BY <1>0, <1>3, <2>1, CountGrows
  <2> QED BY <2>1, <2>2
<1>4. ASSUME NEW s \in U
      PROVE  At(U, Count(U, s)) = s
  <2>1. At(U, Count(U, s)) \in U /\ Count(U, At(U, Count(U, s))) = Count(U, s)
    BY <1>1, <1>2
  <2> QED BY <1>3, <2>1
<1> QED BY <1>1, <1>2, <1>4

\* One slot more in the set: it comes in at its number, and those after it
\* move up.
OneSlotMore(U, f, V) ==
  /\ Cardinality(V) = Cardinality(U) + 1 /\ Count(U, f) \in 0..Cardinality(U)
  /\ \A k \in 0..Cardinality(U) :
       At(V, k) = IF k < Count(U, f) THEN At(U, k) ELSE IF k = Count(U, f) THEN f ELSE At(U, k - 1)

LEMMA SlotMore ==
  ASSUME NEW U \in SUBSET Slots, NEW f \in Slots \ U
  PROVE  OneSlotMore(U, f, U \cup {f}) /\ Count(U \cup {f}, f) = Count(U, f)
<1> DEFINE V == U \cup {f}
           r == Count(U, f)
           n == Cardinality(U)
<1>0. V \in SUBSET Slots /\ f \in V /\ f \notin U /\ (\A s : s \in V <=> s \in U \/ s = f)
  OBVIOUS
<1>1. /\ n \in Nat /\ \A p : Count(U, p) \in Nat /\ IsFiniteSet({t \in U : t < p})
      /\ \A s \in Slots : s \in Nat
      /\ IsFiniteSet(U)
  BY SomeSlots, SlotsAre
<1>2. Cardinality(V) = n + 1
  BY <1>0, <1>1, FS_AddElement
<1>3. ASSUME NEW s \in Slots, s <= f
      PROVE  Count(V, s) = Count(U, s)
  <2>1. {t \in V : t < s} = {t \in U : t < s}
    BY <1>1, <1>3
  <2> QED BY <2>1 DEF Count
<1>4. ASSUME NEW s \in Slots, f < s
      PROVE  Count(V, s) = Count(U, s) + 1
  <2> DEFINE A == {t \in U : t < s}
             B == {t \in V : t < s}
  <2>1. B = A \cup {f} /\ f \notin A
    BY <1>1, <1>4
  <2>2. IsFiniteSet(A)
    BY <1>1
  <2> HIDE DEF A, B
  <2>3. Cardinality(A \cup {f}) = Cardinality(A) + 1
    BY <2>1, <2>2, FS_AddElement
  <2> QED
    BY <2>1, <2>3 DEF Count, A, B
<1> HIDE DEF V
<1>5. \A s \in V : At(V, Count(V, s)) = s
  BY <1>0, AtIs
<1>6. \A k \in 0..(n - 1) : At(U, k) \in U /\ Count(U, At(U, k)) = k
  BY AtIs
<1>7. r \in 0..n
  <2>0. f \in Slots
    OBVIOUS
  <2>a. f \in Nat
    BY <1>1, <2>0
  <2>1. f \in Nat /\ f <= f /\ Count(U, f) \in Nat
    <3>1. Count(U, f) \in Nat
      BY SomeSlots
    <3> QED BY <2>a, <3>1
  <2>2. Count(U, f) <= Cardinality(U)
    BY <2>1, CountSteps
  <2> QED BY <1>1, <2>1, <2>2
<1>a. r \in Nat /\ n \in Nat /\ f \in Nat
  BY <1>1, <1>7
<1>8. ASSUME NEW k \in 0..n, k < r
      PROVE  At(V, k) = At(U, k)
  <2> DEFINE s == At(U, k)
  <2>1. k \in 0..(n - 1)
    BY <1>1, <1>7, <1>8
  <2>2. s \in U /\ Count(U, s) = k
    BY <1>6, <2>1
  <2> HIDE DEF s
  <2>3. s \in Slots /\ s \in V /\ s \in Nat /\ f \in Nat
    BY <1>0, <1>1, <2>2
  <2>4. s <= f
    <3> SUFFICES ASSUME f < s PROVE FALSE
      BY <2>3
    <3>1. f <= s
      BY <2>3
    <3>2. Count(U, f) <= Count(U, s)
      BY <2>3, <3>1, CountSteps
    <3> QED BY <1>a, <1>8, <2>2, <3>2
  <2>5. Count(V, s) = k
    BY <1>3, <2>2, <2>3, <2>4
  <2> QED BY <1>5, <2>3, <2>5 DEF s
<1>9. At(V, r) = f
  <2>1. Count(V, f) = r
    BY <1>1, <1>3
  <2> QED BY <1>0, <1>5, <2>1
<1>10. ASSUME NEW k \in 0..n, k > r
       PROVE  At(V, k) = At(U, k - 1)
  <2> DEFINE s == At(U, k - 1)
  <2>1. k - 1 \in 0..(n - 1)
    BY <1>1, <1>7, <1>10
  <2>2. s \in U /\ Count(U, s) = k - 1
    BY <1>6, <2>1
  <2> HIDE DEF s
  <2>3. s \in Slots /\ s \in V /\ s \in Nat /\ f \in Nat /\ s # f
    BY <1>0, <1>1, <2>2
  <2>4. f < s
    <3> SUFFICES ASSUME s < f PROVE FALSE
      BY <2>3
    <3>1. Count(U, s) + 1 <= Count(U, f)
      BY <2>2, <2>3, CountGrows
    <3> QED BY <1>a, <1>10, <2>2, <3>1
  <2>5. Count(V, s) = k
    BY <1>1, <1>4, <2>2, <2>3, <2>4
  <2> QED BY <1>5, <2>3, <2>5 DEF s
<1>11. Count(V, f) = r
  BY <1>1, <1>3
<1>12. ASSUME NEW k \in 0..n
       PROVE  At(V, k) = IF k < r THEN At(U, k) ELSE IF k = r THEN f ELSE At(U, k - 1)
  <2>1. k < r \/ k = r \/ k > r
    BY <1>a
  <2>2. k < r => ~(k = r) /\ ~(k > r)
    BY <1>a
  <2>3. k = r => ~(k < r)
    BY <1>a
  <2>4. k > r => ~(k < r) /\ k # r
    BY <1>a
  <2> QED BY <1>8, <1>9, <1>10, <2>1, <2>2, <2>3, <2>4
<1> QED BY <1>2, <1>7, <1>11, <1>12 DEF OneSlotMore, V

-----------------------------------------------------------------------------
(* The list that is in an EEPROM *)

EntryIn(e, s) == [cond |-> e[Cond(s)], act |-> e[Act(s)]]
Shown(U, n, e) == [k \in 1..n |-> EntryIn(e, At(U, k - 1))]
SizeIn(e) == IF e[NEntries] > Cardinality(UsedIn(e)) THEN Cardinality(UsedIn(e)) ELSE e[NEntries]
WholeIn(e) == e[NEntries] >= Cardinality(UsedIn(e)) /\ e[NEntries] <= MaxEntries
ListIn(e) ==
  IF e[Signature] THEN [list |-> Shown(UsedIn(e), SizeIn(e), e), whole |-> WholeIn(e)]
                  ELSE [list |-> <<>>, whole |-> TRUE]

Content == [cond: Conds \cup {Blank}, act: Acts \cup {Blank}]
Typed(e) ==
  /\ e = [c \in Cells |-> e[c]] /\ e[NEntries] \in 0..255 /\ e[Signature] \in BOOLEAN
  /\ \A s \in Slots : EntryIn(e, s) \in Content
  /\ ~e[Signature] => e[NEntries] > MaxEntries

LEMMA SizeIs ==
  ASSUME NEW e, e[NEntries] \in 0..255
  PROVE  /\ UsedIn(e) \in SUBSET Slots /\ Cardinality(UsedIn(e)) \in Nat
         /\ SizeIn(e) \in 0..Cardinality(UsedIn(e)) /\ SizeIn(e) <= e[NEntries]
         /\ WholeIn(e) => SizeIn(e) = Cardinality(UsedIn(e))
<1>1. UsedIn(e) \in SUBSET Slots
  BY DEF UsedIn
<1>2. Cardinality(UsedIn(e)) \in Nat
  BY <1>1, SomeSlots
<1> QED BY <1>1, <1>2 DEF SizeIn, WholeIn

LEMMA ListHere == nEntries \in 0..255 => List = ListIn(eeprom)
<1> SUFFICES ASSUME nEntries \in 0..255
             PROVE  List = ListIn(eeprom)
  OBVIOUS
<1>1. UsedIn(eeprom) = Used /\ nEntries = eeprom[NEntries] /\ \A p : Count(Used, p) = Rank(p)
  BY InIs DEF nEntries, Rank, Count
<1> DEFINE n == IF nEntries > Cardinality(Used) THEN Cardinality(Used) ELSE nEntries
<1>2. n = SizeIn(eeprom) /\ (Whole <=> WholeIn(eeprom)) /\ Whole \in BOOLEAN /\ WholeIn(eeprom) \in BOOLEAN
  BY <1>1 DEF SizeIn, Whole, WholeIn
<1>3. Cardinality(Used) \in Nat /\ n \in 0..Cardinality(Used) /\ n <= nEntries /\ Used \in SUBSET Slots
  BY <1>1, <1>2, SizeIs
<1> HIDE DEF n
<1>4. ASSUME NEW k \in 1..n
      PROVE  EntryAt(CHOOSE s \in SlotOf(k - 1) : TRUE) = EntryIn(eeprom, At(Used, k - 1))
  <2>1. k - 1 \in 0..(Cardinality(Used) - 1) /\ k - 1 < nEntries
    BY <1>3
  <2>2. SlotOf(k - 1) = {s \in Used : Count(Used, s) = k - 1}
    BY <1>1, <2>1, SlotOfIs
  <2>3. At(Used, k - 1) \in SlotOf(k - 1)
    BY <1>3, <2>1, <2>2, AtIs
  <2> DEFINE t == CHOOSE s \in SlotOf(k - 1) : TRUE
  <2>4. t \in SlotOf(k - 1)
    BY <2>3
  <2> HIDE DEF t
  <2>5. t \in Used /\ Count(Used, t) = k - 1
    BY <2>2, <2>4
  <2>6. t = At(Used, k - 1)
    BY <1>3, <2>5, AtIs
  <2>7. EntryAt(t) = EntryIn(eeprom, t)
    BY DEF EntryAt, EntryIn
  <2> QED BY <2>6, <2>7 DEF t
<1>5. Visible = [k \in 1..n |-> EntryAt(CHOOSE s \in SlotOf(k - 1) : TRUE)]
  BY DEF Visible, n
<1>6. Visible = Shown(Used, n, eeprom)
  BY <1>4, <1>5 DEF Shown
<1>7. [list |-> Visible, whole |-> Whole]
        = [list |-> Shown(UsedIn(eeprom), SizeIn(eeprom), eeprom), whole |-> WholeIn(eeprom)]
  <2>1. Whole = WholeIn(eeprom)
    BY <1>2
  <2> QED BY <1>1, <1>2, <1>6, <2>1
<1> QED BY <1>7, Zenon DEF List, ListIn

LEMMA ShownIs ==
  ASSUME NEW e, Typed(e), NEW U \in SUBSET Slots, NEW n \in 0..Cardinality(U)
  PROVE  /\ Shown(U, n, e) \in Seq(Content) /\ Len(Shown(U, n, e)) = n
         /\ \A k \in 1..n : Shown(U, n, e)[k] = EntryIn(e, At(U, k - 1))
<1>1. Cardinality(U) \in Nat /\ n \in Nat
  BY SomeSlots
<1>2. ASSUME NEW k \in 1..n
      PROVE  EntryIn(e, At(U, k - 1)) \in Content
  <2>1. k - 1 \in 0..(Cardinality(U) - 1)
    BY <1>1
  <2>2. At(U, k - 1) \in Slots
    BY <2>1, AtIs
  <2> QED BY <2>2 DEF Typed
<1>3. Shown(U, n, e) \in [1..n -> Content]
  BY <1>2 DEF Shown
<1>4. \A k \in 1..n : Shown(U, n, e)[k] = EntryIn(e, At(U, k - 1))
  BY DEF Shown
<1> QED BY <1>1, <1>3, <1>4

LEMMA SameShown ==
  ASSUME NEW e, NEW a, NEW U \in SUBSET Slots, NEW n \in 0..Cardinality(U),
         \A s \in U : EntryIn(a, s) = EntryIn(e, s)
  PROVE  Shown(U, n, a) = Shown(U, n, e)
<1>1. ASSUME NEW k \in 1..n
      PROVE  EntryIn(a, At(U, k - 1)) = EntryIn(e, At(U, k - 1))
  <2>1. k - 1 \in 0..(Cardinality(U) - 1)
    BY SomeSlots
  <2>2. At(U, k - 1) \in U
    BY <2>1, AtIs
  <2> QED BY <2>2
<1> QED BY <1>1 DEF Shown

\* A sequence, element by element.
LEMMA SameSequence ==
  ASSUME NEW S, NEW s \in Seq(S), NEW t \in Seq(S), Len(s) = Len(t),
         \A k \in 1..Len(s) : s[k] = t[k]
  PROVE  s = t
<1>1. s = [k \in 1..Len(s) |-> s[k]] /\ t = [k \in 1..Len(t) |-> t[k]]
  OBVIOUS
<1> QED BY <1>1

\* One slot more with its bit, one entry more in the list.
LEMMA ShownMore ==
  ASSUME NEW e, Typed(e), NEW a, Typed(a), NEW U \in SUBSET Slots, NEW f \in Slots \ U,
         \A s \in U : EntryIn(a, s) = EntryIn(e, s)
  PROVE  /\ Cardinality(U) \in Nat /\ Cardinality(U \cup {f}) = Cardinality(U) + 1
         /\ Count(U, f) + 1 \in 1..(Cardinality(U) + 1) /\ EntryIn(a, f) \in Content
         /\ Shown(U \cup {f}, Cardinality(U) + 1, a)
              = InsertAt(Shown(U, Cardinality(U), e), Count(U, f) + 1, EntryIn(a, f))
         /\ Shown(U, Cardinality(U), e)
              = RemoveAt(Shown(U \cup {f}, Cardinality(U) + 1, a), Count(U, f) + 1)
<1> DEFINE V == U \cup {f}
           n == Cardinality(U)
           r == Count(U, f)
           b == Shown(U, n, e)
           c == Shown(V, n + 1, a)
           x == EntryIn(a, f)
<1>1. V \in SUBSET Slots /\ n \in Nat /\ n \in 0..Cardinality(U)
  BY SomeSlots
<1>2. Cardinality(V) = n + 1 /\ r \in 0..n
  BY SlotMore DEF OneSlotMore
<1>3. \A k \in 0..n : At(V, k) = IF k < r THEN At(U, k) ELSE IF k = r THEN f ELSE At(U, k - 1)
  BY SlotMore DEF OneSlotMore
<1>4. n + 1 \in 0..Cardinality(V)
  BY <1>1, <1>2
<1>5. b \in Seq(Content) /\ Len(b) = n /\ \A k \in 1..n : b[k] = EntryIn(e, At(U, k - 1))
  BY <1>1, ShownIs
<1> HIDE DEF V
<1>6. c \in Seq(Content) /\ Len(c) = n + 1 /\ \A k \in 1..(n + 1) : c[k] = EntryIn(a, At(V, k - 1))
  BY <1>1, <1>4, ShownIs
<1>7. x \in Content /\ r + 1 \in 1..(n + 1)
  <2>1. f \in Slots
    OBVIOUS
  <2> QED BY <1>1, <1>2, <2>1 DEF Typed
<1>8. \A k \in 0..(n - 1) : At(U, k) \in U
  BY AtIs
<1> HIDE DEF n, r, b, c, x
<1>9. ASSUME NEW k \in 1..(n + 1)
      PROVE  /\ k < r + 1 => k \in 1..n /\ c[k] = b[k]
             /\ k = r + 1 => c[k] = x
             /\ k > r + 1 => k - 1 \in 1..n /\ c[k] = b[k - 1]
  <2> DEFINE j == k - 1
  <2>1. j \in 0..n /\ k = j + 1
    BY <1>1
  <2>2. c[k] = EntryIn(a, At(V, j))
    BY <1>6
  <2>3. At(V, j) = IF j < r THEN At(U, j) ELSE IF j = r THEN f ELSE At(U, j - 1)
    BY <1>3, <2>1
  <2> HIDE DEF j
  <2>4. CASE j < r
    <3>1. j \in 0..(n - 1) /\ k \in 1..n /\ At(V, j) = At(U, j) /\ ~(k = r + 1) /\ ~(k > r + 1)
      BY <1>1, <1>2, <2>1, <2>3, <2>4
    <3>2. b[k] = EntryIn(e, At(U, j))
      <4>1. k - 1 = j
        BY <2>1
      <4> QED BY <1>5, <3>1, <4>1
    <3>3. At(U, j) \in U
      BY <1>8, <3>1
    <3> QED BY <2>2, <3>1, <3>2, <3>3
  <2>5. CASE j = r
    BY <1>1, <1>2, <2>1, <2>2, <2>3, <2>5 DEF x
  <2>6. CASE j > r
    <3>1. /\ j - 1 \in 0..(n - 1) /\ j \in 1..n /\ At(V, j) = At(U, j - 1)
          /\ ~(k = r + 1) /\ ~(k < r + 1) /\ k - 1 = j
      BY <1>1, <1>2, <2>1, <2>3, <2>6
    <3>2. b[j] = EntryIn(e, At(U, j - 1))
      BY <1>5, <3>1
    <3>3. At(U, j - 1) \in U
      BY <1>8, <3>1
    <3> QED BY <2>2, <3>1, <3>2, <3>3
  <2> QED BY <1>1, <1>2, <2>1, <2>4, <2>5, <2>6
<1>10. c = InsertAt(b, r + 1, x)
  <2> DEFINE d == InsertAt(b, r + 1, x)
  <2>1. HasMore(d, Content, b, r + 1, x)
    BY <1>5, <1>7, InsertedAt
  <2>2. /\ d \in Seq(Content) /\ Len(d) = n + 1
        /\ \A k \in 1..(n + 1) : d[k] = IF k < r + 1 THEN b[k] ELSE IF k = r + 1 THEN x ELSE b[k - 1]
    BY <1>5, <2>1 DEF HasMore
  <2> HIDE DEF d
  <2>3. ASSUME NEW k \in 1..(n + 1)
        PROVE  c[k] = d[k]
    <3>1. k < r + 1 \/ k = r + 1 \/ (k > r + 1 /\ ~(k < r + 1) /\ k # r + 1)
      BY <1>1, <1>2
    <3>2. k = r + 1 => ~(k < r + 1)
      BY <1>1, <1>2
    <3>3. d[k] = IF k < r + 1 THEN b[k] ELSE IF k = r + 1 THEN x ELSE b[k - 1]
      BY <2>2
    <3> QED BY <1>9, <3>1, <3>2, <3>3, Zenon
  <2>4. c = d
    BY <1>6, <2>2, <2>3, SameSequence
  <2> QED BY <2>4 DEF d
<1>11. b = RemoveAt(c, r + 1)
  <2> DEFINE d == RemoveAt(c, r + 1)
  <2>1. HasLess(d, Content, c, r + 1)
    BY <1>6, <1>7, RemovedAt
  <2>2. /\ d \in Seq(Content) /\ Len(d) = n
        /\ \A k \in 1..n : d[k] = IF k < r + 1 THEN c[k] ELSE c[k + 1]
    BY <1>1, <1>6, <2>1 DEF HasLess
  <2> HIDE DEF d
  <2>3. ASSUME NEW k \in 1..n
        PROVE  b[k] = d[k]
    <3>1. k \in 1..(n + 1) /\ k + 1 \in 1..(n + 1) /\ (k + 1) - 1 = k
      BY <1>1
    <3>2. CASE k < r + 1
      BY <1>9, <2>2, <3>1, <3>2
    <3>3. CASE ~(k < r + 1)
      <4>1. k + 1 > r + 1
        BY <1>1, <1>2, <3>3
      <4>2. c[k + 1] = b[(k + 1) - 1]
        BY <1>9, <3>1, <4>1
      <4> QED BY <2>2, <3>1, <3>3, <4>2
    <3> QED BY <3>2, <3>3
  <2>4. b = d
    BY <1>5, <2>2, <2>3, SameSequence
  <2> QED BY <2>4 DEF d
<1> QED BY <1>1, <1>2, <1>7, <1>10, <1>11 DEF V, n, r, b, c, x

\* The list of e is that of a without the entry of slot f.
Without(e, a, U, f) ==
  /\ Cardinality(U) \in Nat /\ Cardinality(U \cup {f}) = Cardinality(U) + 1
  /\ Count(U, f) + 1 \in 1..(Cardinality(U) + 1)
  /\ Shown(U, Cardinality(U), e)
       = RemoveAt(Shown(U \cup {f}, Cardinality(U) + 1, a), Count(U, f) + 1)
LEMMA ShownLess ==
  ASSUME NEW e, Typed(e), NEW a, Typed(a), NEW U \in SUBSET Slots, NEW f \in Slots \ U,
         \A s \in U : EntryIn(e, s) = EntryIn(a, s)
  PROVE  Without(e, a, U, f)
<1>1. \A s \in U : EntryIn(a, s) = EntryIn(e, s)
  OBVIOUS
<1> QED BY <1>1, ShownMore DEF Without

\* One entry changes in its place.
LEMMA ShownOther ==
  ASSUME NEW e, Typed(e), NEW a, Typed(a), NEW U \in SUBSET Slots, NEW n \in 0..Cardinality(U),
         NEW f \in U, Count(U, f) < n,
         \A s \in U : s # f => EntryIn(a, s) = EntryIn(e, s)
  PROVE  /\ Count(U, f) + 1 \in DOMAIN Shown(U, n, e) /\ EntryIn(a, f) \in Content
         /\ Shown(U, n, a) = ReplaceAt(Shown(U, n, e), Count(U, f) + 1, EntryIn(a, f))
<1> DEFINE r == Count(U, f)
           b == Shown(U, n, e)
           c == Shown(U, n, a)
           x == EntryIn(a, f)
<1>1. b \in Seq(Content) /\ Len(b) = n /\ \A k \in 1..n : b[k] = EntryIn(e, At(U, k - 1))
  BY ShownIs
<1>2. c \in Seq(Content) /\ Len(c) = n /\ \A k \in 1..n : c[k] = EntryIn(a, At(U, k - 1))
  BY ShownIs
<1>3. Cardinality(U) \in Nat /\ n \in Nat /\ r \in Nat /\ r + 1 \in 1..n
  <2>1. Count(U, f) \in Nat /\ Cardinality(U) \in Nat
    BY SomeSlots
  <2> QED BY <2>1
<1>4. x \in Content
  <2>1. f \in Slots
    OBVIOUS
  <2> QED BY <2>1 DEF Typed
<1>5. At(U, r) = f
  BY AtIs
<1> HIDE DEF r, b, c, x
<1> DEFINE d == [b EXCEPT ![r + 1] = x]
<1>6. d \in Seq(Content) /\ Len(d) = n /\ \A k \in 1..n : d[k] = IF k = r + 1 THEN x ELSE b[k]
  BY <1>1, <1>3, <1>4
<1> HIDE DEF d
<1>7. ASSUME NEW k \in 1..n
      PROVE  c[k] = d[k]
  <2>1. CASE k = r + 1
    <3>1. k - 1 = r
      BY <1>3, <2>1
    <3> QED BY <1>2, <1>5, <1>6, <2>1, <3>1 DEF x
  <2>2. CASE k # r + 1
    <3>1. k - 1 \in 0..(Cardinality(U) - 1) /\ k - 1 # r
      BY <1>3, <2>2
    <3>2. At(U, k - 1) \in U /\ Count(U, At(U, k - 1)) = k - 1
      BY <3>1, AtIs
    <3>3. At(U, k - 1) # f
      BY <3>1, <3>2 DEF r
    <3> QED BY <1>1, <1>2, <1>6, <2>2, <3>2, <3>3
  <2> QED BY <2>1, <2>2
<1>8. c = d
  BY <1>2, <1>6, <1>7, SameSequence
<1>9. DOMAIN b = 1..n
  BY <1>1
<1> QED BY <1>3, <1>4, <1>8, <1>9 DEF d, r, b, c, x, ReplaceAt

-----------------------------------------------------------------------------
(* What an operation leaves of the list, wherever it is cut off *)

Inserts(b, a) == \E k \in 1..(Len(b.list) + 1), c \in Content : a.list = InsertAt(b.list, k, c)
Replaces(b, a) == \E k \in DOMAIN b.list, c \in Content : a.list = ReplaceAt(b.list, k, c)
Removes(b, a) == \E k \in DOMAIN b.list : a.list = RemoveAt(b.list, k)

\* The ends of an operation that EntryList knows.
Commits(op, b, a) ==
  /\ a.whole = TRUE
  /\ \/ b.whole = TRUE /\ \/ op = "insert" /\ Inserts(b, a)
                          \/ op = "replace" /\ Replaces(b, a)
                          \/ op = "remove" /\ Removes(b, a)
     \/ op = "clear" /\ a.list = <<>>
Aborts(op, b, a) ==
  \/ a = b
  \/ b.whole = TRUE /\ op = "replace" /\ Replaces(b, a) /\ a.whole = TRUE
  \/ op \in {"remove", "clear"} /\ a.whole = FALSE
Worsens(op, b) == b.whole = FALSE /\ op \in {"insert", "replace", "remove"}

Does(op, b, a) == Commits(op, b, a) \/ Worsens(op, b)
Leaves(op, b, a) == Does(op, b, a) \/ Aborts(op, b, a)

Promising(op, before, e, t) ==
  /\ \A i \in 0..Len(t) : Typed(After(e, t, i)) /\ Leaves(op, before, ListIn(After(e, t, i)))
  /\ Does(op, before, ListIn(After(e, t, Len(t)))) /\ After(e, t, Len(t))[Signature] = TRUE

LEMMA ListFields ==
  ASSUME NEW e, Typed(e)
  PROVE  /\ ListIn(e) = [list |-> ListIn(e).list, whole |-> ListIn(e).whole]
         /\ ListIn(e).whole \in BOOLEAN
         /\ e[Signature] => /\ ListIn(e).list = Shown(UsedIn(e), SizeIn(e), e)
                            /\ (ListIn(e).whole <=> WholeIn(e))
         /\ ListIn(e).list \in Seq(Content)
<1>1. UsedIn(e) \in SUBSET Slots /\ SizeIn(e) \in 0..Cardinality(UsedIn(e))
  BY SizeIs DEF Typed
<1>2. Shown(UsedIn(e), SizeIn(e), e) \in Seq(Content)
  BY <1>1, ShownIs
<1>3. e[Signature] = TRUE \/ e[Signature] = FALSE
  BY DEF Typed
<1>4. WholeIn(e) \in BOOLEAN /\ <<>> \in Seq(Content)
  BY DEF WholeIn
<1>5. CASE e[Signature] = TRUE
  <2>1. ListIn(e) = [list |-> Shown(UsedIn(e), SizeIn(e), e), whole |-> WholeIn(e)]
    BY <1>5, Zenon DEF ListIn
  <2> QED BY <1>2, <1>4, <1>5, <2>1
<1>6. CASE e[Signature] = FALSE
  <2>1. ListIn(e) = [list |-> <<>>, whole |-> TRUE]
    BY <1>6, Zenon DEF ListIn
  <2> QED BY <1>4, <1>6, <2>1
<1> QED BY <1>3, <1>5, <1>6

\* Two EEPROMs with the same slots in use and the same entries in them.
LEMMA SameLists ==
  ASSUME NEW e, Typed(e), NEW a, Typed(a), e[Signature], a[Signature],
         UsedIn(a) = UsedIn(e), SizeIn(a) = SizeIn(e), WholeIn(a) <=> WholeIn(e),
         \A s \in UsedIn(e) : EntryIn(a, s) = EntryIn(e, s)
  PROVE  ListIn(a) = ListIn(e)
<1>1. UsedIn(e) \in SUBSET Slots /\ SizeIn(e) \in 0..Cardinality(UsedIn(e))
  BY SizeIs DEF Typed
<1>2. Shown(UsedIn(e), SizeIn(e), a) = Shown(UsedIn(e), SizeIn(e), e)
  BY <1>1, SameShown
<1>3. ListIn(a).list = ListIn(e).list
  BY <1>2, ListFields
<1>4. ListIn(a).whole = ListIn(e).whole
  <2>1. /\ ListIn(a).whole \in BOOLEAN /\ ListIn(e).whole \in BOOLEAN
        /\ (ListIn(a).whole <=> WholeIn(a)) /\ (ListIn(e).whole <=> WholeIn(e))
    BY ListFields
  <2> QED BY <2>1
<1> QED BY <1>3, <1>4, ListFields

LEMMA AfterShape ==
  ASSUME NEW e, NEW t, NEW i
  PROVE  After(e, t, i) = [c \in Cells |-> After(e, t, i)[c]]
  BY DEF After

\* The two bytes of an entry, in front.
LEMMA EntryAfter ==
  ASSUME NEW e, NEW t \in Seq(Bytes), Distinct(t), Len(t) >= 2, NEW f \in Slots, NEW entry \in Entry,
         t[1] = <<Cond(f), entry.cond>>, t[2] = <<Act(f), entry.act>>, NEW i \in 0..Len(t),
         EntryIn(e, f) \in Content
  PROVE  EntryIn(After(e, t, i), f) \in Content
<1> DEFINE a == After(e, t, i)
<1>0. Len(t) \in Nat /\ DOMAIN t = 1..Len(t)
  OBVIOUS
<1>1. /\ \A j \in 1..i : a[t[j][1]] = t[j][2]
      /\ \A c \in Cells : (\A j \in 1..i : t[j][1] # c) => a[c] = e[c]
  BY AfterIs, Zenon
<1> HIDE DEF a
<1>2. Cond(f) \in Cells /\ Act(f) \in Cells /\ t[1][1] = Cond(f) /\ t[2][1] = Act(f)
  BY AreCells
<1>3. \A j \in 1..Len(t) : (t[j][1] = Cond(f) => j = 1) /\ (t[j][1] = Act(f) => j = 2)
  <2> TAKE j \in 1..Len(t)
  <2>1. j \in DOMAIN t /\ 1 \in DOMAIN t /\ 2 \in DOMAIN t
    BY <1>0
  <2> QED BY <1>2, <2>1 DEF Distinct
<1>4. a[Cond(f)] \in {entry.cond, e[Cond(f)]}
  <2>1. CASE 1 \in 1..i
    BY <1>1, <1>2, <2>1
  <2>2. CASE 1 \notin 1..i
    BY <1>0, <1>1, <1>2, <1>3, <2>2
  <2> QED BY <2>1, <2>2
<1>5. a[Act(f)] \in {entry.act, e[Act(f)]}
  <2>1. CASE 2 \in 1..i
    BY <1>1, <1>2, <2>1
  <2>2. CASE 2 \notin 1..i
    BY <1>0, <1>1, <1>2, <1>3, <2>2
  <2> QED BY <2>1, <2>2
<1>6. entry.cond \in Conds /\ entry.act \in Acts
  BY DEF Entry
<1>7. e[Cond(f)] \in Conds \cup {Blank} /\ e[Act(f)] \in Acts \cup {Blank}
  BY DEF EntryIn, Content
<1> QED BY <1>4, <1>5, <1>6, <1>7 DEF a, EntryIn, Content

\* What an operation that ends with a header leaves of the table.
HeaderAfter(a, p, count, used, i) ==
  /\ a[Signature] = (IF i >= p + 1 THEN TRUE ELSE eeprom[Signature])
  /\ a[NEntries] = (IF i >= p + 2 THEN count ELSE nEntries)
  /\ \A s \in Slots : s \in UsedIn(a) <=>
       IF i >= p + 3 + (s \div SectorBits) THEN s \in used ELSE s \in Used

LEMMA HeaderTells ==
  ASSUME NEW t, NEW pre, NEW count, NEW used, NEW i, EndsWithHeader(t, pre, count, used, eeprom, i)
  PROVE  HeaderAfter(After(eeprom, t, i), Len(pre), count, used, i)
<1> DEFINE a == After(eeprom, t, i)
<1>1. /\ a[Signature] = (IF i >= Len(pre) + 1 THEN TRUE ELSE eeprom[Signature])
      /\ a[NEntries] = (IF i >= Len(pre) + 2 THEN count ELSE eeprom[NEntries])
      /\ \A s \in Slots : HasBit(a, s) <=>
           IF i >= Len(pre) + 3 + (s \div SectorBits) THEN s \in used ELSE HasBit(eeprom, s)
  BY Zenon DEF EndsWithHeader
<1> HIDE DEF a
<1>2. \A s \in Slots : (s \in UsedIn(a) <=> HasBit(a, s)) /\ (s \in Used <=> HasBit(eeprom, s))
  BY DEF UsedIn, Used, HasBit
<1> QED BY <1>1, <1>2 DEF HeaderAfter, nEntries, a

\* A header by itself.
LEMMA HeaderAlone ==
  ASSUME NEW count \in Nat, NEW used \in SUBSET Slots
  PROVE  LET t == Header(count, used)
         IN  /\ Len(t) = NSectors + 2
             /\ \A i \in 0..(NSectors + 2) :
                  /\ HeaderAfter(After(eeprom, t, i), 0, count, used, i)
                  /\ \A s \in Slots : EntryIn(After(eeprom, t, i), s) = EntryIn(eeprom, s)
<1> DEFINE h == Header(count, used)
<1>0. PICK pre \in Seq(Bytes) : pre = <<>> /\ Len(pre) = 0 /\ DOMAIN pre = {} /\ Distinct(pre)
  BY Nothing
<1>1. NSectors \in Nat
  BY EventStoreAssumption
<1>2. h \in Seq(Bytes) /\ Len(h) = NSectors + 2
  BY HeaderIs, Zenon
<1>3. pre \o h = h
  <2> HIDE DEF h
  <2> QED BY <1>0, <1>2
<1>4. ASSUME NEW i \in 0..(NSectors + 2)
      PROVE  /\ HeaderAfter(After(eeprom, h, i), 0, count, used, i)
             /\ \A s \in Slots : EntryIn(After(eeprom, h, i), s) = EntryIn(eeprom, s)
  <2>1. i \in 0..(Len(pre) + NSectors + 2)
    BY <1>0, <1>1
  <2>2. \A j \in DOMAIN pre : \E s \in Slots : pre[j][1] \in {Cond(s), Act(s)}
    BY <1>0
  <2>3. EndsWithHeader(pre \o h, pre, count, used, eeprom, i)
    BY <1>0, <2>1, <2>2, WithHeader, Zenon
  <2> HIDE DEF h
  <2>4. EndsWithHeader(h, pre, count, used, eeprom, i)
    BY <1>3, <2>3
  <2>5. HeaderAfter(After(eeprom, h, i), 0, count, used, i)
    BY <1>0, <2>4, HeaderTells
  <2>6. 1..Len(pre) = {}
    BY <1>0
  <2>7. \A s \in Slots : /\ After(eeprom, h, i)[Cond(s)] = eeprom[Cond(s)]
                          /\ After(eeprom, h, i)[Act(s)] = eeprom[Act(s)]
    BY <2>4, <2>6 DEF EndsWithHeader
  <2> QED BY <2>5, <2>7 DEF EntryIn
<1> QED BY <1>2, <1>4

\* No operation on the list that is in the EEPROM is worse than its end.
LEMMA EndsAre ==
  ASSUME NEW op, NEW before, NEW t, Len(t) \in Nat,
         \A i \in 0..Len(t) : Typed(After(eeprom, t, i)) /\ Leaves(op, before, ListIn(After(eeprom, t, i))),
         Does(op, before, ListIn(After(eeprom, t, Len(t)))), After(eeprom, t, Len(t))[Signature] = TRUE
  PROVE  Promising(op, before, eeprom, t)
  BY DEF Promising

LEMMA TablesAre ==
  ASSUME Typed(eeprom)
  PROVE  /\ Used \in SUBSET Slots /\ UsedIn(eeprom) = Used /\ nEntries = eeprom[NEntries]
         /\ nEntries \in 0..255 /\ Cardinality(Used) \in Nat
         /\ NSectors \in Nat \ {0} /\ MaxEntries \in Nat /\ MaxEntries < 255
         /\ \A s \in Slots : s \div SectorBits \in 0..(NSectors - 1)
<1>1. UsedIn(eeprom) = Used /\ nEntries = eeprom[NEntries]
  BY InIs DEF nEntries
<1>2. Used \in SUBSET Slots /\ Cardinality(Used) \in Nat
  BY SomeSlots DEF Used
<1>3. NSectors \in Nat \ {0} /\ SectorBits \in Nat
  BY EventStoreAssumption
<1>4. MaxEntries \in Nat /\ MaxEntries < 255
  BY <1>3, EventStoreAssumption
<1>5. \A s \in Slots : s \div SectorBits \in 0..(NSectors - 1)
  BY SlotPlace DEF Sectors
<1> QED BY <1>1, <1>2, <1>3, <1>4, <1>5 DEF Typed

\* The list itself, and one that is no list.
LEMMA WholeLists ==
  ASSUME NEW e, Typed(e), e[Signature], WholeIn(e)
  PROVE  /\ ListIn(e).whole = TRUE
         /\ ListIn(e).list = Shown(UsedIn(e), Cardinality(UsedIn(e)), e)
         /\ UsedIn(e) \in SUBSET Slots /\ Len(ListIn(e).list) = Cardinality(UsedIn(e))
         /\ DOMAIN ListIn(e).list = 1..Cardinality(UsedIn(e))
<1>1. /\ UsedIn(e) \in SUBSET Slots /\ Cardinality(UsedIn(e)) \in Nat
      /\ SizeIn(e) = Cardinality(UsedIn(e))
  BY SizeIs DEF Typed
<1>2. ListIn(e).whole = TRUE /\ ListIn(e).list = Shown(UsedIn(e), SizeIn(e), e)
  BY ListFields
<1>3. Cardinality(UsedIn(e)) \in 0..Cardinality(UsedIn(e))
  BY <1>1
<1>4. /\ Shown(UsedIn(e), Cardinality(UsedIn(e)), e) \in Seq(Content)
      /\ Len(Shown(UsedIn(e), Cardinality(UsedIn(e)), e)) = Cardinality(UsedIn(e))
  BY <1>1, <1>3, ShownIs
<1> QED BY <1>1, <1>2, <1>4

LEMMA BrokenLists ==
  ASSUME NEW e, Typed(e), e[Signature], ~WholeIn(e)
  PROVE  ListIn(e).whole = FALSE
  BY ListFields

\* append: the entry, one more in the count, and then its bit.
LEMMA AppendPromises ==
  ASSUME Typed(eeprom), eeprom[Signature], HasRoom, NEW entry \in Entry
  PROVE  Promising("insert", ListIn(eeprom), eeprom, AppendBytes(entry))
<1> DEFINE f == FreeSlot
           used == Used \cup {f}
           count == nEntries + 1
<1>1. PICK pre \in Seq(Bytes) :
        /\ pre = EntryBytes(f, entry)
        /\ Len(pre) = 2 /\ DOMAIN pre = {1, 2} /\ Distinct(pre)
        /\ pre[1] = <<Cond(f), entry.cond>> /\ pre[2] = <<Act(f), entry.act>>
  BY FreeIsFree, EntryBytesAre DEF HasRoom
<1> DEFINE t == pre \o Header(count, used)
           b == ListIn(eeprom)
<1>2. t = AppendBytes(entry)
  BY <1>1 DEF AppendBytes
<1>3. f \in Slots \ Used /\ nEntries < MaxEntries
  BY FreeIsFree DEF HasRoom
<1>4. /\ Used \in SUBSET Slots /\ UsedIn(eeprom) = Used /\ nEntries = eeprom[NEntries]
      /\ nEntries \in 0..255 /\ Cardinality(Used) \in Nat
      /\ NSectors \in Nat \ {0} /\ MaxEntries \in Nat /\ MaxEntries < 255
      /\ \A s \in Slots : s \div SectorBits \in 0..(NSectors - 1)
  BY TablesAre
<1>5. used \in SUBSET Slots /\ count \in Nat /\ count \in 0..255
  <2>1. used \in SUBSET Slots
    BY <1>3, <1>4
  <2>2. nEntries \in 0..255 /\ nEntries < MaxEntries /\ MaxEntries \in Nat /\ MaxEntries < 255
    BY <1>3, <1>4
  <2> QED BY <2>1, <2>2
<1>6. \A j \in DOMAIN pre : \E s \in Slots : pre[j][1] \in {Cond(s), Act(s)}
  BY <1>1, <1>3
<1> HIDE DEF t, used, count, f, b
<1>7. ASSUME NEW i \in 0..(Len(pre) + NSectors + 2)
      PROVE  EndsWithHeader(t, pre, count, used, eeprom, i)
  BY <1>1, <1>5, <1>6, WithHeader, Zenon DEF t
<1>8. t \in Seq(Bytes) /\ Len(t) = NSectors + 4 /\ Distinct(t) /\ t[1] = pre[1] /\ t[2] = pre[2]
  <2>1. EndsWithHeader(t, pre, count, used, eeprom, 0)
    BY <1>1, <1>4, <1>7
  <2>2. /\ t \in Seq(Bytes) /\ Len(t) = Len(pre) + NSectors + 2 /\ Distinct(t)
        /\ \A j \in 1..Len(pre) : t[j] = pre[j]
    BY <2>1, Zenon DEF EndsWithHeader
  <2> QED BY <1>1, <1>4, <2>2
<1>9. ASSUME NEW i \in 0..Len(t)
      PROVE  /\ Typed(After(eeprom, t, i)) /\ After(eeprom, t, i)[Signature]
             /\ Leaves("insert", b, ListIn(After(eeprom, t, i)))
             /\ i = Len(t) => Does("insert", b, ListIn(After(eeprom, t, i)))
  <2> DEFINE a == After(eeprom, t, i)
  <2>1. EndsWithHeader(t, pre, count, used, eeprom, i)
    BY <1>1, <1>4, <1>7, <1>8
  <2>2. HeaderAfter(a, 2, count, used, i)
    <3>1. HeaderAfter(a, Len(pre), count, used, i)
      BY <2>1, HeaderTells
    <3> QED BY <1>1, <3>1
  <2>3. /\ a[Signature] = TRUE /\ a[NEntries] = IF i >= 4 THEN count ELSE nEntries
        /\ \A s \in Slots : s \in UsedIn(a) <=>
             IF i >= 5 + (s \div SectorBits) THEN s \in used ELSE s \in Used
    BY <2>2 DEF HeaderAfter
  <2>4. \A s \in Slots : s # f => EntryIn(a, s) = EntryIn(eeprom, s)
    <3> SUFFICES ASSUME NEW s \in Slots, s # f
                 PROVE  EntryIn(a, s) = EntryIn(eeprom, s)
      OBVIOUS
    <3>1. t[1][1] = Cond(f) /\ t[2][1] = Act(f) /\ \A j \in 1..Len(pre) : j \in {1, 2}
      BY <1>1, <1>8
    <3>2. Cond(f) # Cond(s) /\ Cond(f) # Act(s) /\ Act(f) # Cond(s) /\ Act(f) # Act(s)
      BY CellsDiffer
    <3>3. \A j \in 1..Len(pre) : t[j][1] # Cond(s) /\ t[j][1] # Act(s)
      BY <3>1, <3>2
    <3>4. a[Cond(s)] = eeprom[Cond(s)] /\ a[Act(s)] = eeprom[Act(s)]
      BY <2>1, <3>3, Zenon DEF EndsWithHeader
    <3> QED BY <3>4 DEF EntryIn
  <2>5. EntryIn(a, f) \in Content
    <3>1. EntryIn(eeprom, f) \in Content /\ f \in Slots /\ Len(t) >= 2
      BY <1>3, <1>4, <1>8 DEF Typed
    <3> QED BY <1>1, <1>8, <3>1, EntryAfter
  <2>6. Typed(a)
    <3>1. a = [c \in Cells |-> a[c]]
      BY AfterShape
    <3>2. \A s \in Slots : EntryIn(a, s) \in Content
      BY <2>4, <2>5 DEF Typed
    <3>3. a[NEntries] \in 0..255 /\ a[Signature] \in BOOLEAN
      BY <1>4, <1>5, <2>3
    <3> HIDE DEF a
    <3> QED BY <2>3, <3>1, <3>2, <3>3 DEF Typed
  <2> HIDE DEF a
  <2>7. CASE ~WholeIn(eeprom)
    BY <2>3, <2>6, <2>7, BrokenLists DEF b, a, Leaves, Does, Worsens
  <2>8. CASE WholeIn(eeprom)
    <3>1. nEntries >= Cardinality(Used) /\ nEntries <= MaxEntries
      BY <1>4, <2>8 DEF WholeIn
    <3>2. /\ b.whole = TRUE /\ b.list = Shown(Used, Cardinality(Used), eeprom)
          /\ Len(b.list) = Cardinality(Used)
      BY <1>4, <2>8, WholeLists DEF b
    <3>3. \A s \in Used : EntryIn(a, s) = EntryIn(eeprom, s)
      BY <1>3, <1>4, <2>4
    <3>4. CASE i >= 5 + (f \div SectorBits)
      <4>1. f \div SectorBits \in Nat
        BY <1>3, <1>4
      <4>2. i >= 4
        BY <3>4, <4>1
      <4>3. UsedIn(a) = Used \cup {f}
        <5>1. UsedIn(a) \in SUBSET Slots
          BY DEF UsedIn
        <5>2. \A s \in Slots : s \in UsedIn(a) <=> s \in used
          BY <1>3, <2>3, <3>4 DEF used
        <5> QED BY <1>5, <5>1, <5>2 DEF used
      <4>4. /\ Cardinality(Used \cup {f}) = Cardinality(Used) + 1
            /\ Count(Used, f) + 1 \in 1..(Cardinality(Used) + 1)
            /\ Shown(Used \cup {f}, Cardinality(Used) + 1, a)
                 = InsertAt(Shown(Used, Cardinality(Used), eeprom), Count(Used, f) + 1, EntryIn(a, f))
        BY <1>3, <1>4, <2>6, <3>3, ShownMore
      <4>5. WholeIn(a)
        BY <1>3, <1>4, <2>3, <3>1, <4>2, <4>3, <4>4 DEF WholeIn, count
      <4>6. ListIn(a).whole = TRUE /\ ListIn(a).list = Shown(Used \cup {f}, Cardinality(Used) + 1, a)
        BY <2>3, <2>6, <4>3, <4>4, <4>5, WholeLists
      <4>7. Inserts(b, ListIn(a))
        BY <2>5, <3>2, <4>4, <4>6 DEF Inserts
      <4>8. Does("insert", b, ListIn(a))
        BY <3>2, <4>6, <4>7 DEF Does, Commits
      <4> QED BY <2>3, <2>6, <4>8 DEF a, Leaves
    <3>5. CASE ~(i >= 5 + (f \div SectorBits))
      <4>1. f \div SectorBits \in 0..(NSectors - 1)
        BY <1>3, <1>4
      <4>2. i # Len(t)
        BY <1>4, <1>8, <3>5, <4>1
      <4>3. UsedIn(a) = Used
        <5>1. UsedIn(a) \in SUBSET Slots
          BY DEF UsedIn
        <5>2. \A s \in Slots : s \in UsedIn(a) <=> s \in Used
          BY <2>3, <3>5 DEF used
        <5> QED BY <1>4, <5>1, <5>2
      <4>4. WholeIn(a)
        BY <1>3, <1>4, <2>3, <3>1, <4>3 DEF WholeIn, count
      <4>5. SizeIn(a) = SizeIn(eeprom)
        <5>1. SizeIn(a) = Cardinality(Used)
          BY <2>6, <4>3, <4>4, SizeIs DEF Typed
        <5>2. SizeIn(eeprom) = Cardinality(Used)
          BY <1>4, <2>8, SizeIs DEF Typed
        <5> QED BY <5>1, <5>2
      <4>6. ListIn(a) = b
        BY <1>4, <2>3, <2>6, <2>8, <3>3, <4>3, <4>4, <4>5, SameLists DEF b
      <4> QED BY <2>3, <2>6, <4>2, <4>6 DEF a, Leaves, Aborts
    <3> QED BY <3>4, <3>5
  <2> QED BY <2>7, <2>8
<1>10. Promising("insert", b, eeprom, t)
  <2>1. Len(t) \in Nat /\ Len(t) \in 0..Len(t)
    BY <1>4, <1>8
  <2>2. After(eeprom, t, Len(t))[Signature] = TRUE
    BY <1>9, <2>1 DEF Typed
  <2> QED BY <1>9, <2>1, <2>2, EndsAre
<1> QED BY <1>2, <1>10 DEF b

\* set: the entry alone, half of it first.
LEMMA SetPromises ==
  ASSUME Typed(eeprom), eeprom[Signature], NEW f \in Used, Count(Used, f) < nEntries,
         NEW entry \in Entry
  PROVE  Promising("replace", ListIn(eeprom), eeprom, SetBytes(f, entry))
<1> DEFINE t == SetBytes(f, entry)
           b == ListIn(eeprom)
<1>1. /\ Used \in SUBSET Slots /\ UsedIn(eeprom) = Used /\ nEntries = eeprom[NEntries]
      /\ nEntries \in 0..255 /\ Cardinality(Used) \in Nat
      /\ \A s \in Slots : s \div SectorBits \in 0..(NSectors - 1)
  BY TablesAre
<1>2. f \in Slots
  BY <1>1
<1>3. /\ t \in Seq(Bytes) /\ Len(t) = 2 /\ DOMAIN t = {1, 2} /\ Distinct(t)
      /\ t[1] = <<Cond(f), entry.cond>> /\ t[2] = <<Act(f), entry.act>>
  BY <1>2, EntryBytesAre, Zenon DEF SetBytes
<1> HIDE DEF t, b
<1>4. ASSUME NEW i \in 0..Len(t)
      PROVE  /\ Typed(After(eeprom, t, i)) /\ After(eeprom, t, i)[Signature]
             /\ Does("replace", b, ListIn(After(eeprom, t, i))) \/ Aborts("replace", b, ListIn(After(eeprom, t, i)))
             /\ Does("replace", b, ListIn(After(eeprom, t, i)))
  <2> DEFINE a == After(eeprom, t, i)
  <2>1. \A c \in Cells : (\A j \in 1..i : t[j][1] # c) => a[c] = eeprom[c]
    BY <1>3, AfterIs, Zenon
  <2>2. \A j \in 1..i : t[j][1] = Cond(f) \/ t[j][1] = Act(f)
    <3>1. \A j \in 1..i : j = 1 \/ j = 2
      BY <1>3
    <3> QED BY <1>3, <3>1
  <2>3. a[Signature] = TRUE /\ a[NEntries] = nEntries
    <3>1. Signature \in Cells /\ NEntries \in Cells /\ eeprom[Signature] = TRUE
      BY AreCells DEF Typed
    <3>2. \A j \in 1..i : t[j][1] # Signature /\ t[j][1] # NEntries
      BY <2>2, CellsDiffer
    <3> HIDE DEF a
    <3> QED BY <1>1, <2>1, <3>1, <3>2
  <2>4. UsedIn(a) = Used
    <3> SUFFICES ASSUME NEW s \in Slots
                 PROVE  HasBit(a, s) <=> HasBit(eeprom, s)
      BY <1>1 DEF UsedIn
    <3>1. Sector(s \div SectorBits) \in Cells
      BY AreCells
    <3>2. \A j \in 1..i : t[j][1] # Sector(s \div SectorBits)
      BY <2>2, CellsDiffer
    <3>3. a[Sector(s \div SectorBits)] = eeprom[Sector(s \div SectorBits)]
      BY <2>1, <3>1, <3>2
    <3> QED BY <3>3 DEF HasBit
  <2>5. \A s \in Slots : s # f => EntryIn(a, s) = EntryIn(eeprom, s)
    <3> SUFFICES ASSUME NEW s \in Slots, s # f
                 PROVE  EntryIn(a, s) = EntryIn(eeprom, s)
      OBVIOUS
    <3>1. Cond(s) \in Cells /\ Act(s) \in Cells
      BY AreCells
    <3>2. Cond(f) # Cond(s) /\ Cond(f) # Act(s) /\ Act(f) # Cond(s) /\ Act(f) # Act(s)
      BY CellsDiffer
    <3>3. a[Cond(s)] = eeprom[Cond(s)] /\ a[Act(s)] = eeprom[Act(s)]
      BY <2>1, <2>2, <3>1, <3>2
    <3> QED BY <3>3 DEF EntryIn
  <2>6. EntryIn(a, f) \in Content
    <3>1. EntryIn(eeprom, f) \in Content /\ Len(t) >= 2
      BY <1>2, <1>3 DEF Typed
    <3> QED BY <1>2, <1>3, <3>1, EntryAfter
  <2>7. Typed(a)
    <3>1. a = [c \in Cells |-> a[c]]
      BY AfterShape
    <3>2. \A s \in Slots : EntryIn(a, s) \in Content
      BY <2>5, <2>6 DEF Typed
    <3> HIDE DEF a
    <3> QED BY <1>1, <2>3, <3>1, <3>2 DEF Typed
  <2> HIDE DEF a
  <2>8. CASE ~WholeIn(eeprom)
    <3>1. b.whole = FALSE
      BY <2>8, BrokenLists DEF b
    <3> QED BY <2>3, <2>7, <3>1 DEF a, Does, Worsens
  <2>9. CASE WholeIn(eeprom)
    <3>1. b.whole = TRUE /\ b.list = Shown(Used, Cardinality(Used), eeprom)
      BY <1>1, <2>9, WholeLists DEF b
    <3>2. WholeIn(a)
      BY <1>1, <2>3, <2>4, <2>9 DEF WholeIn
    <3>3. ListIn(a).whole = TRUE /\ ListIn(a).list = Shown(Used, Cardinality(Used), a)
      BY <2>3, <2>4, <2>7, <3>2, WholeLists
    <3>4. Cardinality(Used) \in 0..Cardinality(Used) /\ Count(Used, f) < Cardinality(Used)
      <4>1. Count(Used, f) \in 0..(Cardinality(Used) - 1)
        BY <1>1, AtIs
      <4> QED BY <1>1, <4>1
    <3>5. \A s \in Used : s # f => EntryIn(a, s) = EntryIn(eeprom, s)
      BY <1>1, <2>5
    <3>6. /\ Count(Used, f) + 1 \in DOMAIN Shown(Used, Cardinality(Used), eeprom)
          /\ Shown(Used, Cardinality(Used), a)
               = ReplaceAt(Shown(Used, Cardinality(Used), eeprom), Count(Used, f) + 1, EntryIn(a, f))
      BY <1>1, <2>7, <3>4, <3>5, ShownOther
    <3>7. Replaces(b, ListIn(a))
      BY <2>6, <3>1, <3>3, <3>6 DEF Replaces
    <3>8. Does("replace", b, ListIn(a))
      BY <3>1, <3>3, <3>7 DEF Does, Commits
    <3> QED BY <2>3, <2>7, <3>8 DEF a
  <2> QED BY <2>8, <2>9
<1>5. Promising("replace", b, eeprom, t)
  <2>1. Len(t) \in Nat /\ Len(t) \in 0..Len(t)
    BY <1>3
  <2>2. After(eeprom, t, Len(t))[Signature] = TRUE
    BY <1>4, <2>1 DEF Typed
  <2>3. \A i \in 0..Len(t) : Typed(After(eeprom, t, i)) /\ Leaves("replace", b, ListIn(After(eeprom, t, i)))
    BY <1>4 DEF Leaves
  <2> QED BY <1>4, <2>1, <2>2, <2>3, EndsAre
<1> QED BY <1>5 DEF b, t

\* The EEPROM after some bytes of a header is still one.
LEMMA HeaderTyped ==
  ASSUME Typed(eeprom), NEW count \in 0..255, NEW used, NEW i \in Nat, NEW a,
         a = [c \in Cells |-> a[c]], HeaderAfter(a, 0, count, used, i),
         \A s \in Slots : EntryIn(a, s) = EntryIn(eeprom, s)
  PROVE  Typed(a) /\ (i >= 1 => a[Signature] = TRUE)
<1>1. /\ a[Signature] = IF i >= 1 THEN TRUE ELSE eeprom[Signature]
      /\ a[NEntries] = IF i >= 2 THEN count ELSE eeprom[NEntries]
  <2>1. 0 + 1 = 1 /\ 0 + 2 = 2
    OBVIOUS
  <2>2. /\ a[Signature] = IF i >= 0 + 1 THEN TRUE ELSE eeprom[Signature]
        /\ a[NEntries] = IF i >= 0 + 2 THEN count ELSE eeprom[NEntries]
    BY Zenon DEF HeaderAfter, nEntries
  <2> QED BY <2>1, <2>2, Zenon
<1>2. \A s \in Slots : EntryIn(a, s) \in Content
  BY DEF Typed
<1>3. a[NEntries] \in 0..255 /\ a[Signature] \in BOOLEAN
  BY <1>1 DEF Typed
<1>4. ~a[Signature] => a[NEntries] > MaxEntries
  <2> SUFFICES ASSUME ~a[Signature] PROVE a[NEntries] > MaxEntries
    OBVIOUS
  <2>1. ~(i >= 1)
    BY <1>1, Zenon
  <2>2. ~(i >= 2)
    BY <2>1
  <2>3. ~eeprom[Signature] /\ a[NEntries] = eeprom[NEntries]
    BY <1>1, <2>1, <2>2, Zenon
  <2> QED BY <2>3 DEF Typed
<1> QED BY <1>1, <1>2, <1>3, <1>4 DEF Typed

\* del: one less in the count, and then the bit goes; between the two the list
\* is too short.
LEMMA DelPromises ==
  ASSUME Typed(eeprom), eeprom[Signature], NEW f \in Used, Count(Used, f) < nEntries
  PROVE  DelBytes(f) # <<>> /\ Promising("remove", ListIn(eeprom), eeprom, DelBytes(f))
<1> DEFINE used == Used \ {f}
           count == nEntries - 1
           t == Header(count, used)
           b == ListIn(eeprom)
<1>1. /\ Used \in SUBSET Slots /\ UsedIn(eeprom) = Used /\ nEntries = eeprom[NEntries]
      /\ nEntries \in 0..255 /\ Cardinality(Used) \in Nat
      /\ NSectors \in Nat \ {0} /\ MaxEntries \in Nat
      /\ \A s \in Slots : s \div SectorBits \in 0..(NSectors - 1)
  BY TablesAre
<1>2. t = DelBytes(f)
  BY DEF DelBytes
<1>3. f \in Slots /\ used \in SUBSET Slots /\ Used = used \cup {f} /\ f \in Slots \ used
  BY <1>1
<1>4. Count(Used, f) \in Nat /\ count \in 0..255 /\ count \in Nat
  <2>1. Count(Used, f) \in Nat
    BY <1>1, SomeSlots
  <2> QED BY <1>1, <2>1
<1> HIDE DEF t, used, count, b
<1>5. /\ Len(t) = NSectors + 2
      /\ \A i \in 0..(NSectors + 2) :
           /\ HeaderAfter(After(eeprom, t, i), 0, count, used, i)
           /\ \A s \in Slots : EntryIn(After(eeprom, t, i), s) = EntryIn(eeprom, s)
  BY <1>3, <1>4, HeaderAlone DEF t
<1>6. ASSUME NEW i \in 0..Len(t)
      PROVE  /\ Typed(After(eeprom, t, i)) /\ (i = Len(t) => After(eeprom, t, i)[Signature] = TRUE)
             /\ Leaves("remove", b, ListIn(After(eeprom, t, i)))
             /\ i = Len(t) => Does("remove", b, ListIn(After(eeprom, t, i)))
  <2> DEFINE a == After(eeprom, t, i)
  <2>1. HeaderAfter(a, 0, count, used, i) /\ \A s \in Slots : EntryIn(a, s) = EntryIn(eeprom, s)
    BY <1>5
  <2>2. a = [c \in Cells |-> a[c]]
    BY AfterShape
  <2> HIDE DEF a
  <2>3. /\ a[NEntries] = IF i >= 2 THEN count ELSE nEntries
        /\ a[Signature] = TRUE
        /\ \A s \in Slots : s \in UsedIn(a) <=>
             IF i >= 3 + (s \div SectorBits) THEN s \in used ELSE s \in Used
    BY <2>1 DEF HeaderAfter, Typed
  <2>4. Typed(a)
    <3>1. i \in Nat
      BY <1>1, <1>5
    <3> QED BY <1>4, <2>1, <2>2, <3>1, HeaderTyped
  <2>5. CASE ~WholeIn(eeprom)
    <3>1. b.whole = FALSE
      BY <2>5, BrokenLists DEF b
    <3> QED BY <2>3, <2>4, <3>1 DEF a, Leaves, Does, Worsens
  <2>6. CASE WholeIn(eeprom)
    <3>1. nEntries >= Cardinality(Used) /\ nEntries <= MaxEntries
      BY <1>1, <2>6 DEF WholeIn
    <3>2. /\ b.whole = TRUE /\ b.list = Shown(Used, Cardinality(Used), eeprom)
          /\ DOMAIN b.list = 1..Cardinality(Used)
      BY <1>1, <2>6, WholeLists DEF b
    <3>3. CASE i >= 3 + (f \div SectorBits)
      <4>1. f \div SectorBits \in Nat
        BY <1>1, <1>3
      <4>2. i >= 2
        BY <3>3, <4>1
      <4>3. UsedIn(a) = used
        <5>1. UsedIn(a) \in SUBSET Slots
          BY DEF UsedIn
        <5>2. \A s \in Slots : s # f => (s \in used <=> s \in Used)
          BY <1>3
        <5>3. \A s \in Slots : s \in UsedIn(a) <=> s \in used
          BY <2>3, <3>3, <5>2
        <5> QED BY <1>3, <5>1, <5>3
      <4>a. \A s \in used : EntryIn(eeprom, s) = EntryIn(a, s)
        BY <1>3, <2>1
      <4>b. /\ Cardinality(used) \in Nat /\ Cardinality(used \cup {f}) = Cardinality(used) + 1
            /\ Count(used, f) + 1 \in 1..(Cardinality(used) + 1)
            /\ Shown(used, Cardinality(used), a)
                 = RemoveAt(Shown(used \cup {f}, Cardinality(used) + 1, eeprom), Count(used, f) + 1)
        <5>1. used \in SUBSET Slots /\ f \in Slots \ used
          BY <1>3
        <5>2. Typed(eeprom)
          OBVIOUS
        <5>3. \A s \in used : EntryIn(a, s) = EntryIn(eeprom, s)
          BY <4>a
        <5>4. Without(a, eeprom, used, f)
          BY <2>4, <5>1, <5>2, <5>3, ShownLess
        <5> QED BY <5>4 DEF Without
      <4>4. /\ Cardinality(used) \in Nat /\ Cardinality(Used) = Cardinality(used) + 1
            /\ Count(used, f) + 1 \in 1..Cardinality(Used)
            /\ Shown(used, Cardinality(used), a)
                 = RemoveAt(Shown(Used, Cardinality(Used), eeprom), Count(used, f) + 1)
        <5>1. used \cup {f} = Used
          BY <1>3
        <5>2. Cardinality(Used) = Cardinality(used) + 1
          BY <4>b, <5>1
        <5> QED BY <4>b, <5>1, <5>2
      <4>5. WholeIn(a)
        BY <1>1, <2>3, <3>1, <4>2, <4>3, <4>4 DEF WholeIn, count
      <4>6. ListIn(a).whole = TRUE /\ ListIn(a).list = Shown(used, Cardinality(used), a)
        BY <2>3, <2>4, <4>3, <4>5, WholeLists
      <4>7. Removes(b, ListIn(a))
        BY <3>2, <4>4, <4>6 DEF Removes
      <4>8. Does("remove", b, ListIn(a))
        BY <3>2, <4>6, <4>7 DEF Does, Commits
      <4> QED BY <2>3, <2>4, <4>8 DEF a, Leaves
    <3>4. CASE ~(i >= 3 + (f \div SectorBits))
      <4>1. f \div SectorBits \in 0..(NSectors - 1)
        BY <1>1, <1>3
      <4>2. i # Len(t)
        BY <1>1, <1>5, <3>4, <4>1
      <4>3. UsedIn(a) = Used
        <5>1. UsedIn(a) \in SUBSET Slots
          BY DEF UsedIn
        <5>2. \A s \in Slots : s # f => (s \in used <=> s \in Used)
          BY <1>3
        <5>3. \A s \in Slots : s \in UsedIn(a) <=> s \in Used
          BY <2>3, <3>4, <5>2
        <5> QED BY <1>1, <5>1, <5>3
      <4>4. CASE WholeIn(a)
        <5>1. SizeIn(a) = Cardinality(Used)
          BY <2>4, <4>3, <4>4, SizeIs DEF Typed
        <5>2. SizeIn(eeprom) = Cardinality(Used)
          BY <1>1, <2>6, SizeIs DEF Typed
        <5>3. \A s \in Used : EntryIn(a, s) = EntryIn(eeprom, s)
          BY <1>1, <2>1
        <5>4. SizeIn(a) = SizeIn(eeprom)
          BY <5>1, <5>2
        <5>5. ListIn(a) = b
          BY <1>1, <2>3, <2>4, <2>6, <4>3, <4>4, <5>3, <5>4, SameLists DEF b
        <5> QED BY <2>3, <2>4, <4>2, <5>5 DEF a, Leaves, Aborts
      <4>5. CASE ~WholeIn(a)
        <5>1. ListIn(a).whole = FALSE
          BY <2>3, <2>4, <4>5, BrokenLists
        <5> QED BY <2>3, <2>4, <4>2, <5>1 DEF a, Leaves, Aborts
      <4> QED BY <4>4, <4>5
    <3> QED BY <3>3, <3>4
  <2> QED BY <2>5, <2>6
<1>7. Promising("remove", b, eeprom, t)
  <2>1. Len(t) \in Nat /\ Len(t) \in 0..Len(t)
    BY <1>1, <1>5
  <2> QED BY <1>6, <2>1, EndsAre
<1>8. t # <<>>
  <2>1. Len(<<>>) = 0
    OBVIOUS
  <2> QED BY <1>1, <1>5, <2>1
<1> QED BY <1>2, <1>7, <1>8 DEF b

\* format: no entries, and then no bits.
LEMMA FormatPromises ==
  ASSUME Typed(eeprom)
  PROVE  Promising("clear", ListIn(eeprom), eeprom, FormatBytes)
<1> DEFINE t == Header(0, {})
           b == ListIn(eeprom)
<1>1. /\ Used \in SUBSET Slots /\ UsedIn(eeprom) = Used /\ nEntries = eeprom[NEntries]
      /\ nEntries \in 0..255 /\ Cardinality(Used) \in Nat
      /\ NSectors \in Nat \ {0} /\ MaxEntries \in Nat
      /\ \A s \in Slots : s \div SectorBits \in 0..(NSectors - 1)
  BY TablesAre
<1>2. t = FormatBytes
  BY DEF FormatBytes
<1> HIDE DEF t, b
<1>3. /\ Len(t) = NSectors + 2
      /\ \A i \in 0..(NSectors + 2) :
           /\ HeaderAfter(After(eeprom, t, i), 0, 0, {}, i)
           /\ \A s \in Slots : EntryIn(After(eeprom, t, i), s) = EntryIn(eeprom, s)
  BY HeaderAlone DEF t
<1>4. ASSUME NEW i \in 0..Len(t)
      PROVE  /\ Typed(After(eeprom, t, i)) /\ (i = Len(t) => After(eeprom, t, i)[Signature] = TRUE)
             /\ Leaves("clear", b, ListIn(After(eeprom, t, i)))
             /\ i = Len(t) => Does("clear", b, ListIn(After(eeprom, t, i)))
  <2> DEFINE a == After(eeprom, t, i)
  <2>1. HeaderAfter(a, 0, 0, {}, i) /\ \A s \in Slots : EntryIn(a, s) = EntryIn(eeprom, s)
    BY <1>3
  <2>2. a = [c \in Cells |-> a[c]]
    BY AfterShape
  <2>a. i = 0 => a = eeprom
    BY AfterNone DEF Typed
  <2> HIDE DEF a
  <2>3. /\ a[NEntries] = IF i >= 2 THEN 0 ELSE nEntries
        /\ a[Signature] = IF i >= 1 THEN TRUE ELSE eeprom[Signature]
        /\ \A s \in Slots : s \in UsedIn(a) <=>
             IF i >= 3 + (s \div SectorBits) THEN s \in {} ELSE s \in Used
    BY <2>1 DEF HeaderAfter
  <2>4. i \in Nat /\ Typed(a)
    <3>1. i \in Nat /\ 0 \in 0..255
      BY <1>1, <1>3
    <3> QED BY <2>1, <2>2, <3>1, HeaderTyped
  <2>5. CASE i = 0
    <3>1. i # Len(t)
      BY <1>1, <1>3, <2>5
    <3> QED BY <2>4, <2>5, <2>a, <3>1 DEF a, b, Leaves, Aborts
  <2>6. CASE i = 1
    <3>1. i # Len(t) /\ a[Signature] = TRUE /\ a[NEntries] = nEntries
      BY <1>1, <1>3, <2>3, <2>6
    <3>2. UsedIn(a) = Used
      <4>1. UsedIn(a) \in SUBSET Slots
        BY DEF UsedIn
      <4>2. ASSUME NEW s \in Slots
            PROVE  ~(i >= 3 + (s \div SectorBits))
        <5>1. s \div SectorBits \in 0..(NSectors - 1)
          BY <1>1
        <5> QED BY <2>6, <5>1
      <4> QED BY <1>1, <2>3, <4>1, <4>2
    <3>3. CASE ~WholeIn(a)
      <4>1. ListIn(a).whole = FALSE
        BY <2>4, <3>1, <3>3, BrokenLists
      <4> QED BY <2>4, <3>1, <4>1 DEF a, Leaves, Aborts
    <3>4. CASE WholeIn(a)
      <4>1. WholeIn(eeprom) /\ nEntries <= MaxEntries
        BY <1>1, <3>1, <3>2, <3>4 DEF WholeIn
      <4>2. eeprom[Signature]
        <5> SUFFICES ASSUME ~eeprom[Signature] PROVE FALSE
          OBVIOUS
        <5>1. eeprom[NEntries] > MaxEntries
          BY DEF Typed
        <5> QED BY <1>1, <4>1, <5>1
      <4>3. SizeIn(a) = SizeIn(eeprom)
        BY <1>1, <3>1, <3>2 DEF SizeIn
      <4>4. \A s \in Used : EntryIn(a, s) = EntryIn(eeprom, s)
        BY <1>1, <2>1
      <4>5. ListIn(a) = b
        BY <1>1, <2>4, <3>1, <3>2, <3>4, <4>1, <4>2, <4>3, <4>4, SameLists DEF b
      <4> QED BY <2>4, <3>1, <4>5 DEF a, Leaves, Aborts
    <3> QED BY <3>3, <3>4
  <2>7. CASE i >= 2
    <3>1. a[NEntries] = 0 /\ a[Signature] = TRUE
      BY <2>3, <2>4, <2>7
    <3>2. ListIn(a).list = <<>>
      <4>1. SizeIn(a) = 0
        BY <2>4, <3>1, SizeIs DEF Typed
      <4>2. ListIn(a).list \in Seq(Content) /\ ListIn(a).list = Shown(UsedIn(a), 0, a)
        BY <2>4, <3>1, <4>1, ListFields
      <4>3. DOMAIN Shown(UsedIn(a), 0, a) = 1..0
        BY DEF Shown
      <4> QED BY <4>2, <4>3
    <3>3. CASE WholeIn(a)
      <4>1. ListIn(a).whole = TRUE
        BY <2>4, <3>1, <3>3, WholeLists
      <4> QED BY <2>4, <3>1, <3>2, <4>1 DEF a, Leaves, Does, Commits
    <3>4. CASE ~WholeIn(a)
      <4>1. ListIn(a).whole = FALSE
        BY <2>4, <3>1, <3>4, BrokenLists
      <4>2. i # Len(t)
        <5> SUFFICES ASSUME i = Len(t) PROVE FALSE
          OBVIOUS
        <5>1. ASSUME NEW s \in Slots
              PROVE  s \notin UsedIn(a)
          <6>1. s \div SectorBits \in 0..(NSectors - 1)
            BY <1>1
          <6>2. i >= 3 + (s \div SectorBits)
            BY <1>1, <1>3, <6>1
          <6> QED BY <2>3, <6>2
        <5>2. UsedIn(a) = {}
          <6>1. UsedIn(a) \in SUBSET Slots
            BY DEF UsedIn
          <6> QED BY <5>1, <6>1
        <5>3. Cardinality(UsedIn(a)) = 0
          BY <5>2, FS_EmptySet
        <5> QED BY <1>1, <3>1, <3>4, <5>3 DEF WholeIn
      <4> QED BY <2>4, <3>1, <4>1, <4>2 DEF a, Leaves, Aborts
    <3> QED BY <3>3, <3>4
  <2>8. i = 0 \/ i = 1 \/ i >= 2
    BY <2>4
  <2> QED BY <2>5, <2>6, <2>7, <2>8
<1>5. Promising("clear", b, eeprom, t)
  <2>1. Len(t) \in Nat /\ Len(t) \in 0..Len(t)
    BY <1>1, <1>3
  <2> QED BY <1>4, <2>1, EndsAre
<1> QED BY <1>2, <1>5 DEF b

-----------------------------------------------------------------------------
(* What EntryList sees, and how it sees a step *)

ListSeen == IF Written THEN Top.before.list ELSE List.list
WholeSeen == IF Written THEN Top.before.whole ELSE List.whole
BusySeen == IF Written THEN Top.operation ELSE "no"
Unseen == UNCHANGED <<ListSeen, WholeSeen, BusySeen>>

LEMMA NotSeen == Unseen => UNCHANGED Promised!listVars
  BY DEF Unseen, ListSeen, WholeSeen, BusySeen, Promised!listVars

LEMMA SeenToBegin ==
  ASSUME BusySeen = "no", BusySeen' \in {"insert", "replace", "remove", "clear"},
         ListSeen' = ListSeen, WholeSeen' = WholeSeen
  PROVE  Promised!Next
<1>1. Promised!Begin
  BY DEF ListSeen, WholeSeen, BusySeen, Promised!Begin, Promised!Operations
<1> QED BY <1>1 DEF Promised!Next

\* EntryList takes the operators on sequences where this module does.
LEMMA SameWords ==
  /\ \A s, k, c : Promised!InsertAt(s, k, c) = InsertAt(s, k, c)
  /\ \A s, k, c : Promised!ReplaceAt(s, k, c) = ReplaceAt(s, k, c)
  /\ \A s, k : Promised!RemoveAt(s, k) = RemoveAt(s, k)
  BY DEF Promised!InsertAt, Promised!ReplaceAt, Promised!RemoveAt, InsertAt, ReplaceAt, RemoveAt

LEMMA SeenToEnd ==
  ASSUME BusySeen # "no", BusySeen' = "no",
         NEW b, b.list = ListSeen, b.whole = WholeSeen,
         NEW a, a.list = ListSeen', a.whole = WholeSeen',
         Leaves(BusySeen, b, a)
  PROVE  Promised!Next
<1> DEFINE op == BusySeen
<1>1. Inserts(b, a) => Promised!Inserted
  BY SameWords DEF Inserts, ListSeen, Content, Promised!Inserted
<1>2. Replaces(b, a) => Promised!Replaced
  BY SameWords DEF Replaces, ListSeen, Content, Promised!Replaced
<1>3. Removes(b, a) => Promised!Removed
  BY SameWords DEF Removes, ListSeen, Promised!Removed
<1>4. CASE Commits(op, b, a)
  <2>1. Promised!Commit
    BY <1>1, <1>2, <1>3, <1>4 DEF Commits, ListSeen, WholeSeen, BusySeen, Promised!Commit
  <2> QED BY <2>1 DEF Promised!Next
<1>5. CASE Worsens(op, b)
  <2>1. Promised!Worsen
    BY <1>5 DEF Worsens, WholeSeen, BusySeen, Promised!Worsen
  <2> QED BY <2>1 DEF Promised!Next
<1>6. CASE Aborts(op, b, a)
  <2>1. Promised!Abort
    BY <1>2, <1>6 DEF Aborts, ListSeen, WholeSeen, BusySeen, Promised!Abort
  <2> QED BY <2>1 DEF Promised!Next
<1> QED BY <1>4, <1>5, <1>6 DEF Leaves, Does

\* While an operation is written, wherever it is cut off the list is one that
\* EntryList knows; the EEPROM has a signature when the sketch runs.
ListInv ==
  /\ EventsInv
  /\ \A i \in 0..Len(todo) : Typed(After(eeprom, todo, i))
  /\ todo = <<>> /\ (on \/ stack # <<>>) => eeprom[Signature] = TRUE
  /\ Written => Promising(Top.operation, Top.before, eeprom, todo)

LEMMA TypedNow ==
  ASSUME ListInv
  PROVE  /\ EventsInv /\ Typed(eeprom) /\ List = ListIn(eeprom) /\ nEntries \in 0..255
         /\ After(eeprom, todo, 0) = eeprom /\ todo \in Seq(Bytes) /\ 0 \in 0..Len(todo)
<1>1. EventsInv /\ nEntries \in 0..255 /\ IsEeprom(eeprom)
  BY AtStart DEF ListInv
<1>2. todo \in Seq(Bytes)
  BY <1>1 DEF EventsInv, StoreOK, Sane
<1>3. 0 \in 0..Len(todo)
  <2>1. Len(todo) \in Nat
    BY <1>2
  <2> QED BY <2>1
<1>4. After(eeprom, todo, 0) = eeprom
  BY <1>1, AfterNone DEF IsEeprom
<1>5. Typed(eeprom)
  BY <1>3, <1>4 DEF ListInv
<1> QED BY <1>1, <1>2, <1>3, <1>4, <1>5, ListHere

LEMMA ListThere == nEntries' \in 0..255 => List' = ListIn(eeprom')
<1>1. (nEntries \in 0..255 => List = ListIn(eeprom))'
  BY ListHere, PTL
<1> QED BY <1>1

\* The list stays when the EEPROM does.
LEMMA ListStays ==
  ASSUME ListInv, UNCHANGED eeprom
  PROVE  List' = List /\ List = ListIn(eeprom)
<1>1. nEntries' \in 0..255
  BY TypedNow DEF nEntries
<1> QED BY <1>1, TypedNow, ListThere

\* A step that writes nothing.
LEMMA WritesNothing ==
  ASSUME ListInv, EventsInv', UNCHANGED <<eeprom, todo>>, todo = <<>>,
         on' \/ stack' # <<>> => on \/ stack # <<>> \/ eeprom[Signature] = TRUE
  PROVE  ListInv' /\ Unseen
<1>1. ~Written /\ ~Written'
  BY DEF Written
<1>2. \A i \in 0..Len(todo') : Typed(After(eeprom', todo', i))
  BY DEF ListInv
<1>3. ListInv'
  BY <1>1, <1>2 DEF ListInv
<1>4. List' = List
  BY ListStays
<1> QED BY <1>1, <1>3, <1>4 DEF Unseen, ListSeen, WholeSeen, BusySeen

\* An operation starts.
LEMMA OperationStarts ==
  ASSUME ListInv, EventsInv', Free, UNCHANGED eeprom, todo' # <<>>,
         NEW op, NEW reply, NEW legal, stack' = Append(Disturbed(stack), Writing(op, reply, legal)),
         Promising(op, ListIn(eeprom), eeprom, todo')
  PROVE  ListInv' /\ Promised!Next
<1> DEFINE f == Writing(op, reply, legal)
<1>1. todo = <<>> /\ WellStacked(Disturbed(stack))
  BY SketchIsFree DEF ListInv
<1>2. f.place = "write" /\ f.operation = op /\ f.before = List /\ List' = List /\ List = ListIn(eeprom)
  BY ListStays DEF Writing
<1> HIDE DEF f
<1>3. stack' # <<>> /\ Top' = f
  BY <1>1, PushLast DEF Top, f
<1>4. Written' /\ ~Written
  BY <1>1, <1>2, <1>3 DEF Written, Running
<1>5. \A i \in 0..Len(todo') : Typed(After(eeprom', todo', i))
  BY DEF Promising
<1>6. Promising(op, List, eeprom', todo')
  BY <1>2
<1>7. ListInv'
  BY <1>2, <1>3, <1>5, <1>6 DEF ListInv
<1>8. op \in {"insert", "replace", "remove", "clear"}
  BY DEF Promising, Does, Commits, Worsens
<1>9. BusySeen = "no" /\ BusySeen' = op /\ ListSeen' = ListSeen /\ WholeSeen' = WholeSeen
  BY <1>2, <1>3, <1>4 DEF BusySeen, ListSeen, WholeSeen
<1> QED BY <1>7, <1>8, <1>9, SeenToBegin

LEMMA AfterGoesOn ==
  ASSUME EventsInv, WriteByte
  PROVE  /\ Len(todo) \in Nat /\ Len(todo') = Len(todo) - 1 /\ Len(todo') \in Nat
         /\ \A i \in 0..Len(todo') : i + 1 \in 0..Len(todo) /\ After(eeprom', todo', i) = After(eeprom, todo, i + 1)
<1>1. /\ todo # <<>> /\ eeprom' = [eeprom EXCEPT ![todo[1][1]] = todo[1][2]] /\ todo' = Tail(todo)
      /\ eeprom = [c \in Cells |-> eeprom[c]] /\ todo \in Seq(Bytes) /\ Distinct(todo)
  BY DEF EventsInv, StoreOK, IsEeprom, Sane, WriteByte
<1>2. Len(Tail(todo)) \in Nat /\ Len(todo) \in Nat /\ Len(Tail(todo)) = Len(todo) - 1
  BY <1>1
<1>3. \A i \in 0..Len(Tail(todo)) :
        After([eeprom EXCEPT ![todo[1][1]] = todo[1][2]], Tail(todo), i) = After(eeprom, todo, i + 1)
  BY <1>1, AfterByte
<1>4. \A i \in 0..Len(Tail(todo)) : i + 1 \in 0..Len(todo)
  BY <1>2
<1> QED BY <1>1, <1>2, <1>3, <1>4

\* One byte: the operation goes on, or it has happened.
LEMMA ByteSeen ==
  ASSUME ListInv, EventsInv', Byte
  PROVE  ListInv' /\ (Unseen \/ Promised!Next)
<1> DEFINE op == Top.operation
           b == Top.before
<1>1. WriteByte /\ todo # <<>> /\ UNCHANGED <<stack, on>>
  BY DEF Byte, WriteByte, setup
<1>2. Running("write") /\ Written /\ stack # <<>>
  BY <1>1 DEF ListInv, EventsInv, Written, Running
<1>3. Promising(op, b, eeprom, todo)
  BY <1>2 DEF ListInv
<1>4. /\ Len(todo) \in Nat /\ Len(todo') = Len(todo) - 1 /\ Len(todo') \in Nat
      /\ \A i \in 0..Len(todo') : i + 1 \in 0..Len(todo) /\ After(eeprom', todo', i) = After(eeprom, todo, i + 1)
  BY <1>1, AfterGoesOn DEF ListInv
<1>5. After(eeprom', todo', Len(todo')) = After(eeprom, todo, Len(todo))
  <2>1. Len(todo') \in 0..Len(todo') /\ Len(todo') + 1 = Len(todo)
    BY <1>4
  <2> QED BY <1>4, <2>1
<1>6. Promising(op, b, eeprom', todo')
  <2>1. \A i \in 0..Len(todo') : /\ Typed(After(eeprom', todo', i))
                                 /\ Leaves(op, b, ListIn(After(eeprom', todo', i)))
    BY <1>3, <1>4 DEF Promising
  <2>2. /\ Does(op, b, ListIn(After(eeprom', todo', Len(todo'))))
        /\ After(eeprom', todo', Len(todo'))[Signature] = TRUE
    BY <1>3, <1>5 DEF Promising
  <2> QED BY <2>1, <2>2 DEF Promising
<1>7. Top' = Top /\ (Written' <=> todo' # <<>>)
  BY <1>1, <1>2 DEF Top, Written, Running
<1>8. CASE todo' # <<>>
  <2>1. ListInv'
    BY <1>6, <1>7, <1>8 DEF ListInv, Promising
  <2>2. Unseen
    BY <1>2, <1>7, <1>8 DEF Unseen, ListSeen, WholeSeen, BusySeen
  <2> QED BY <2>1, <2>2
<1>9. CASE todo' = <<>>
  <2>1. After(eeprom', todo', Len(todo')) = eeprom'
    <3>1. Len(todo') = 0 /\ eeprom' = [c \in Cells |-> eeprom'[c]]
      BY <1>9 DEF EventsInv, StoreOK, IsEeprom
    <3> QED BY <3>1, AfterNone
  <2>2. eeprom'[Signature] = TRUE /\ Does(op, b, ListIn(eeprom'))
    BY <1>6, <2>1 DEF Promising
  <2>3. \A i \in 0..Len(todo') : Typed(After(eeprom', todo', i))
    BY <1>6 DEF Promising
  <2>4. ListInv'
    BY <1>7, <1>9, <2>2, <2>3 DEF ListInv
  <2>5. List' = ListIn(eeprom')
    <3>1. nEntries' \in 0..255
      BY DEF EventsInv, StoreOK, IsEeprom, nEntries
    <3> QED BY <3>1, ListThere
  <2>6. /\ BusySeen = op /\ BusySeen' = "no" /\ ListSeen = b.list /\ WholeSeen = b.whole
        /\ ListSeen' = ListIn(eeprom').list /\ WholeSeen' = ListIn(eeprom').whole
    BY <1>2, <1>7, <1>9, <2>5 DEF BusySeen, ListSeen, WholeSeen
  <2>7. op # "no" /\ Leaves(op, b, ListIn(eeprom'))
    BY <2>2 DEF Does, Leaves, Commits, Worsens
  <2> HIDE DEF op, b
  <2>8. Promised!Next
    BY <2>6, <2>7, SeenToEnd
  <2> QED BY <2>4, <2>8
<1> QED BY <1>8, <1>9

\* A reset: what was being written is left as it is.
LEMMA ResetSeen ==
  ASSUME ListInv, EventsInv', Reset
  PROVE  ListInv' /\ (Unseen \/ Promised!Next)
<1>1. UNCHANGED eeprom /\ todo' = <<>> /\ stack' = <<>> /\ on' = FALSE
  BY DEF Reset
<1>2. ~Written' /\ List' = List /\ List = ListIn(eeprom) /\ Typed(eeprom)
  BY <1>1, ListStays, TypedNow DEF Written
<1>3. \A i \in 0..Len(todo') : Typed(After(eeprom', todo', i))
  <2>1. Len(<<>>) = 0 /\ 0..0 = {0}
    OBVIOUS
  <2>2. After(eeprom, <<>>, 0) = eeprom
    BY <1>2, AfterNone DEF Typed
  <2> QED BY <1>1, <1>2, <2>1, <2>2
<1>4. ListInv'
  BY <1>1, <1>2, <1>3 DEF ListInv
<1>5. CASE ~Written
  BY <1>2, <1>4, <1>5 DEF Unseen, ListSeen, WholeSeen, BusySeen
<1>6. CASE Written
  <2> DEFINE op == Top.operation
             b == Top.before
             a == ListIn(eeprom)
  <2>1. Promising(op, b, eeprom, todo)
    BY <1>6 DEF ListInv
  <2>2. Leaves(op, b, a) /\ op # "no"
    <3>1. Leaves(op, b, ListIn(After(eeprom, todo, 0))) /\ After(eeprom, todo, 0) = eeprom
      BY <2>1, TypedNow DEF Promising
    <3>2. op # "no"
      BY <2>1 DEF Promising, Does, Commits, Worsens
    <3> QED BY <3>1, <3>2
  <2>3. /\ BusySeen = op /\ BusySeen' = "no" /\ ListSeen = b.list /\ WholeSeen = b.whole
        /\ ListSeen' = a.list /\ WholeSeen' = a.whole
    BY <1>2, <1>6 DEF BusySeen, ListSeen, WholeSeen
  <2> HIDE DEF op, b, a
  <2>4. Promised!Next
    BY <2>2, <2>3, SeenToEnd
  <2> QED BY <1>4, <2>4
<1> QED BY <1>5, <1>6

-----------------------------------------------------------------------------
(* Every action *)

Seen == Unseen \/ Promised!Next

\* What the code of the sketch and the answers to packets do.
LEMMA SketchSeen ==
  ASSUME ListInv, EventsInv', InSketch, UNCHANGED <<eeprom, todo>>
  PROVE  ListInv' /\ Seen
<1>1. todo = <<>>
  BY SketchIsFree DEF ListInv, InSketch, Free
<1> QED BY <1>1, WritesNothing DEF InSketch, Seen

\* What what is innermost does, a write apart.
LEMMA RunningSeen ==
  ASSUME ListInv, EventsInv', stack # <<>>, todo = <<>>, UNCHANGED <<eeprom, todo>>
  PROVE  ListInv' /\ Seen
  BY WritesNothing DEF Seen

LEMMA StepSeen ==
  ASSUME ListInv, EventsInv', Step
  PROVE  ListInv' /\ Seen
<1>1. \A place : Running(place) => stack # <<>> /\ (place # "write" => todo = <<>>)
  BY DEF Running, ListInv, EventsInv
<1>2. CASE begin
  <2>1. UNCHANGED eeprom /\ todo = <<>> /\ stack = <<>>
    BY <1>2 DEF begin
  <2>2. CASE eeprom[Signature]
    <3>1. UNCHANGED todo
      BY <1>2, <2>2 DEF begin
    <3>2. eeprom[Signature] = TRUE
      BY <2>2, TypedNow DEF Typed
    <3> QED BY <2>1, <3>1, <3>2, WritesNothing DEF Seen
  <2>3. CASE ~eeprom[Signature]
    <3> DEFINE legal == [s \in Slots |-> {}]
    <3>1. todo' = FormatBytes /\ stack' = Append(stack, Writing("clear", FALSE, legal))
      BY <1>2, <2>3 DEF begin, Writes, Push
    <3> HIDE DEF legal
    <3>2. Free /\ stack' = Append(Disturbed(stack), Writing("clear", FALSE, legal))
      BY <2>1, <3>1, EmptyStack DEF Free
    <3>3. Promising("clear", ListIn(eeprom), eeprom, todo') /\ todo' # <<>>
      BY <3>1, FormatPromises, FormatIs, TypedNow
    <3> QED BY <2>1, <3>2, <3>3, OperationStarts DEF Seen
  <2> QED BY <2>2, <2>3
<1>3. CASE FormatDone
  <2>1. stack # <<>> /\ todo = <<>> /\ UNCHANGED <<eeprom, todo>>
    BY <1>1, <1>3 DEF FormatDone, storeVars
  <2> QED BY <2>1, RunningSeen
<1>4. CASE Byte
  BY <1>4, ByteSeen DEF Seen
<1>5. CASE Acknowledge
  <2>1. stack # <<>> /\ todo = <<>> /\ UNCHANGED <<eeprom, todo>>
    BY <1>1, <1>5 DEF Acknowledge, storeVars
  <2> QED BY <2>1, RunningSeen
<1>6. CASE checkLocalEvent
  <2>1. stack # <<>> /\ todo = <<>> /\ UNCHANGED <<eeprom, todo>>
    BY <1>1, <1>6 DEF checkLocalEvent, storeVars
  <2> QED BY <2>1, RunningSeen
<1>7. CASE IterateBegin
  <2>1. stack # <<>> /\ todo = <<>> /\ UNCHANGED <<eeprom, todo>>
    BY <1>1, <1>7 DEF IterateBegin
  <2> QED BY <2>1, RunningSeen
<1>8. CASE Iterate
  <2>1. Running("event") /\ UNCHANGED <<eeprom, todo>>
    BY <1>8, Zenon DEF Iterate
  <2> QED BY <1>1, <2>1, RunningSeen
<1>9. CASE EventDone
  <2>1. stack # <<>> /\ todo = <<>> /\ UNCHANGED <<eeprom, todo>>
    BY <1>1, <1>9 DEF EventDone, storeVars
  <2> QED BY <2>1, RunningSeen
<1>10. CASE CallbackReturns
  <2>1. stack # <<>> /\ todo = <<>> /\ UNCHANGED <<eeprom, todo>>
    BY <1>1, <1>10 DEF CallbackReturns, storeVars
  <2> QED BY <2>1, RunningSeen
<1> QED BY <1>2, <1>3, <1>4, <1>5, <1>6, <1>7, <1>8, <1>9, <1>10 DEF Step

\* A command starts to write, or is refused.
LEMMA StoreSeen ==
  ASSUME ListInv, EventsInv', InSketch, NEW op, NEW possible \in BOOLEAN, NEW bytes, NEW legal,
         Store(op, possible, bytes, legal), UNCHANGED on,
         possible => bytes # <<>> /\ Promising(op, ListIn(eeprom), eeprom, bytes)
  PROVE  ListInv' /\ Seen
<1>1. CASE possible
  <2>1. /\ todo' = bytes /\ UNCHANGED eeprom
        /\ stack' = Append(Disturbed(stack), Writing(op, TRUE, legal))
    BY <1>1 DEF Store, Writes
  <2>2. Free /\ todo' # <<>> /\ Promising(op, ListIn(eeprom), eeprom, todo')
    BY <1>1, <2>1 DEF InSketch, Free
  <2> QED BY <2>1, <2>2, OperationStarts DEF Seen
<1>2. CASE ~possible
  <2>1. UNCHANGED <<eeprom, todo>>
    BY <1>2 DEF Store
  <2> QED BY <2>1, SketchSeen
<1> QED BY <1>1, <1>2

\* The slot of an entry of the list.
LEMMA SlotCounts ==
  ASSUME NEW n, SlotOf(n) # {}, NEW s, s = CHOOSE t \in SlotOf(n) : TRUE
  PROVE  s \in Used /\ Count(Used, s) = n /\ n < nEntries
<1>1. s \in SlotOf(n)
  OBVIOUS
<1>2. s \in Used /\ n < nEntries /\ Rank(s) = n
  BY <1>1, SlotOfIs
<1> QED BY <1>2 DEF Count, Rank

LEMMA SignedNow ==
  ASSUME ListInv, InSketch
  PROVE  eeprom[Signature] = TRUE
<1>1. todo = <<>> /\ on
  BY SketchIsFree DEF ListInv, InSketch, Free
<1> QED BY <1>1 DEF ListInv

LEMMA ParseSeen ==
  ASSUME ListInv, EventsInv', Parse
  PROVE  ListInv' /\ Seen
<1>1. InSketch /\ UNCHANGED on
  BY DEF Parse, ParseNothing, ParseGetEntry, ParseGetAction, clearEntries, addEntry, setEntry,
         delEntry, ParseAction, ParseEvent, Parses, setup
<1>2. EventsInv /\ Typed(eeprom) /\ eeprom[Signature] /\ (got => received \in Asks)
  BY <1>1, SignedNow, TypedNow DEF EventsInv
<1>3. CASE ParseNothing \/ ParseGetEntry \/ ParseGetAction \/ ParseAction \/ ParseEvent
  <2>1. UNCHANGED <<eeprom, todo>>
    BY <1>3 DEF ParseNothing, ParseGetEntry, ParseGetAction, ParseAction, ParseEvent, storeVars
  <2> QED BY <1>1, <2>1, SketchSeen
<1>4. CASE clearEntries
  <2>1. Store("clear", TRUE, FormatBytes, [s \in Slots |-> {}])
    BY <1>4 DEF clearEntries
  <2>2. FormatBytes # <<>> /\ Promising("clear", ListIn(eeprom), eeprom, FormatBytes)
    BY <1>2, FormatIs, FormatPromises
  <2> QED BY <1>1, <2>1, <2>2, StoreSeen
<1>5. CASE addEntry
  <2> DEFINE entry == received.entry
             after == [stored EXCEPT ![FreeSlot] = {entry}]
  <2>1. Store("insert", HasRoom, AppendBytes(entry), after) /\ HasRoom \in BOOLEAN
    BY <1>5, Zenon DEF addEntry, HasRoom
  <2>2. entry \in Entry
    <3>1. received \in Asks /\ received.type = "addEntry"
      BY <1>2, <1>5 DEF addEntry, Parses
    <3> QED BY <3>1, AquilaProtocolAssumption
  <2> HIDE DEF entry, after
  <2>3. HasRoom => AppendBytes(entry) # <<>>
    BY <1>2, <2>2, AtStart, AppendIsSound
  <2>4. HasRoom => Promising("insert", ListIn(eeprom), eeprom, AppendBytes(entry))
    BY <1>2, <2>2, AppendPromises
  <2> QED BY <1>1, <2>1, <2>3, <2>4, StoreSeen
<1>6. CASE setEntry
  <2> DEFINE slots == SlotOf(received.n)
             s == CHOOSE t \in slots : TRUE
             entry == received.entry
             after == [stored EXCEPT ![s] = {entry}]
  <2>1. CASE slots = {}
    <3>1. Store("replace", FALSE, <<>>, stored)
      BY <1>6, <2>1, Zenon DEF setEntry
    <3> QED BY <1>1, <3>1, StoreSeen
  <2>2. CASE slots # {}
    <3>1. Store("replace", TRUE, SetBytes(s, entry), after)
      BY <1>6, <2>2, Zenon DEF setEntry
    <3>2. entry \in Entry
      <4>1. received \in Asks /\ received.type = "setEntry"
        BY <1>2, <1>6 DEF setEntry, Parses
      <4> QED BY <4>1, AquilaProtocolAssumption
    <3>3. s \in Used /\ Count(Used, s) < nEntries
      BY <2>2, SlotCounts
    <3> HIDE DEF s, entry, after
    <3>4. SetBytes(s, entry) # <<>>
      BY <1>2, <3>2, <3>3, AtStart, SetIsSound
    <3>5. Promising("replace", ListIn(eeprom), eeprom, SetBytes(s, entry))
      BY <1>2, <3>2, <3>3, SetPromises
    <3> QED BY <1>1, <3>1, <3>4, <3>5, StoreSeen
  <2> QED BY <2>1, <2>2
<1>7. CASE delEntry
  <2> DEFINE slots == SlotOf(received.n)
             s == CHOOSE t \in slots : TRUE
             after == [stored EXCEPT ![s] = {}]
  <2>1. Store("remove", slots # {}, DelBytes(s), after)
    BY <1>7, Zenon DEF delEntry
  <2>2. slots # {} => s \in Used /\ Count(Used, s) < nEntries
    BY SlotCounts
  <2> HIDE DEF slots, s, after
  <2>3. slots # {} => /\ DelBytes(s) # <<>>
                      /\ Promising("remove", ListIn(eeprom), eeprom, DelBytes(s))
    BY <1>2, <2>2, DelPromises
  <2> QED BY <1>1, <2>1, <2>3, StoreSeen
<1> QED BY <1>3, <1>4, <1>5, <1>6, <1>7 DEF Parse


LEMMA NothingSeen ==
  ASSUME ListInv, EventsInv', UNCHANGED vars
  PROVE  ListInv' /\ Seen
<1>1. UNCHANGED <<eeprom, todo, stack, on>>
  BY DEF vars, storeVars, setup
<1>2. Top' = Top /\ (Written' <=> Written)
  BY <1>1 DEF Top, Written, Running
<1>3. ListInv'
  BY <1>1, <1>2 DEF ListInv
<1>4. List' = List
  BY <1>1, ListStays
<1> QED BY <1>2, <1>3, <1>4 DEF Seen, Unseen, ListSeen, WholeSeen, BusySeen

LEMMA NextSeen ==
  ASSUME ListInv, [Next]_vars
  PROVE  ListInv' /\ [Promised!Next]_(Promised!listVars)
<1> SUFFICES ListInv' /\ Seen
  BY NotSeen DEF Seen
<1>1. EventsInv'
  BY EventsNext DEF ListInv
<1>2. CASE Step
  BY <1>1, <1>2, StepSeen
<1>3. CASE Parse
  BY <1>1, <1>3, ParseSeen
<1>4. CASE Protocol__rxHandler
  <2>1. InSketch /\ UNCHANGED <<eeprom, todo>>
    BY <1>4 DEF Protocol__rxHandler, storeVars
  <2> QED BY <1>1, <2>1, SketchSeen
<1>5. CASE \E cond \in Conds : emit(cond)
  <2>1. InSketch /\ UNCHANGED <<eeprom, todo>>
    BY <1>5 DEF emit, storeVars
  <2> QED BY <1>1, <2>1, SketchSeen
<1>6. CASE \E n \in 0..(MaxActions - 1) : requestAction(n)
  <2>1. InSketch /\ UNCHANGED <<eeprom, todo>>
    BY <1>6 DEF requestAction, storeVars
  <2> QED BY <1>1, <2>1, SketchSeen
<1>7. CASE Reset
  BY <1>1, <1>7, ResetSeen DEF Seen
<1>8. CASE sendNow \/ requestActionThere
  <2>1. InSketch /\ UNCHANGED <<eeprom, todo>>
    BY <1>8 DEF sendNow, requestActionThere, storeVars
  <2> QED BY <1>1, <2>1, SketchSeen
<1>9. CASE UNCHANGED vars
  BY <1>1, <1>9, NothingSeen
<1> QED BY <1>2, <1>3, <1>4, <1>5, <1>6, <1>7, <1>8, <1>9 DEF Next

-----------------------------------------------------------------------------
(* The tables a node may start with are lists *)

LEMMA StartsList ==
  ASSUME Init
  PROVE  Typed(eeprom) /\ ListIn(eeprom).whole = TRUE
<1>1. MaxEntries \in Nat /\ MaxEntries < 255
  BY SlotsAre, EventStoreAssumption
<1>2. IsEeprom(eeprom)
  BY StartsSound
<1>3. CASE eeprom = Erased
  <2>1. Erased[Signature] = FALSE
    BY AreCells, CellIs DEF Erased
  <2>2. Erased[NEntries] = 255
    BY AreCells, CellIs DEF Erased
  <2>3. ASSUME NEW s \in Slots
        PROVE  EntryIn(Erased, s) \in Content
    <3>1. Erased[Cond(s)] = Blank
      BY AreCells, CellIs DEF Erased
    <3>2. Erased[Act(s)] = Blank
      BY AreCells, CellIs DEF Erased
    <3> QED BY <3>1, <3>2 DEF EntryIn, Content
  <2>4. Typed(eeprom)
    BY <1>1, <1>2, <1>3, <2>1, <2>2, <2>3 DEF Typed, IsEeprom
  <2>5. ListIn(eeprom) = [list |-> <<>>, whole |-> TRUE]
    BY <1>3, <2>1, Zenon DEF ListIn
  <2> QED BY <2>4, <2>5
<1>4. ASSUME NEW entries \in Tables, eeprom = Filled(entries)
      PROVE  Typed(eeprom) /\ ListIn(eeprom).whole = TRUE
  <2> DEFINE F == Filled(entries)
             used == 0..(Len(entries) - 1)
  <2>1. /\ entries \in Seq(Entry) /\ Len(entries) <= MaxEntries /\ Len(entries) \in Nat
    BY AquilaProtocolAssumption
  <2>2. F[Signature] = TRUE
    BY AreCells, CellIs DEF Filled
  <2>3. F[NEntries] = Len(entries)
    BY AreCells, CellIs DEF Filled
  <2>4. ASSUME NEW s \in Slots
        PROVE  EntryIn(F, s) \in Content
    <3> DEFINE c == Cond(s)
               a == Act(s)
    <3>1. /\ c \in Cells /\ c # Signature /\ c # NEntries
          /\ c[1] = "cond" /\ c[1] # "sector" /\ c[1] # "act" /\ c[2] = s
      BY AreCells, CellIs
    <3>2. /\ a \in Cells /\ a # Signature /\ a # NEntries
          /\ a[1] = "act" /\ a[1] # "sector" /\ a[1] # "cond" /\ a[2] = s
      BY AreCells, CellIs
    <3>3. s \in Nat
      BY SlotsAre
    <3> HIDE DEF c, a
    <3>4. s \in used => entries[s + 1] \in Entry
      BY <2>1, <3>3
    <3>5. F[c] = IF s \in used THEN entries[c[2] + 1].cond ELSE Blank
      <4>1. CASE s \in used
        <5>1. F[c] = entries[c[2] + 1].cond
          BY <3>1, <4>1, Zenon DEF Filled
        <5> QED BY <4>1, <5>1
      <4>2. CASE s \notin used
        <5>1. F[c] = Blank
          BY <3>1, <4>2, Zenon DEF Filled
        <5> QED BY <4>2, <5>1
      <4> QED BY <4>1, <4>2
    <3>6. F[a] = IF s \in used THEN entries[a[2] + 1].act ELSE Blank
      <4>1. CASE s \in used
        <5>1. F[a] = entries[a[2] + 1].act
          BY <3>2, <4>1, Zenon DEF Filled
        <5> QED BY <4>1, <5>1
      <4>2. CASE s \notin used
        <5>1. F[a] = Blank
          BY <3>2, <4>2, Zenon DEF Filled
        <5> QED BY <4>2, <5>1
      <4> QED BY <4>1, <4>2
    <3> HIDE DEF F, used
    <3>7. F[c] \in Conds \cup {Blank} /\ F[a] \in Acts \cup {Blank}
      BY <3>1, <3>2, <3>4, <3>5, <3>6 DEF Entry
    <3> QED BY <3>7 DEF EntryIn, Content, c, a
  <2>5. UsedIn(F) \in SUBSET used
    <3>1. \A s \in Slots : HasBit(F, s) => s < Len(entries)
      BY <2>1, FilledIs
    <3>2. \A s \in Slots : s \in Nat
      BY SlotsAre
    <3> HIDE DEF F
    <3> QED BY <2>1, <3>1, <3>2 DEF UsedIn
  <2>6. F[NEntries] >= Cardinality(UsedIn(F)) /\ F[NEntries] <= MaxEntries
    <3>1. IsFiniteSet(used) /\ Cardinality(used) = Len(entries)
      <4>1. 0 \in Int /\ Len(entries) - 1 \in Int
        BY <2>1
      <4>2. IsFiniteSet(used) /\ Cardinality(used) = IF 0 > Len(entries) - 1 THEN 0 ELSE Len(entries) - 1 - 0 + 1
        BY <4>1, FS_Interval
      <4> HIDE DEF used
      <4> QED BY <2>1, <4>2
    <3> HIDE DEF F, used
    <3>2. IsFiniteSet(UsedIn(F)) /\ Cardinality(UsedIn(F)) <= Cardinality(used)
      BY <2>5, <3>1, FS_Subset
    <3>3. Cardinality(UsedIn(F)) \in Nat
      BY <3>2, FS_CardinalityType
    <3> QED BY <2>1, <2>3, <3>1, <3>2, <3>3
  <2> HIDE DEF F
  <2>7. eeprom = F
    BY <1>4 DEF F
  <2>8. Typed(eeprom)
    BY <1>2, <2>2, <2>4, <2>7 DEF Typed, IsEeprom
  <2>9. WholeIn(eeprom)
    BY <2>6, <2>7 DEF WholeIn
  <2> QED BY <2>2, <2>7, <2>8, <2>9, ListFields
<1> QED BY <1>3, <1>4 DEF Init

LEMMA ListStarts ==
  ASSUME Init
  PROVE  ListInv /\ Promised!Init
<1>1. EventsInv /\ todo = <<>> /\ stack = <<>> /\ on = FALSE
  BY EventsInit DEF Init, StoreInit
<1>2. Typed(eeprom) /\ ListIn(eeprom).whole = TRUE /\ ~Written
  BY <1>1, StartsList DEF Written
<1>3. \A i \in 0..Len(todo) : Typed(After(eeprom, todo, i))
  <2>1. Len(<<>>) = 0 /\ 0..0 = {0}
    OBVIOUS
  <2>2. After(eeprom, <<>>, 0) = eeprom
    BY <1>2, AfterNone DEF Typed
  <2> QED BY <1>1, <1>2, <2>1, <2>2
<1>4. ListInv
  BY <1>1, <1>2, <1>3 DEF ListInv
<1>5. List = ListIn(eeprom) /\ ListIn(eeprom).list \in Seq(Content)
  BY <1>2, <1>4, TypedNow, ListFields
<1>6. Promised!Init
  BY <1>2, <1>5 DEF Content, Promised!Init
<1> QED BY <1>4, <1>6

\* The entries in the EEPROM of a node are a list that its operations change as
\* EntryList says, whatever a reset at any byte cuts short: an insertion or a
\* replacement is undone, done or half replaced, and only a removal or clear
\* may break the list (ProtocolDB: PDB_append, PDB_set, PDB_del, PDB_format).
THEOREM TableIsList == Spec => ImplementsList
<1>1. Init => ListInv /\ Promised!Init
  BY ListStarts
<1>2. ListInv /\ [Next]_vars => ListInv' /\ [Promised!Next]_(Promised!listVars)
  BY NextSeen
<1> QED BY <1>1, <1>2, PTL DEF Spec, ImplementsList, Promised!Spec

=============================================================================
