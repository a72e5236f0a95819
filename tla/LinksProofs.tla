----------------------------- MODULE LinksProofs -----------------------------
(***************************************************************************)
(* The routes of a node, and the hardware a board is linked by, for every  *)
(* size of the tables and the buffers, all scores and ranks, every chip    *)
(* and everything the bus and the interrupts do in between:                *)
(*   - the routing table is sound in a node that learns routes from what   *)
(*     it hears, as the configuration of the repository builds it (what    *)
(*     route discovery does in its timer handler is left to TLC);          *)
(*   - what a transfer over Wire moves arrives whole and in order, from    *)
(*     this node and from the other master;                                *)
(*   - what a sleep turns off is on again when it returns.                 *)
(***************************************************************************)
EXTENDS NwkRouteDiscovery, Wire, LowPower,
        SequenceTheorems, NaturalsInduction, WellFoundedInduction, TLAPS

Less == {p \in Nat \X Nat : p[1] < p[2]}

LEMMA MinIsOne ==
  ASSUME NEW T \in SUBSET Nat, T # {}
  PROVE  Min(T) \in T /\ \A x \in T : Min(T) <= x
<1>1. IsWellFoundedOn(Less, Nat)
  BY NatLessThanWellFounded, Zenon DEF OpToRel, Less
<1>2. PICK x \in T : \A y \in T : <<y, x>> \notin Less
  BY <1>1, WFMin, Zenon
<1>3. ASSUME NEW y \in T PROVE x =< y
  <2>1. x \in Nat /\ y \in Nat /\ <<y, x>> \notin Less
    BY <1>2
  <2>2. ~(y < x)
    BY <2>1 DEF Less
  <2> QED
    BY <2>1, <2>2
<1> QED
  BY <1>2, <1>3 DEF Min

-----------------------------------------------------------------------------
(* Tables *)

Places == 1..RouteTableSize

\* What an entry is: a free one has rank 0, or 1 after ranks were lowered, and
\* a route that is not fixed has a higher one and a score left.
GoodEntry(e) ==
  /\ e.rank \in Nat
  /\ e.fixed => e.dst # Unknown
  /\ ~e.fixed /\ e.dst = Unknown => e.rank \in {0, 1}
  /\ ~e.fixed /\ e.dst # Unknown => e.rank >= 2 /\ e.score \in 1..DefaultScore

EntryFields == {"dst", "nextHop", "multicast", "fixed", "score", "rank", "lqi"}

IsEntry(e) == e = [field \in EntryFields |-> e[field]]

GoodTable(t) ==
  /\ t = [i \in Places |-> t[i]]
  /\ \A i \in Places : IsEntry(t[i]) /\ GoodEntry(t[i])
  /\ \E i \in Places : ~t[i].fixed

LEMMA RouteConstants ==
  /\ RouteTableSize \in Nat \ {0} /\ DefaultScore \in 1..15 /\ DefaultRank \in Nat
  /\ DefaultRank >= 2
  BY NwkRouteAssumption

\* The entry a new route takes is not fixed, and is free if any is.
LEMMA NewEntryIsOpen ==
  ASSUME NEW t, GoodTable(t)
  PROVE  /\ NewEntry(t) \in Places /\ ~t[NewEntry(t)].fixed
         /\ t[NewEntry(t)].dst = Unknown \/ \A i \in Places : t[i].dst # Unknown
<1> DEFINE open == {i \in Places : ~t[i].fixed}
           free == {i \in open : t[i].rank = 0}
           lowest == {i \in open : \A j \in open : t[i].rank <= t[j].rank}
<1>0. DOMAIN t = Places /\ \A i \in Places : GoodEntry(t[i])
  BY DEF GoodTable
<1>1. NewEntry(t) = IF free # {} THEN Min(free) ELSE Min(lowest)
  BY <1>0, Zenon DEF NewEntry
<1>2. open # {} /\ \A i \in open : t[i].rank \in Nat
  BY <1>0 DEF GoodTable, GoodEntry
<1>3. lowest # {}
  <2> DEFINE ranks == {t[i].rank : i \in open}
  <2>1. ranks \in SUBSET Nat /\ ranks # {}
    BY <1>2
  <2>2. Min(ranks) \in ranks /\ \A x \in ranks : Min(ranks) <= x
    <3> HIDE DEF ranks
    <3> QED
      BY <2>1, MinIsOne
  <2>3. PICK i \in open : t[i].rank = Min(ranks)
    BY <2>2
  <2>4. \A j \in open : t[i].rank <= t[j].rank
    BY <2>2, <2>3
  <2> QED
    BY <2>4
<1>4. free \in SUBSET Nat /\ lowest \in SUBSET Nat /\ free \subseteq open /\ lowest \subseteq open
      /\ open \subseteq Places
  BY RouteConstants DEF Places
<1>5. CASE free # {}
  <2>1. Min(free) \in free
    BY <1>4, <1>5, MinIsOne
  <2>2. NewEntry(t) = Min(free)
    BY <1>1, <1>5
  <2> DEFINE i == NewEntry(t)
  <2>3. i \in free
    BY <2>1, <2>2
  <2> HIDE DEF i
  <2>4. i \in Places /\ ~t[i].fixed /\ t[i].rank = 0 /\ GoodEntry(t[i])
    BY <1>0, <2>3
  <2>5. t[i].dst = Unknown
    BY <2>4 DEF GoodEntry
  <2> QED
    BY <2>4, <2>5 DEF i
<1>6. CASE free = {}
  <2>1. Min(lowest) \in lowest
    BY <1>3, <1>4, MinIsOne
  <2>2. NewEntry(t) = Min(lowest)
    BY <1>1, <1>6
  <2> DEFINE i == NewEntry(t)
  <2>3. i \in lowest
    BY <2>1, <2>2
  <2> HIDE DEF i
  <2>4. i \in Places /\ ~t[i].fixed /\ \A j \in open : t[i].rank <= t[j].rank
    BY <2>3
  <2>5. ASSUME t[i].dst # Unknown, NEW j \in Places PROVE t[j].dst # Unknown
    <3>1. t[i].rank >= 2 /\ t[i].rank \in Nat
      BY <1>0, <2>4, <2>5 DEF GoodEntry
    <3>2. CASE t[j].fixed
      BY <1>0, <3>2 DEF GoodEntry
    <3>3. CASE ~t[j].fixed
      <4>1. t[j].rank \in Nat /\ t[i].rank <= t[j].rank
        BY <1>2, <2>4, <3>3
      <4>2. ~(t[j].rank \in {0, 1})
        BY <3>1, <4>1
      <4> QED
        BY <1>0, <3>3, <4>2, Zenon DEF GoodEntry
    <3> QED
      BY <3>2, <3>3
  <2> QED
    BY <2>4, <2>5 DEF i
<1> QED
  BY <1>5, <1>6

\* The entry of a destination is one of the table.
LEMMA FoundIsThere ==
  ASSUME NEW t, GoodTable(t), NEW dst, NEW multicast, NEW i \in FindEntry(t, dst, multicast)
  PROVE  i \in Places /\ t[i].dst = dst /\ FindEntry(t, dst, multicast) = {i}
<1> DEFINE at == {j \in Places : t[j].dst = dst /\ t[j].multicast = multicast}
<1>1. FindEntry(t, dst, multicast) = IF at = {} THEN {} ELSE {Min(at)}
  BY Zenon DEF FindEntry, GoodTable
<1>2. at \in SUBSET Nat
  BY RouteConstants DEF Places
<1>3. at # {} /\ i = Min(at)
  BY <1>1
<1>4. Min(at) \in at
  BY <1>2, <1>3, MinIsOne
<1> QED
  BY <1>1, <1>3, <1>4

\* Min of the one entry found.
LEMMA OnlyOne ==
  ASSUME NEW i \in Nat
  PROVE  Min({i}) = i
<1>1. {i} \in SUBSET Nat /\ {i} # {}
  OBVIOUS
<1>2. Min({i}) \in {i}
  BY <1>1, MinIsOne
<1> QED
  BY <1>2

\* Another good entry in one place keeps the table good.
LEMMA EntryReplaced ==
  ASSUME NEW t, GoodTable(t), NEW i \in Places, NEW e, IsEntry(e), GoodEntry(e),
         ~t[i].fixed => ~e.fixed, NEW u, u = [t EXCEPT ![i] = e]
  PROVE  GoodTable(u)
<1>1. u = [j \in Places |-> IF j = i THEN e ELSE t[j]]
  BY DEF GoodTable
<1>2. u = [j \in Places |-> u[j]] /\ u[i] = e /\ \A j \in Places : j # i => u[j] = t[j]
  BY <1>1
<1>3. \A j \in Places : IsEntry(u[j]) /\ GoodEntry(u[j])
  BY <1>2, Zenon DEF GoodTable
<1>4. \E j \in Places : ~u[j].fixed
  <2>1. PICK j \in Places : ~t[j].fixed
    BY DEF GoodTable
  <2>2. ~u[j].fixed
    BY <1>2, <2>1
  <2> QED
    BY <2>2
<1> QED
  BY <1>2, <1>3, <1>4 DEF GoodTable

-----------------------------------------------------------------------------
(* What the operations of nwkRoute.c make of a table *)

\* Giving some fields of an entry other values.
LEMMA EntryChanged ==
  ASSUME NEW e, IsEntry(e), NEW field \in EntryFields, NEW x, NEW f, f = [e EXCEPT ![field] = x]
  PROVE  IsEntry(f) /\ f[field] = x /\ \A other \in EntryFields : other # field => f[other] = e[other]
<1>1. f = [g \in EntryFields |-> IF g = field THEN x ELSE e[g]]
  BY DEF IsEntry
<1> QED
  BY <1>1 DEF IsEntry

LEMMA Freed ==
  ASSUME NEW e, IsEntry(e), ~e.fixed \/ GoodEntry(e)
  PROVE  IsEntry(FreeEntry(e)) /\ GoodEntry(FreeEntry(e)) /\ FreeEntry(e).fixed = e.fixed
<1>1. CASE e.fixed
  BY <1>1 DEF FreeEntry
<1>2. CASE ~e.fixed
  <2> DEFINE f == [e EXCEPT !.dst = Unknown]
             g == [f EXCEPT !.rank = 0]
  <2>1. FreeEntry(e) = g
    BY <1>2 DEF FreeEntry
  <2>2. IsEntry(f) /\ f["dst"] = Unknown /\ f["fixed"] = e["fixed"]
    BY EntryChanged DEF EntryFields
  <2> HIDE DEF f
  <2>3. IsEntry(g) /\ g["rank"] = 0 /\ g["dst"] = Unknown /\ g["fixed"] = e["fixed"]
    BY <2>2, EntryChanged DEF EntryFields
  <2> HIDE DEF g
  <2>4. GoodEntry(g)
    BY <1>2, <2>3 DEF GoodEntry
  <2> QED
    BY <2>1, <2>3, <2>4
<1> QED
  BY <1>1, <1>2

\* A frame that was heard: a new route in the place of an open entry, or the
\* known one by another way.
LEMMA ReceivedKeeps ==
  ASSUME NEW t, GoodTable(t), NEW src, src # Unknown, NEW via, NEW lqi, NEW with
  PROVE  GoodTable(FrameReceived(t, src, via, lqi, with))
<1> DEFINE known == FindEntry(t, src, FALSE)
           i == IF known = {} THEN NewEntry(t) ELSE Min(known)
           better == t[i].nextHop # via /\ lqi > t[i].lqi
           fresh == [Renewed(t[i]) EXCEPT !.dst = src, !.nextHop = via, !.lqi = lqi]
           changed == [t[i] EXCEPT !.nextHop = via, !.score = DefaultScore, !.lqi = lqi]
           same == [t[i] EXCEPT !.lqi = lqi]
           e == IF known = {} THEN fresh ELSE IF better \/ with THEN changed ELSE same
<1>1. FrameReceived(t, src, via, lqi, with) = [t EXCEPT ![i] = e]
  BY DEF FrameReceived
<1>2. /\ i \in Places /\ IsEntry(t[i]) /\ GoodEntry(t[i])
      /\ known = {} => ~t[i].fixed
      /\ known # {} => t[i].dst = src
  <2>1. CASE known = {}
    <3>1. i = NewEntry(t)
      BY <2>1
    <3>2. i \in Places /\ ~t[i].fixed
      BY <3>1, NewEntryIsOpen
    <3> HIDE DEF i, known
    <3> QED
      BY <2>1, <3>2 DEF GoodTable
  <2>2. CASE known # {}
    <3>1. PICK k \in known : TRUE
      BY <2>2
    <3>2. k \in Places /\ t[k].dst = src /\ known = {k}
      BY <3>1, FoundIsThere
    <3>3. k \in Nat
      BY <3>2, RouteConstants DEF Places
    <3>4. i = k
      BY <2>2, <3>2, <3>3, OnlyOne
    <3> HIDE DEF i, known
    <3> QED
      BY <2>2, <3>2, <3>4 DEF GoodTable
  <2> QED
    BY <2>1, <2>2
<1> HIDE DEF i, known
<1> DEFINE old == t[i]
<1>3. /\ IsEntry(old) /\ GoodEntry(old) /\ (known = {} => ~old["fixed"])
      /\ (known # {} => old["dst"] = src)
  BY <1>2
<1>4. /\ fresh = [[[[[[old EXCEPT !["multicast"] = FALSE] EXCEPT !["score"] = DefaultScore]
                   EXCEPT !["rank"] = DefaultRank] EXCEPT !["dst"] = src]
                   EXCEPT !["nextHop"] = via] EXCEPT !["lqi"] = lqi]
      /\ changed = [[[old EXCEPT !["nextHop"] = via] EXCEPT !["score"] = DefaultScore]
                   EXCEPT !["lqi"] = lqi]
      /\ same = [old EXCEPT !["lqi"] = lqi]
  BY Zenon DEF Renewed
<1> HIDE DEF old
<1>5. /\ IsEntry(fresh) /\ fresh["dst"] = src /\ fresh["fixed"] = old["fixed"]
      /\ fresh["rank"] = DefaultRank /\ fresh["score"] = DefaultScore
  BY <1>3, <1>4 DEF IsEntry, EntryFields
<1>6. /\ IsEntry(changed) /\ changed["dst"] = old["dst"] /\ changed["fixed"] = old["fixed"]
      /\ changed["rank"] = old["rank"] /\ changed["score"] = DefaultScore
  BY <1>3, <1>4 DEF IsEntry, EntryFields
<1>7. /\ IsEntry(same) /\ same["dst"] = old["dst"] /\ same["fixed"] = old["fixed"]
      /\ same["rank"] = old["rank"] /\ same["score"] = old["score"]
  BY <1>3, <1>4 DEF IsEntry, EntryFields
<1> HIDE DEF fresh, changed, same, better
<1>8. IsEntry(e) /\ GoodEntry(e) /\ e["fixed"] = old["fixed"]
  <2>1. CASE known = {}
    BY <1>3, <1>5, <2>1, RouteConstants DEF GoodEntry
  <2>2. CASE known # {}
    <3>1. GoodEntry(changed)
      BY <1>3, <1>6, <2>2, RouteConstants DEF GoodEntry
    <3>2. GoodEntry(same)
      BY <1>3, <1>7, <2>2 DEF GoodEntry
    <3> QED
      BY <1>6, <1>7, <2>2, <3>1, <3>2
  <2> QED
    BY <2>1, <2>2
<1> HIDE DEF e
<1>9. ~t[i].fixed => ~e.fixed
  BY <1>8 DEF old
<1> QED
  BY <1>1, <1>2, <1>8, <1>9, EntryReplaced

\* Lower ranks keep free entries below the others.
LEMMA HalfRank ==
  ASSUME NEW r \in Nat
  PROVE  /\ (r \div 2) + 1 \in Nat
         /\ r \in {0, 1} => (r \div 2) + 1 \in {0, 1}
         /\ r >= 2 => (r \div 2) + 1 >= 2
  OBVIOUS

LEMMA NormalizeKeeps ==
  ASSUME NEW t, GoodTable(t)
  PROVE  GoodTable(NormalizeRanks(t))
<1> DEFINE lower(i) == [t[i] EXCEPT !.rank = (t[i].rank \div 2) + 1]
           u == NormalizeRanks(t)
<1>1. u = [i \in Places |-> lower(i)]
  BY Zenon DEF NormalizeRanks, GoodTable
<1>2. ASSUME NEW i \in Places PROVE IsEntry(lower(i)) /\ GoodEntry(lower(i)) /\ lower(i).fixed = t[i].fixed
  <2> DEFINE old == t[i]
             r == (old["rank"] \div 2) + 1
             e == [old EXCEPT !["rank"] = r]
  <2>1. IsEntry(old) /\ GoodEntry(old)
    BY DEF GoodTable
  <2> HIDE DEF old
  <2>2. /\ r \in Nat /\ (old["rank"] \in {0, 1} => r \in {0, 1})
        /\ (old["rank"] >= 2 => r >= 2)
    BY <2>1, HalfRank DEF GoodEntry
  <2> HIDE DEF r
  <2>3. /\ IsEntry(e) /\ e["dst"] = old["dst"] /\ e["fixed"] = old["fixed"]
        /\ e["rank"] = r /\ e["score"] = old["score"]
    BY <2>1 DEF IsEntry, EntryFields
  <2> HIDE DEF e
  <2>4. GoodEntry(e)
    BY <2>1, <2>2, <2>3 DEF GoodEntry
  <2> QED
    BY <2>3, <2>4 DEF old, r, e
<1> HIDE DEF u, lower
<1>3. u = [i \in Places |-> u[i]] /\ \A i \in Places : u[i] = lower(i)
  BY <1>1
<1>4. \A i \in Places : IsEntry(u[i]) /\ GoodEntry(u[i]) /\ u[i].fixed = t[i].fixed
  BY <1>2, <1>3
<1>5. \E i \in Places : ~u[i].fixed
  <2>1. PICK i \in Places : ~t[i].fixed
    BY DEF GoodTable
  <2> QED
    BY <1>4, <2>1
<1>6. GoodTable(u)
  BY <1>3, <1>4, <1>5, Zenon DEF GoodTable
<1> QED
  BY <1>6 DEF u

LEMMA ScoreDown ==
  ASSUME NEW score \in 1..DefaultScore
  PROVE  ((score + 15) % 16) = score - 1
<1>1. score \in 1..15
  BY RouteConstants
<1> QED
  BY <1>1

\* The end of a transmission: the route gains a rank, or loses of its score.
LEMMA SentKeeps ==
  ASSUME NEW t, GoodTable(t), NEW dst, dst # Unknown, NEW multicast, NEW success \in BOOLEAN
  PROVE  GoodTable(FrameSent(t, dst, multicast, success))
<1> DEFINE known == FindEntry(t, dst, multicast)
           i == Min(known)
           up == [[t[i] EXCEPT !.score = DefaultScore] EXCEPT !.rank = @ + 1]
           down == [t[i] EXCEPT !.score = (@ + 15) % 16]
           ranked == [t EXCEPT ![i] = up]
           scored == [t EXCEPT ![i] = down]
<1>1. CASE known = {} \/ t[i].fixed
  <2>1. FrameSent(t, dst, multicast, success) = t
    BY <1>1 DEF FrameSent
  <2> QED
    BY <2>1
<1>2. CASE ~(known = {} \/ t[i].fixed)
  <2>1. i \in Places /\ t[i].dst = dst
    <3>1. PICK k \in known : TRUE
      BY <1>2
    <3>2. k \in Places /\ t[k].dst = dst /\ known = {k}
      BY <3>1, FoundIsThere
    <3>3. k \in Nat
      BY <3>2, RouteConstants DEF Places
    <3>4. i = k
      BY <3>2, <3>3, OnlyOne
    <3> HIDE DEF i, known
    <3> QED
      BY <3>2, <3>4
  <2>2. FrameSent(t, dst, multicast, success)
          = IF success
              THEN IF ranked[i].rank = MaxRank THEN NormalizeRanks(ranked) ELSE ranked
            ELSE IF scored[i].score = 0 THEN [scored EXCEPT ![i] = FreeEntry(scored[i])] ELSE scored
    <3>1. /\ [t EXCEPT ![i].score = DefaultScore, ![i].rank = @ + 1] = ranked
          /\ [t EXCEPT ![i].score = (@ + 15) % 16] = scored
      OBVIOUS
    <3>2. FrameSent(t, dst, multicast, success)
            = IF success
                THEN IF [t EXCEPT ![i].score = DefaultScore, ![i].rank = @ + 1][i].rank = MaxRank
                       THEN NormalizeRanks([t EXCEPT ![i].score = DefaultScore, ![i].rank = @ + 1])
                       ELSE [t EXCEPT ![i].score = DefaultScore, ![i].rank = @ + 1]
              ELSE IF [t EXCEPT ![i].score = (@ + 15) % 16][i].score = 0
                THEN [[t EXCEPT ![i].score = (@ + 15) % 16] EXCEPT ![i] = FreeEntry(@)]
              ELSE [t EXCEPT ![i].score = (@ + 15) % 16]
      BY <1>2, Zenon DEF FrameSent
    <3> QED
      BY <3>1, <3>2
  <2>3. ranked[i] = up /\ scored[i] = down /\ [scored EXCEPT ![i] = FreeEntry(down)]
                                               = [t EXCEPT ![i] = FreeEntry(down)]
    <3> HIDE DEF up, down, i
    <3>1. t = [j \in Places |-> t[j]]
      BY DEF GoodTable
    <3> QED
      BY <2>1, <3>1
  <2> DEFINE old == t[i]
  <2>4. IsEntry(old) /\ GoodEntry(old) /\ ~old["fixed"] /\ old["dst"] = dst
    BY <1>2, <2>1 DEF GoodTable
  <2> HIDE DEF i, known
  <2>5. up = [[old EXCEPT !["score"] = DefaultScore] EXCEPT !["rank"] = old["rank"] + 1]
        /\ down = [old EXCEPT !["score"] = (old["score"] + 15) % 16]
    <3>1. IsEntry(t[i])
      BY <2>4
    <3> QED
      BY <3>1 DEF IsEntry, EntryFields
  <2> HIDE DEF old, up, down, ranked, scored
  <2>6. /\ IsEntry(up) /\ up["dst"] = dst /\ ~up["fixed"]
        /\ up["rank"] = old["rank"] + 1 /\ up["score"] = DefaultScore
    BY <2>4, <2>5 DEF IsEntry, EntryFields
  <2>7. /\ IsEntry(down) /\ down["dst"] = dst /\ ~down["fixed"]
        /\ down["rank"] = old["rank"] /\ down["score"] = (old["score"] + 15) % 16
    BY <2>4, <2>5 DEF IsEntry, EntryFields
  <2>8. old["rank"] \in Nat /\ old["rank"] >= 2 /\ old["score"] \in 1..DefaultScore
    BY <2>4 DEF GoodEntry
  <2>9. down["score"] = old["score"] - 1
    BY <2>7, <2>8, ScoreDown
  <2>10. GoodEntry(up)
    BY <2>6, <2>8, RouteConstants DEF GoodEntry
  <2>11. down["score"] # 0 => GoodEntry(down)
    BY <2>7, <2>8, <2>9, RouteConstants DEF GoodEntry
  <2>12. IsEntry(FreeEntry(down)) /\ GoodEntry(FreeEntry(down)) /\ ~FreeEntry(down).fixed
    BY <2>7, Freed
  <2>13. ~t[i].fixed
    BY <2>4 DEF old
  <2>14. GoodTable(ranked)
    BY <2>1, <2>6, <2>10, EntryReplaced DEF ranked
  <2>15. GoodTable(NormalizeRanks(ranked))
    BY <2>14, NormalizeKeeps
  <2>16. down["score"] # 0 => GoodTable(scored)
    BY <2>1, <2>7, <2>11, EntryReplaced DEF scored
  <2>17. GoodTable([t EXCEPT ![i] = FreeEntry(down)])
    <3> DEFINE e == FreeEntry(down)
               u == [t EXCEPT ![i] = e]
    <3> HIDE DEF e
    <3>1. IsEntry(e) /\ GoodEntry(e) /\ ~e.fixed
      BY <2>12 DEF e
    <3>2. GoodTable(u)
      BY <2>1, <3>1, EntryReplaced
    <3> QED
      BY <3>2 DEF e
  <2> QED
    BY <2>2, <2>3, <2>14, <2>15, <2>16, <2>17
<1> QED
  BY <1>1, <1>2

\* A route that led to an error.
LEMMA RemoveKeeps ==
  ASSUME NEW t, GoodTable(t), NEW dst, NEW multicast
  PROVE  GoodTable(RouteRemove(t, dst, multicast))
<1> DEFINE u == RouteRemove(t, dst, multicast)
           e(i) == IF i \in FindEntry(t, dst, multicast) THEN FreeEntry(t[i]) ELSE t[i]
<1>1. u = [i \in Places |-> e(i)]
  BY Zenon DEF RouteRemove, GoodTable
<1>2. ASSUME NEW i \in Places PROVE IsEntry(e(i)) /\ GoodEntry(e(i)) /\ e(i).fixed = t[i].fixed
  <2>1. IsEntry(t[i]) /\ GoodEntry(t[i])
    BY DEF GoodTable
  <2> QED
    BY <2>1, Freed
<1> HIDE DEF u, e
<1>3. u = [i \in Places |-> u[i]] /\ \A i \in Places : u[i] = e(i)
  BY <1>1
<1>4. \A i \in Places : IsEntry(u[i]) /\ GoodEntry(u[i]) /\ u[i].fixed = t[i].fixed
  BY <1>2, <1>3
<1>5. \E i \in Places : ~u[i].fixed
  <2>1. PICK i \in Places : ~t[i].fixed
    BY DEF GoodTable
  <2> QED
    BY <1>4, <2>1
<1>6. GoodTable(u)
  BY <1>3, <1>4, <1>5, Zenon DEF GoodTable
<1> QED
  BY <1>6 DEF u

-----------------------------------------------------------------------------
(* A node that learns *)

\* The build without route discovery; the sketch has not made every entry a
\* fixed one, for which nwkRoute.c has no answer.
LearnsRoutes == setup.build = "learning" /\ (setup.fixed => RouteTableSize > 1)

\* Nothing is discovered, and every node's table is good.
RouteInv ==
  /\ LearnsRoutes
  /\ air = {} /\ \A n \in Nodes : ~timer[n]
  /\ route = [n \in Nodes |-> route[n]] /\ \A n \in Nodes : GoodTable(route[n])

FreeAtFirst ==
  [dst |-> Unknown, nextHop |-> Unknown, multicast |-> FALSE, fixed |-> FALSE,
   score |-> 0, rank |-> 0, lqi |-> 0]

LEMMA FreeIsGood == IsEntry(FreeAtFirst) /\ GoodEntry(FreeAtFirst) /\ ~FreeAtFirst.fixed
BY DEF FreeAtFirst, IsEntry, EntryFields, GoodEntry

LEMMA RouteInitially == Init /\ LearnsRoutes => RouteInv
<1> SUFFICES ASSUME Init, LearnsRoutes PROVE RouteInv
  OBVIOUS
<1>0. /\ Source \in Nodes /\ Absent # Unknown /\ RouteTableSize \in Nat \ {0}
  BY NwkRouteDiscoveryAssumption, RouteConstants
<1> DEFINE given == [nwkRouteInit EXCEPT ![1].fixed = TRUE, ![1].dst = Absent, ![1].nextHop = Absent]
           first == [FreeAtFirst EXCEPT !.fixed = TRUE, !.dst = Absent, !.nextHop = Absent]
<1>1. nwkRouteInit = [i \in Places |-> FreeAtFirst]
  BY DEF nwkRouteInit, FreeAtFirst, Places
<1>2. GoodTable(nwkRouteInit)
  <2>1. 1 \in Places
    BY <1>0 DEF Places
  <2> QED
    BY <1>1, <2>1, FreeIsGood DEF GoodTable
<1>3. ASSUME RouteTableSize > 1 PROVE GoodTable(given)
  <2>1. 1 \in Places /\ 2 \in Places
    BY <1>0, <1>3 DEF Places
  <2>2. given = [i \in Places |-> IF i = 1 THEN first ELSE FreeAtFirst]
    BY <1>1, <2>1
  <2>3. IsEntry(first) /\ first["fixed"] = TRUE /\ first["dst"] = Absent /\ first["rank"] = 0
    BY DEF FreeAtFirst, IsEntry, EntryFields
  <2> HIDE DEF given, first
  <2>4. GoodEntry(first)
    BY <1>0, <2>3 DEF GoodEntry
  <2>5. /\ given = [i \in Places |-> given[i]] /\ given[2] = FreeAtFirst
        /\ \A i \in Places : given[i] = first \/ given[i] = FreeAtFirst
    BY <2>1, <2>2
  <2>6. \A i \in Places : IsEntry(given[i]) /\ GoodEntry(given[i])
    BY <2>3, <2>4, <2>5, FreeIsGood, Zenon
  <2>7. ~given[2].fixed
    BY <2>5, FreeIsGood
  <2> QED
    BY <2>1, <2>5, <2>6, <2>7 DEF GoodTable
<1> HIDE DEF given
<1>4. /\ route = [n \in Nodes |-> IF n = Source /\ setup.fixed THEN given ELSE nwkRouteInit]
      /\ air = {} /\ timer = [n \in Nodes |-> FALSE]
  BY DEF Init, given
<1>5. \A n \in Nodes : GoodTable(route[n])
  BY <1>2, <1>3, <1>4 DEF LearnsRoutes
<1>6. route = [n \in Nodes |-> route[n]] /\ \A n \in Nodes : ~timer[n]
  BY <1>4
<1> QED
  BY <1>4, <1>5, <1>6 DEF RouteInv

\* One table changes.
LEMMA TableChanges ==
  ASSUME RouteInv, NEW n \in Nodes, NEW t, GoodTable(t),
         route' = [route EXCEPT ![n] = t], UNCHANGED <<setup, air, timer>>
  PROVE  RouteInv'
<1>1. route' = [m \in Nodes |-> IF m = n THEN t ELSE route[m]]
  BY DEF RouteInv
<1>2. route' = [m \in Nodes |-> route'[m]] /\ \A m \in Nodes : GoodTable(route'[m])
  BY <1>1 DEF RouteInv
<1> QED
  BY <1>2 DEF RouteInv, LearnsRoutes

LEMMA RouteInvKept == RouteInv /\ [Next]_vars => RouteInv'
<1> SUFFICES ASSUME RouteInv, [Next]_vars PROVE RouteInv'
  OBVIOUS
<1>0. /\ setup.build = "learning" /\ air = {} /\ Source \in Nodes /\ GoodTable(route[Source])
      /\ Unknown \notin Nodes /\ Group # Unknown
  BY NwkRouteDiscoveryAssumption DEF RouteInv, LearnsRoutes
<1>1. ASSUME UNCHANGED <<setup, air, timer, route>> PROVE RouteInv'
  BY <1>1 DEF RouteInv, LearnsRoutes
<1>2. CASE Send
  BY <1>0, <1>2 DEF Send
<1>3. CASE HearSome
  BY <1>0, <1>3 DEF HearSome
<1>4. ASSUME NEW n \in Nodes, TimerHandler(n) PROVE RouteInv'
  BY <1>4 DEF TimerHandler, RouteInv
<1>5. ASSUME NEW src \in Nodes, NEW via \in Nodes, Overhear(Source, src, via) PROVE RouteInv'
  <2>1. PICK toUs \in BOOLEAN :
          route' = [route EXCEPT ![Source] = FrameReceived(route[Source], src, via, setup.links[via][Source], toUs)]
    BY <1>5 DEF Overhear
  <2> DEFINE t == FrameReceived(route[Source], src, via, setup.links[via][Source], toUs)
  <2>2. src # Unknown
    BY <1>0
  <2>3. GoodTable(t)
    BY <1>0, <2>2, ReceivedKeeps
  <2>4. UNCHANGED <<setup, air, timer>>
    BY <1>5 DEF Overhear
  <2> HIDE DEF t
  <2>5. route' = [route EXCEPT ![Source] = t]
    BY <2>1 DEF t
  <2> QED
    BY <1>0, <2>3, <2>4, <2>5, TableChanges
<1>6. ASSUME NEW dst \in (Nodes \ {Source}) \cup {Group}, NEW success \in BOOLEAN, Sent(Source, dst, success)
      PROVE  RouteInv'
  <2> DEFINE t == FrameSent(route[Source], dst, Multicast(dst), success)
  <2>1. dst # Unknown
    BY <1>0
  <2>2. GoodTable(t)
    BY <1>0, <2>1, SentKeeps
  <2>3. UNCHANGED <<setup, air, timer>> /\ route' = [route EXCEPT ![Source] = t]
    BY <1>6 DEF Sent
  <2> HIDE DEF t
  <2> QED
    BY <1>0, <2>2, <2>3, TableChanges
<1>7. ASSUME NEW dst \in (Nodes \ {Source}) \cup {Group}, RouteError(Source, dst) PROVE RouteInv'
  <2> DEFINE t == RouteRemove(route[Source], dst, Multicast(dst))
  <2>1. GoodTable(t)
    BY <1>0, RemoveKeeps
  <2>2. UNCHANGED <<setup, air, timer>> /\ route' = [route EXCEPT ![Source] = t]
    BY <1>7 DEF RouteError
  <2> HIDE DEF t
  <2> QED
    BY <1>0, <2>1, <2>2, TableChanges
<1>8. ASSUME NEW n \in Members, Join(n) \/ Leave(n) PROVE RouteInv'
  BY <1>0, <1>8 DEF Join, Leave
<1>9. CASE UNCHANGED vars
  BY <1>1, <1>9 DEF vars, tables
<1> QED
  BY <1>2, <1>3, <1>4, <1>5, <1>6, <1>7, <1>8, <1>9, Zenon DEF Next

\* A new route takes a free entry while there is one, although lowering the
\* ranks gives free entries a rank as well, and a route is given up when its
\* score is used up and never has less than one or more than DefaultScore.
THEOREM LearnedTableIsSound == Spec /\ LearnsRoutes => []TableIsSound
<1>1. RouteInv => TableIsSound
  <2>1. SUFFICES ASSUME RouteInv PROVE TableIsSound
    OBVIOUS
  <2>2. ASSUME NEW n \in Nodes
        PROVE  /\ \/ route[n][NewEntry(route[n])].dst = Unknown
                  \/ \A i \in DOMAIN route[n] : route[n][i].dst # Unknown
               /\ \A i \in DOMAIN route[n] :
                    route[n][i].dst # Unknown /\ ~route[n][i].fixed => route[n][i].score \in 1..DefaultScore
    <3> DEFINE t == route[n]
    <3>1. GoodTable(t)
      BY <2>1 DEF RouteInv
    <3> HIDE DEF t
    <3>2. DOMAIN t = Places /\ \A i \in Places : GoodEntry(t[i])
      BY <3>1 DEF GoodTable
    <3>3. t[NewEntry(t)].dst = Unknown \/ \A i \in Places : t[i].dst # Unknown
      BY <3>1, NewEntryIsOpen
    <3>4. \A i \in Places : t[i].dst # Unknown /\ ~t[i].fixed => t[i].score \in 1..DefaultScore
      BY <3>2 DEF GoodEntry
    <3> QED
      BY <3>2, <3>3, <3>4 DEF t
  <2> QED
    BY <2>2, Zenon DEF TableIsSound, FreeFirst, ScoresCount
<1> QED
  BY <1>1, RouteInitially, RouteInvKept, PTL DEF Spec

-----------------------------------------------------------------------------
(* Wire: what the variables are *)

TwiFields == {"state", "sendStop", "inRepStart", "error", "index", "length", "buffer", "slarw",
              "rx", "tx", "txIndex", "txLength", "handling"}
WireFields == {"rx", "rxIndex", "rxLength", "tx", "txLength", "transmitting"}
BusFields == {"status", "phase", "sta", "ea", "ie", "data"}
SketchFields == {"pc", "role", "registered", "calls", "maxCalls", "maxForeign", "maxErrors",
                 "kind", "length", "stop", "wrote", "result", "since"}
PeerFields == {"got", "gave", "sent", "heard", "asked", "replied", "unseen", "foreign", "errors"}

\* A buffer of TWI_BUFFER_LENGTH bytes.
Whole(buffer) == buffer = [k \in 1..BufferLength |-> buffer[k]]

Shapes ==
  /\ twi = [f \in TwiFields |-> twi[f]]
  /\ wire = [f \in WireFields |-> wire[f]]
  /\ bus = [f \in BusFields |-> bus[f]]
  /\ sketch = [f \in SketchFields |-> sketch[f]]
  /\ peer = [f \in PeerFields |-> peer[f]]
Buffers == Whole(twi.buffer) /\ Whole(wire.tx)


-----------------------------------------------------------------------------
(* The codes of the bus *)

In(p, codes) == bus.phase = p /\ bus.status \in codes

\* A code belongs to a phase of the bus; the bus is held, and the interrupt
\* off, just while twi_inRepStart.
Control ==
  /\ \/ In("free", {"none", "SR_DATA_NACK", "SR_STOP", "ST_LAST_DATA", "ST_DATA_NACK", "BUS_ERROR"})
     \/ In("started", {"none", "START", "ARB_LOST"})
     \/ In("sending", {"none", "MT_SLA_ACK", "MT_SLA_NACK", "MT_DATA_ACK", "MT_DATA_NACK"})
     \/ In("receiving", {"none", "MR_SLA_ACK", "MR_SLA_NACK", "MR_DATA_ACK", "MR_DATA_NACK"})
     \/ In("addressed", {"none", "SR_SLA_ACK", "SR_ARB_LOST_SLA_ACK", "SR_DATA_ACK"})
     \/ In("asked", {"none", "ST_SLA_ACK", "ST_ARB_LOST_SLA_ACK", "ST_DATA_ACK"})
     \/ In("held", {"REP_START"})
  /\ bus.phase = "held" => ~bus.ie /\ twi.inRepStart
  /\ bus.phase # "held" => bus.ie /\ ~twi.inRepStart

\* Between the STOP and the end of the handler nothing but an address comes in.
Stopped ==
  twi.handling =>
    /\ ~bus.sta
    /\ In("free", {"none"}) \/ In("addressed", {"SR_SLA_ACK"}) \/ In("asked", {"ST_SLA_ACK"})

\* What the handler, the sketch and the bus do to them.
Answers ==
  /\ bus.ie /\ bus'.ie /\ bus'.status = "none" /\ bus'.phase \in {bus.phase, "free"}
  /\ twi'.inRepStart <=> twi.inRepStart
Holds ==
  bus.ie /\ ~bus'.ie /\ bus'.status = "REP_START" /\ bus'.phase = "held" /\ twi'.inRepStart
Begins ==
  /\ bus.ie => bus.status = "none"
  /\ bus'.ie /\ bus'.status = "none" /\ ~twi'.inRepStart
  /\ bus'.phase = IF twi.inRepStart THEN "started" ELSE bus.phase
Raises(codes, phases) ==
  /\ bus.status = "none" /\ (bus'.ie <=> bus.ie) /\ (twi'.inRepStart <=> twi.inRepStart)
  /\ bus'.status \in codes /\ bus'.phase \in phases
Keeps == bus' = bus /\ (twi'.inRepStart <=> twi.inRepStart)

LEMMA HandlerAnswers == Shapes /\ Control /\ Stopped /\ TWI_vect => Answers \/ Holds
<1> SUFFICES ASSUME Shapes, Control, Stopped, TWI_vect PROVE Answers \/ Holds
  OBVIOUS
<1>0. CASE SlaveStopDone
  <2>1. bus.ie /\ twi'.inRepStart = twi.inRepStart
    BY <1>0 DEF Shapes, TwiFields, SlaveStopDone, Control, Stopped, In
  <2>2. bus'.ie /\ bus'.status = "none" /\ bus'.phase = bus.phase
    BY <1>0 DEF Shapes, BusFields, SlaveStopDone, twi_releaseBus, Reply
  <2> QED
    BY <2>1, <2>2 DEF Answers
<1> USE DEF Shapes, TwiFields, BusFields, Answers, Holds, Interrupted, Reply, ReplyWith, twi_releaseBus, twi_stop, HoldBus, EndOfTransfer, Received
<1>1. CASE StartSent
  BY <1>1 DEF StartSent
<1>2. CASE MasterSend
  BY <1>2 DEF MasterSend
<1>3. CASE MasterRefused
  BY <1>3 DEF MasterRefused
<1>4. CASE ArbitrationLost
  BY <1>4 DEF ArbitrationLost
<1>5. CASE MasterReceive
  BY <1>5 DEF MasterReceive
<1>6. CASE MasterReceiveLast
  BY <1>6 DEF MasterReceiveLast
<1>7. CASE MasterReceiveRefused
  BY <1>7 DEF MasterReceiveRefused
<1>8. CASE SlaveAddressed
  BY <1>8 DEF SlaveAddressed
<1>9. CASE SlaveReceive
  BY <1>9 DEF SlaveReceive
<1>10. CASE SlaveRefuses
  BY <1>10 DEF SlaveRefuses
<1>11. CASE SlaveStop
  BY <1>11 DEF SlaveStop
<1>12. CASE SlaveAsked
  BY <1>12 DEF SlaveAsked
<1>13. CASE SlaveSend
  BY <1>13 DEF SlaveSend
<1>14. CASE SlaveSent
  BY <1>14 DEF SlaveSent
<1>15. CASE BusErrorSeen
  BY <1>15 DEF BusErrorSeen
<1> QED
  BY <1>0, <1>1, <1>2, <1>3, <1>4, <1>5, <1>6, <1>7, <1>8, <1>9, <1>10, <1>11, <1>12, <1>13, <1>14, <1>15, Zenon DEF TWI_vect

SketchCalls == beginTransmission \/ write \/ endTransmission \/ requestFrom \/ read \/ SketchGoesOn
LEMMA SketchKeeps == Shapes /\ SketchCalls => Keeps \/ Begins
<1> SUFFICES ASSUME Shapes, SketchCalls PROVE Keeps \/ Begins
  OBVIOUS
<1> USE DEF Shapes, TwiFields, BusFields, Keeps, Begins
<1>1. CASE beginTransmission \/ write \/ endTransmission \/ requestFrom \/ read
  BY <1>1 DEF beginTransmission, write, endTransmission, requestFrom, read
<1>2. CASE SeesReady \/ WriteSetsUp \/ ReadSetsUp
  BY <1>2 DEF SeesReady, WriteSetsUp, ReadSetsUp
<1>3. CASE Starts
  BY <1>3 DEF Starts, Runs
<1>4. CASE WriteEnds \/ ReadCopies \/ ReadEnds
  BY <1>4 DEF WriteEnds, ReadCopies, ReadEnds
<1> QED
  BY <1>1, <1>2, <1>3, <1>4, Zenon DEF SketchCalls, SketchGoesOn

Bus == BusGoesOn \/ ForeignStart \/ ForeignWins \/ ForeignByte \/ BusError
InOrder ==
  \/ Raises({"START", "ARB_LOST"}, {"started"})
  \/ Raises({"MT_SLA_ACK", "MT_SLA_NACK", "MT_DATA_ACK", "MT_DATA_NACK"}, {"sending"})
  \/ Raises({"MR_SLA_ACK", "MR_SLA_NACK", "MR_DATA_ACK", "MR_DATA_NACK"}, {"receiving"})
  \/ Raises({"SR_SLA_ACK", "SR_ARB_LOST_SLA_ACK", "SR_DATA_ACK"}, {"addressed"})
  \/ Raises({"ST_SLA_ACK", "ST_ARB_LOST_SLA_ACK", "ST_DATA_ACK"}, {"asked"})
  \/ Raises({"SR_DATA_NACK", "SR_STOP", "ST_LAST_DATA", "ST_DATA_NACK", "BUS_ERROR"}, {"free"})

LEMMA BusInOrder == Shapes /\ Bus => InOrder /\ bus.phase # "held"
<1> SUFFICES ASSUME Shapes, Bus PROVE InOrder /\ bus.phase # "held"
  OBVIOUS
<1> USE DEF Shapes, BusFields, InOrder, Raises, BusMoves, Signals, SignalsByte
<1>1. CASE OurStart
  BY <1>1 DEF OurStart
<1>2. CASE OurAddress
  BY <1>2 DEF OurAddress
<1>3. CASE OurByte
  BY <1>3 DEF OurByte
<1>4. CASE DeviceByte
  BY <1>4 DEF DeviceByte
<1>5. CASE ForeignStop
  BY <1>5 DEF ForeignStop
<1>6. CASE ForeignTakes
  BY <1>6 DEF ForeignTakes
<1>7. CASE ForeignStart
  BY <1>7 DEF ForeignStart, Addressing
<1>8. CASE ForeignWins
  BY <1>8 DEF ForeignWins, Addressing
<1>9. CASE ForeignByte
  BY <1>9 DEF ForeignByte
<1>10. CASE BusError
  BY <1>10 DEF BusError
<1> QED
  BY <1>1, <1>2, <1>3, <1>4, <1>5, <1>6, <1>7, <1>8, <1>9, <1>10, Zenon DEF Bus, BusGoesOn

LEMMA ControlKept ==
  Shapes /\ Control /\ Stopped /\ [WireNext]_wireVars => Control'
<1> SUFFICES ASSUME Shapes, Control, Stopped, [WireNext]_wireVars PROVE Control'
  OBVIOUS
<1> USE DEF Control, In
<1>1. CASE TWI_vect
  <2>1. Answers \/ Holds
    BY <1>1, HandlerAnswers
  <2>2. bus.phase # "held"
    BY <2>1 DEF Answers, Holds
  <2> QED
    BY <2>1, <2>2 DEF Answers, Holds
<1>2. CASE SketchCalls
  <2>1. Keeps \/ Begins
    BY <1>2, SketchKeeps
  <2> QED
    BY <2>1 DEF Keeps, Begins
<1>3. CASE Bus
  BY <1>3, BusInOrder DEF InOrder, Raises
<1>4. CASE UNCHANGED wireVars
  BY <1>4 DEF wireVars
<1> QED
  BY <1>1, <1>2, <1>3, <1>4, Zenon DEF WireNext, SketchCalls, Bus

LEMMA StoppedKept == Shapes /\ Stopped /\ [WireNext]_wireVars => Stopped'
<1> SUFFICES ASSUME Shapes, Stopped, [WireNext]_wireVars PROVE Stopped'
  OBVIOUS
<1> USE DEF Shapes, TwiFields, BusFields
<1>1. CASE SlaveStop
  <2>1. bus'.phase = "free" /\ bus'.status = "none" /\ ~bus'.sta
    BY <1>1 DEF SlaveStop, twi_stop, Reply
  <2> QED
    BY <2>1 DEF Stopped, In
<1>2. CASE SlaveStopDone
  BY <1>2 DEF SlaveStopDone, Stopped
<1>3. CASE TWI_vect /\ ~SlaveStop /\ ~SlaveStopDone
  <2>1. ~twi.handling
    BY <1>3 DEF TWI_vect, StartSent, MasterSend, MasterRefused, ArbitrationLost, MasterReceive,
       MasterReceiveLast, MasterReceiveRefused, SlaveAddressed, SlaveReceive, SlaveRefuses,
       SlaveAsked, SlaveSend, SlaveSent, BusErrorSeen, Interrupted
  <2>2. CASE StartSent \/ SlaveRefuses
    BY <2>1, <2>2 DEF StartSent, SlaveRefuses, Stopped
  <2>3. CASE MasterSend \/ MasterRefused \/ ArbitrationLost \/ MasterReceive
             \/ MasterReceiveLast \/ MasterReceiveRefused
    BY <2>1, <2>3 DEF MasterSend, MasterRefused, ArbitrationLost, MasterReceive, Received,
       MasterReceiveLast, MasterReceiveRefused, EndOfTransfer, Stopped
  <2>4. CASE SlaveAddressed \/ SlaveReceive \/ SlaveAsked \/ SlaveSend \/ SlaveSent \/ BusErrorSeen
    BY <2>1, <2>4 DEF SlaveAddressed, SlaveReceive, SlaveAsked, SlaveSend, SlaveSent, BusErrorSeen,
       Stopped
  <2> QED
    BY <1>3, <2>2, <2>3, <2>4 DEF TWI_vect
<1>4. CASE SketchCalls
  <2>1. ~twi.handling
    BY <1>4 DEF SketchCalls, SketchGoesOn, beginTransmission, write, endTransmission, requestFrom, read,
       SeesReady, WriteSetsUp, ReadSetsUp, Starts, WriteEnds, ReadCopies, ReadEnds, Calls, Runs
  <2>2. twi'.handling = twi.handling
    BY <1>4 DEF SketchCalls, SketchGoesOn, beginTransmission, write, endTransmission, requestFrom, read,
       SeesReady, WriteSetsUp, ReadSetsUp, Starts, WriteEnds, ReadCopies, ReadEnds
  <2> QED
    BY <2>1, <2>2 DEF Stopped
<1>5. CASE Bus
  <2>1. twi' = twi
    BY <1>5 DEF Bus, BusGoesOn, OurStart, OurAddress, OurByte, DeviceByte, ForeignStop, ForeignTakes,
       ForeignStart, ForeignWins, ForeignByte, BusError
  <2> SUFFICES ASSUME twi.handling PROVE Stopped'
    BY <2>1 DEF Stopped
  <2>2. ~bus.sta /\ (bus.status = "none" => bus.phase = "free")
    BY DEF Stopped, In
  <2>3. ForeignStart
    BY <1>5, <2>2 DEF Bus, BusGoesOn, OurStart, OurAddress, OurByte, DeviceByte, ForeignStop,
       ForeignTakes, ForeignWins, ForeignByte, BusError, BusMoves
  <2>4. CASE Addressing("SR_SLA_ACK")
    <3>1. bus'.phase = "addressed" /\ bus'.status = "SR_SLA_ACK" /\ bus'.sta = bus.sta
      BY <2>4 DEF Addressing, SignalsByte
    <3> QED
      BY <2>2, <3>1 DEF Stopped, In
  <2>5. CASE Addressing("ST_SLA_ACK")
    <3>1. bus'.phase = "asked" /\ bus'.status = "ST_SLA_ACK" /\ bus'.sta = bus.sta
      BY <2>5 DEF Addressing, SignalsByte
    <3> QED
      BY <2>2, <3>1 DEF Stopped, In
  <2> QED
    BY <2>3, <2>4, <2>5 DEF ForeignStart
<1>6. CASE UNCHANGED wireVars
  BY <1>6 DEF wireVars, Stopped, In
<1> QED
  BY <1>1, <1>2, <1>3, <1>4, <1>5, <1>6, Zenon DEF WireNext, SketchCalls, Bus

LEMMA ShapesKept == Shapes /\ [WireNext]_wireVars => Shapes'
<1> SUFFICES ASSUME Shapes, [WireNext]_wireVars PROVE Shapes'
  OBVIOUS
<1> USE DEF Shapes, TwiFields, WireFields, BusFields, SketchFields, PeerFields
<1>1. CASE StartSent
  BY <1>1, ZenonT(60) DEF StartSent, ReplyWith, Reply
<1>2. CASE MasterSend
  BY <1>2, ZenonT(60) DEF MasterSend, ReplyWith, Reply, EndOfTransfer, twi_stop, HoldBus
<1>3. CASE MasterRefused
  BY <1>3, ZenonT(60) DEF MasterRefused, twi_stop, Reply
<1>4. CASE ArbitrationLost
  BY <1>4, ZenonT(60) DEF ArbitrationLost, twi_releaseBus, Reply
<1>5. CASE MasterReceive
  BY <1>5, ZenonT(60) DEF MasterReceive, Received, Reply
<1>6. CASE MasterReceiveLast
  BY <1>6, ZenonT(60) DEF MasterReceiveLast, EndOfTransfer, twi_stop, Reply, HoldBus, Received
<1>7. CASE MasterReceiveRefused
  BY <1>7, ZenonT(60) DEF MasterReceiveRefused, twi_stop, Reply
<1>8. CASE SlaveAddressed
  BY <1>8, ZenonT(60) DEF SlaveAddressed, Reply
<1>9. CASE SlaveReceive
  BY <1>9, ZenonT(60) DEF SlaveReceive, Reply
<1>10. CASE SlaveRefuses
  BY <1>10, ZenonT(60) DEF SlaveRefuses, Reply
<1>11. CASE SlaveStop
  BY <1>11, ZenonT(60) DEF SlaveStop, twi_stop, Reply, onReceiveService
<1>39. CASE SlaveStopDone
  BY <1>39, ZenonT(60) DEF SlaveStopDone, twi_releaseBus, Reply
<1>12. CASE SlaveAsked
  BY <1>12, ZenonT(60) DEF SlaveAsked, onRequestService, ReplyWith, Reply
<1>13. CASE SlaveSend
  BY <1>13, ZenonT(60) DEF SlaveSend, ReplyWith, Reply
<1>14. CASE SlaveSent
  BY <1>14, ZenonT(60) DEF SlaveSent, Reply
<1>15. CASE BusErrorSeen
  BY <1>15, ZenonT(60) DEF BusErrorSeen, twi_stop, Reply
<1>16. CASE beginTransmission
  BY <1>16, ZenonT(60) DEF beginTransmission
<1>17. CASE write
  BY <1>17, ZenonT(60) DEF write
<1>18. CASE endTransmission
  BY <1>18, ZenonT(60) DEF endTransmission
<1>19. CASE requestFrom
  BY <1>19, ZenonT(60) DEF requestFrom
<1>20. CASE read
  BY <1>20, ZenonT(60) DEF read
<1>21. CASE SeesReady
  BY <1>21, ZenonT(60) DEF SeesReady
<1>22. CASE WriteSetsUp
  BY <1>22, ZenonT(60) DEF WriteSetsUp, Goes
<1>23. CASE ReadSetsUp
  BY <1>23, ZenonT(60) DEF ReadSetsUp, Goes
<1>24. CASE Starts
  BY <1>24, ZenonT(60) DEF Starts, Goes
<1>25. CASE WriteEnds
  BY <1>25, ZenonT(60) DEF WriteEnds
<1>26. CASE ReadCopies
  BY <1>26, ZenonT(60) DEF ReadCopies
<1>27. CASE ReadEnds
  BY <1>27, ZenonT(60) DEF ReadEnds
<1>28. CASE OurStart
  BY <1>28, ZenonT(60) DEF OurStart, Signals
<1>29. CASE OurAddress
  BY <1>29, ZenonT(60) DEF OurAddress, Signals
<1>30. CASE OurByte
  BY <1>30, ZenonT(60) DEF OurByte, Signals
<1>31. CASE DeviceByte
  BY <1>31, ZenonT(60) DEF DeviceByte, SignalsByte
<1>32. CASE ForeignStop
  BY <1>32, ZenonT(60) DEF ForeignStop, Signals
<1>33. CASE ForeignTakes
  BY <1>33, ZenonT(60) DEF ForeignTakes, Signals
<1>34. CASE ForeignStart
  BY <1>34, ZenonT(60) DEF ForeignStart, Addressing, SignalsByte
<1>35. CASE ForeignWins
  BY <1>35, ZenonT(60) DEF ForeignWins, Addressing, Signals, SignalsByte
<1>36. CASE ForeignByte
  BY <1>36, ZenonT(60) DEF ForeignByte, SignalsByte
<1>37. CASE BusError
  BY <1>37, ZenonT(60) DEF BusError, Signals
<1>38. CASE UNCHANGED wireVars
  BY <1>38 DEF wireVars
<1> QED
  BY <1>1, <1>2, <1>3, <1>4, <1>5, <1>6, <1>7, <1>8, <1>9, <1>10, <1>11, <1>12, <1>13,
     <1>14, <1>15, <1>16, <1>17, <1>18, <1>19, <1>20, <1>21, <1>22, <1>23, <1>24,
     <1>25, <1>26, <1>27, <1>28, <1>29, <1>30, <1>31, <1>32, <1>33, <1>34, <1>35,
     <1>36, <1>37, <1>38, <1>39, Zenon
  DEF WireNext, TWI_vect, SketchGoesOn, BusGoesOn

-----------------------------------------------------------------------------
(* What the other master sends *)

Foreigns == {<<"foreign", n>> : n \in Nat}
Upto(s) == SubSeq(s, 1, Least(Len(s), BufferLength))

\* While the other master sends, twi_rxBuffer holds what it has sent, up to the
\* size of the buffer; a byte that waits for the handler is not yet in it.
Hears ==
  /\ peer.foreign \in Nat /\ peer.sent \in Seq(Foreigns)
  /\ bus.phase = "addressed" =>
       /\ peer.heard = <<>>
       /\ bus.status = "none" => twi.rx = Upto(peer.sent)
       /\ bus.status \in {"SR_SLA_ACK", "SR_ARB_LOST_SLA_ACK"} => peer.sent = <<>>
       /\ bus.status = "SR_DATA_ACK" =>
            \E s \in Seq(Foreigns) : peer.sent = Append(s, bus.data) /\ twi.rx = Upto(s)
  /\ bus.status = "SR_STOP" => twi.rx = Upto(peer.sent) /\ peer.heard = <<>>
  /\ peer.heard # <<>> => peer.heard[1] = Upto(peer.sent)

LEMMA UptoLen ==
  ASSUME NEW s \in Seq(Foreigns)
  PROVE  /\ Upto(s) \in Seq(Foreigns) /\ Len(Upto(s)) = Least(Len(s), BufferLength)
         /\ Len(Upto(s)) <= BufferLength
         /\ \A k \in 1..Len(Upto(s)) : Upto(s)[k] = s[k]
<1> DEFINE n == Least(Len(s), BufferLength)
<1>1. n \in 0..Len(s) /\ n <= BufferLength
  BY WireAssumption DEF Least
<1> QED
  BY <1>1 DEF Upto

LEMMA SubSeqNext ==
  ASSUME NEW S, NEW s \in Seq(S), NEW i \in 1..Len(s)
  PROVE  Append(SubSeq(s, 1, i - 1), s[i]) = SubSeq(s, 1, i)
OBVIOUS

LEMMA UptoEmpty == Upto(<<>>) = <<>>
BY WireAssumption DEF Upto, Least

LEMMA UptoAppend ==
  ASSUME NEW s \in Seq(Foreigns), NEW b \in Foreigns
  PROVE  Upto(Append(s, b)) = IF Len(Upto(s)) < BufferLength THEN Append(Upto(s), b) ELSE Upto(s)
<1>1. Append(s, b) \in Seq(Foreigns) /\ Len(Append(s, b)) = Len(s) + 1 /\ Len(s) \in Nat
      /\ Append(s, b)[Len(s) + 1] = b /\ \A k \in 1..Len(s) : Append(s, b)[k] = s[k]
  OBVIOUS
<1>2. CASE Len(s) < BufferLength
  <2>1. Least(Len(s), BufferLength) = Len(s) /\ Least(Len(s) + 1, BufferLength) = Len(s) + 1
    BY <1>1, <1>2, WireAssumption DEF Least
  <2>2. Upto(s) = s /\ Upto(Append(s, b)) = Append(s, b)
    BY <1>1, <2>1 DEF Upto
  <2> QED
    BY <1>1, <1>2, <2>2
<1>3. CASE ~(Len(s) < BufferLength)
  <2>1. Least(Len(s), BufferLength) = BufferLength /\ Least(Len(s) + 1, BufferLength) = BufferLength
    BY <1>1, <1>3, WireAssumption DEF Least
  <2>2. Len(Upto(s)) = BufferLength
    BY <2>1, UptoLen
  <2>3. Upto(Append(s, b)) \in Seq(Foreigns) /\ Len(Upto(Append(s, b))) = BufferLength
    BY <1>1, <2>1, UptoLen
  <2>4. ASSUME NEW k \in 1..BufferLength
        PROVE  Upto(Append(s, b))[k] = Upto(s)[k]
    <3>1. Upto(Append(s, b))[k] = Append(s, b)[k]
      BY <1>1, <2>3, UptoLen
    <3>2. Upto(s)[k] = s[k]
      BY <2>2, UptoLen
    <3> QED
      BY <1>1, <1>3, <3>1, <3>2, WireAssumption
  <2>5. Upto(s) \in Seq(Foreigns)
    BY UptoLen
  <2>6. Upto(Append(s, b)) = Upto(s)
    BY <2>2, <2>3, <2>4, <2>5, SeqEqual, WireAssumption
  <2> QED
    BY <2>2, <2>6, WireAssumption
<1> QED
  BY <1>2, <1>3

\* What the sketch is given is what was in the buffer.
LEMMA FilledPrefix ==
  ASSUME NEW S, NEW bytes \in Seq(S), Len(bytes) <= BufferLength, NEW buffer
  PROVE  Prefix(Filled(buffer, bytes), Len(bytes)) = bytes
<1>1. \A k \in 1..Len(bytes) : Filled(buffer, bytes)[k] = bytes[k]
  BY WireAssumption DEF Filled
<1>2. bytes = [k \in 1..Len(bytes) |-> bytes[k]]
  OBVIOUS
<1> QED
  BY <1>1, <1>2 DEF Prefix

\* A step that is not about what the other master sends.
Aside ==
  /\ twi'.rx = twi.rx
  /\ peer'.sent = peer.sent /\ peer'.heard = peer.heard /\ peer'.foreign = peer.foreign
  /\ \/ bus' = bus
     \/ /\ bus'.status \notin {"SR_SLA_ACK", "SR_ARB_LOST_SLA_ACK", "SR_DATA_ACK", "SR_STOP"}
        /\ bus'.phase = "addressed" =>
             bus.phase = "addressed" /\ bus.status = "none" /\ bus'.status = "none"

LEMMA AsideHears == Hears /\ Aside => Hears'
<1> SUFFICES ASSUME Hears, Aside PROVE Hears'
  OBVIOUS
<1>1. CASE bus' = bus
  BY <1>1 DEF Hears, Aside
<1>2. CASE bus' # bus
  BY <1>2 DEF Hears, Aside
<1> QED
  BY <1>1, <1>2

\* Every other step of the handler and the sketch.
LEMMA HandlerAside ==
  Shapes /\ Control /\ TWI_vect =>
    SlaveAddressed \/ SlaveReceive \/ SlaveStop \/ SlaveStopDone \/ Aside
<1> SUFFICES ASSUME Shapes, Control, TWI_vect
             PROVE  SlaveAddressed \/ SlaveReceive \/ SlaveStop \/ SlaveStopDone \/ Aside
  OBVIOUS
<1> USE DEF Shapes, TwiFields, BusFields, PeerFields, Control, In, Aside, Interrupted, Reply, ReplyWith,
            twi_releaseBus, twi_stop, HoldBus, EndOfTransfer, Received
<1>1. CASE StartSent
  BY <1>1 DEF StartSent
<1>2. CASE MasterSend
  <2>1. bus.phase = "sending" /\ twi'.rx = twi.rx /\ peer' = peer
        /\ bus'.status \in {"none", "REP_START"} /\ bus'.phase # "addressed"
    BY <1>2 DEF MasterSend
  <2> QED
    BY <2>1
<1>3. CASE MasterRefused
  BY <1>3 DEF MasterRefused
<1>4. CASE ArbitrationLost
  BY <1>4 DEF ArbitrationLost
<1>5. CASE MasterReceive
  BY <1>5 DEF MasterReceive
<1>6. CASE MasterReceiveLast
  BY <1>6 DEF MasterReceiveLast
<1>7. CASE MasterReceiveRefused
  BY <1>7 DEF MasterReceiveRefused
<1>8. CASE SlaveRefuses
  BY <1>8 DEF SlaveRefuses
<1>9. CASE SlaveAsked
  BY <1>9 DEF SlaveAsked
<1>10. CASE SlaveSend
  BY <1>10 DEF SlaveSend
<1>11. CASE SlaveSent
  BY <1>11 DEF SlaveSent
<1>12. CASE BusErrorSeen
  BY <1>12 DEF BusErrorSeen
<1> QED
  BY <1>1, <1>2, <1>3, <1>4, <1>5, <1>6, <1>7, <1>8, <1>9, <1>10, <1>11, <1>12, Zenon DEF TWI_vect

LEMMA SketchAside == Shapes /\ Control /\ SketchCalls => Aside
<1> SUFFICES ASSUME Shapes, Control, SketchCalls PROVE Aside
  OBVIOUS
<1> USE DEF Shapes, TwiFields, BusFields, Control, In, Aside
<1>1. CASE beginTransmission \/ write \/ endTransmission \/ requestFrom \/ read
  BY <1>1 DEF beginTransmission, write, endTransmission, requestFrom, read
<1>2. CASE SeesReady \/ WriteSetsUp \/ ReadSetsUp
  BY <1>2 DEF SeesReady, WriteSetsUp, ReadSetsUp
<1>3. CASE Starts
  BY <1>3 DEF Starts, Runs
<1>4. CASE WriteEnds \/ ReadCopies \/ ReadEnds
  BY <1>4 DEF WriteEnds, ReadCopies, ReadEnds
<1> QED
  BY <1>1, <1>2, <1>3, <1>4, Zenon DEF SketchCalls, SketchGoesOn

LEMMA BusAside ==
  ASSUME Shapes, OurStart \/ OurAddress \/ OurByte \/ DeviceByte \/ ForeignTakes \/ BusError
  PROVE  Aside
<1> USE DEF Shapes, BusFields, PeerFields, Aside, BusMoves, Signals, SignalsByte
<1>1. CASE OurStart \/ OurByte
  BY <1>1 DEF OurStart, OurByte
<1>2. CASE OurAddress
  <2>1. PICK ack \in BOOLEAN :
          IF bus.data = Address("MTX")
            THEN /\ Signals(IF ack THEN "MT_SLA_ACK" ELSE "MT_SLA_NACK", "sending")
                 /\ peer' = [peer EXCEPT !.got = <<>>]
            ELSE /\ Signals(IF ack THEN "MR_SLA_ACK" ELSE "MR_SLA_NACK", "receiving")
                 /\ peer' = [peer EXCEPT !.gave = <<>>]
    BY <1>2 DEF OurAddress
  <2>2. twi' = twi
    BY <1>2 DEF OurAddress
  <2>3. peer'.sent = peer.sent /\ peer'.heard = peer.heard /\ peer'.foreign = peer.foreign
    BY <2>1
  <2>4. bus'.status \in {"MT_SLA_ACK", "MT_SLA_NACK", "MR_SLA_ACK", "MR_SLA_NACK"}
        /\ bus'.phase # "addressed"
    BY <2>1
  <2> QED
    BY <2>2, <2>3, <2>4
<1>3. CASE DeviceByte \/ ForeignTakes
  <2>1. UNCHANGED <<twi, peer.sent, peer.heard, peer.foreign>>
    BY <1>3 DEF DeviceByte, ForeignTakes
  <2>2. bus'.status \in {"MR_DATA_ACK", "MR_DATA_NACK", "ST_DATA_ACK", "ST_LAST_DATA", "ST_DATA_NACK"}
        /\ bus'.phase # "addressed"
    BY <1>3 DEF DeviceByte, ForeignTakes
  <2> QED
    BY <2>1, <2>2
<1>4. CASE BusError
  BY <1>4 DEF BusError
<1> QED
  BY <1>1, <1>2, <1>3, <1>4

LEMMA SlaveAddressedHears == Shapes /\ Control /\ Hears /\ SlaveAddressed => Hears'
<1> SUFFICES ASSUME Shapes, Control, Hears, SlaveAddressed PROVE Hears'
  OBVIOUS
<1>1. bus.phase = "addressed" /\ bus'.phase = "addressed" /\ bus'.status = "none" /\ twi'.rx = <<>>
      /\ peer' = peer
  BY DEF Shapes, Control, In, SlaveAddressed, Interrupted, Reply, TwiFields, BusFields
<1>2. peer.sent = <<>> /\ peer.heard = <<>>
  BY <1>1 DEF Hears, SlaveAddressed, Interrupted
<1> QED
  BY <1>1, <1>2, UptoEmpty DEF Hears

LEMMA SlaveReceiveHears == Shapes /\ Control /\ Hears /\ SlaveReceive => Hears'
<1> SUFFICES ASSUME Shapes, Control, Hears, SlaveReceive PROVE Hears'
  OBVIOUS
<1>1. bus.status = "SR_DATA_ACK" /\ bus.phase = "addressed" /\ bus'.phase = "addressed"
      /\ bus'.status = "none" /\ peer' = peer
      /\ twi'.rx = IF Len(twi.rx) < BufferLength THEN Append(twi.rx, bus.data) ELSE twi.rx
  BY DEF Shapes, Control, In, SlaveReceive, Interrupted, Reply, TwiFields, BusFields
<1>2. PICK s \in Seq(Foreigns) : peer.sent = Append(s, bus.data) /\ twi.rx = Upto(s)
  BY <1>1 DEF Hears
<1>3. bus.data \in Foreigns
  <2>1. peer.sent[Len(s) + 1] = bus.data /\ Len(s) + 1 \in 1..Len(peer.sent)
    BY <1>2
  <2> QED
    BY <2>1 DEF Hears
<1>4. twi'.rx = Upto(peer.sent)
  BY <1>1, <1>2, <1>3, UptoAppend
<1> QED
  BY <1>1, <1>4 DEF Hears

LEMMA SlaveStopHears == Shapes /\ Control /\ Hears /\ SlaveStop => Hears'
<1> SUFFICES ASSUME Shapes, Control, Hears, SlaveStop PROVE Hears'
  OBVIOUS
<1>1. bus.status = "SR_STOP" /\ bus'.phase = "free" /\ bus'.status = "none"
  BY DEF Shapes, SlaveStop, Interrupted, Reply, twi_stop, BusFields
<1>2. twi.rx = Upto(peer.sent) /\ peer.heard = <<>> /\ peer.sent \in Seq(Foreigns)
  BY <1>1 DEF Hears
<1>3. CASE OnReceiveDrops
  BY <1>1, <1>2, <1>3 DEF Hears, SlaveStop
<1>4. CASE ~OnReceiveDrops
  <2>1. PICK count \in {0, Len(twi.rx)} : wire' = onReceiveService(twi.rx, count)
    BY <1>4 DEF SlaveStop
  <2>2. wire'.rx = Filled(wire.rx, twi.rx)
    BY <2>1 DEF onReceiveService, Shapes, WireFields
  <2>3. peer'.heard = <<Prefix(wire'.rx, Len(twi.rx))>> /\ peer'.sent = peer.sent /\ peer'.foreign = peer.foreign
    BY <1>4 DEF SlaveStop, Shapes, PeerFields
  <2>4. Prefix(wire'.rx, Len(twi.rx)) = twi.rx
    BY <1>2, <2>2, UptoLen, FilledPrefix
  <2> QED
    BY <1>1, <1>2, <2>3, <2>4 DEF Hears
<1> QED
  BY <1>3, <1>4

LEMMA SlaveStopDoneHears == Shapes /\ Stopped /\ Hears /\ SlaveStopDone => Hears'
<1> SUFFICES ASSUME Shapes, Stopped, Hears, SlaveStopDone PROVE Hears'
  OBVIOUS
<1>1. bus'.status = "none" /\ bus'.phase = bus.phase /\ twi'.rx = <<>>
      /\ peer'.sent = peer.sent /\ peer'.heard = peer.heard /\ peer'.foreign = peer.foreign
  BY DEF Shapes, SlaveStopDone, twi_releaseBus, Reply, TwiFields, BusFields, PeerFields
<1>2. bus.phase = "addressed" => peer.sent = <<>> /\ peer.heard = <<>>
  BY DEF Hears, Stopped, In, SlaveStopDone
<1> QED
  BY <1>1, <1>2, UptoEmpty DEF Hears

LEMMA AddressingHears ==
  ASSUME Shapes, Control, Hears, NEW code, Addressing(code), bus.phase \in {"free", "started"},
         code \in {"SR_SLA_ACK", "SR_ARB_LOST_SLA_ACK", "ST_SLA_ACK", "ST_ARB_LOST_SLA_ACK"}
  PROVE  Hears'
<1>1. bus'.status = code /\ peer'.foreign = peer.foreign + 1
  BY DEF Shapes, Addressing, SignalsByte, BusFields, PeerFields
<1>2. CASE code \in {"SR_SLA_ACK", "SR_ARB_LOST_SLA_ACK"}
  <2>1. bus'.phase = "addressed" /\ peer'.sent = <<>> /\ peer'.heard = <<>>
    BY <1>2 DEF Shapes, Addressing, SignalsByte, BusFields, PeerFields
  <2> QED
    BY <1>1, <1>2, <2>1 DEF Hears
<1>3. CASE code \in {"ST_SLA_ACK", "ST_ARB_LOST_SLA_ACK"}
  <2>1. bus'.phase = "asked" /\ peer'.sent = peer.sent /\ peer'.heard = peer.heard
    BY <1>3 DEF Shapes, Addressing, SignalsByte, BusFields, PeerFields
  <2> QED
    BY <1>1, <1>3, <2>1 DEF Hears
<1> QED
  BY <1>2, <1>3

LEMMA ForeignByteHears == Shapes /\ Control /\ Hears /\ ForeignByte => Hears'
<1> SUFFICES ASSUME Shapes, Control, Hears, ForeignByte PROVE Hears'
  OBVIOUS
<1> DEFINE byte == <<"foreign", peer.foreign>>
<1>1. /\ bus.status = "none" /\ bus.phase = "addressed"
      /\ peer'.sent = Append(peer.sent, byte) /\ peer'.heard = peer.heard /\ peer'.foreign = peer.foreign
      /\ bus'.data = byte /\ twi' = twi
      /\ \/ bus'.status = "SR_DATA_ACK" /\ bus'.phase = "addressed"
         \/ bus'.status = "SR_DATA_NACK" /\ bus'.phase = "free"
  BY DEF Shapes, ForeignByte, BusMoves, SignalsByte, BusFields, PeerFields
<1>2. byte \in Foreigns /\ peer.sent \in Seq(Foreigns) /\ peer.heard = <<>> /\ twi.rx = Upto(peer.sent)
  BY <1>1 DEF Hears, Foreigns
<1>3. Append(peer.sent, byte) \in Seq(Foreigns)
  BY <1>2
<1> HIDE DEF byte
<1> QED
  BY <1>1, <1>2, <1>3 DEF Hears

LEMMA HearsKept == Shapes /\ Control /\ Stopped /\ Hears /\ [WireNext]_wireVars => Hears'
<1> SUFFICES ASSUME Shapes, Control, Stopped, Hears, [WireNext]_wireVars PROVE Hears'
  OBVIOUS
<1>1. CASE TWI_vect
  BY <1>1, HandlerAside, AsideHears, SlaveAddressedHears, SlaveReceiveHears, SlaveStopHears,
     SlaveStopDoneHears, Zenon
<1>2. CASE SketchCalls
  BY <1>2, SketchAside, AsideHears
<1>3. CASE ForeignStop
  <2>1. bus.status = "none" /\ bus.phase = "addressed" /\ bus'.status = "SR_STOP" /\ bus'.phase = "free"
        /\ UNCHANGED <<twi, peer>>
    BY <1>3 DEF Shapes, ForeignStop, BusMoves, Signals, BusFields
  <2> QED
    BY <2>1 DEF Hears
<1>4. CASE ForeignStart
  BY <1>4, AddressingHears DEF ForeignStart, BusMoves
<1>5. CASE ForeignWins
  <2>1. bus.phase = "started"
    BY <1>5 DEF ForeignWins, BusMoves
  <2>2. CASE Signals("ARB_LOST", "started") /\ peer' = [peer EXCEPT !.foreign = @ + 1]
    <3>1. bus'.status = "ARB_LOST" /\ bus'.phase = "started" /\ peer'.foreign = peer.foreign + 1
          /\ peer'.sent = peer.sent /\ peer'.heard = peer.heard
      BY <2>2 DEF Shapes, Signals, BusFields, PeerFields
    <3> QED
      BY <3>1 DEF Hears
  <2> QED
    BY <1>5, <2>1, <2>2, AddressingHears DEF ForeignWins
<1>6. CASE ForeignByte
  BY <1>6, ForeignByteHears
<1>7. CASE OurStart \/ OurAddress \/ OurByte \/ DeviceByte \/ ForeignTakes \/ BusError
  BY <1>7, BusAside, AsideHears
<1>8. CASE UNCHANGED wireVars
  <2>1. Aside
    BY <1>8 DEF wireVars, Aside
  <2> QED
    BY <2>1, AsideHears
<1> QED
  BY <1>1, <1>2, <1>3, <1>4, <1>5, <1>6, <1>7, <1>8, Zenon DEF WireNext, SketchCalls, BusGoesOn

-----------------------------------------------------------------------------
(* What the other master takes *)

RepliesOfTwi == {<<"reply", n>> : n \in Nat} \cup {Zero}

\* What the other master is to read: the reply, or one zero.
Due == IF peer.replied = <<>> THEN <<Zero>> ELSE peer.replied

\* At a node that is only a slave, the bytes taken are those before the one
\* that twi_txBufferIndex has passed, and there is no acknowledge after the last,
\* unless the handler has not seen the request.
SlaveIdles ==
  /\ sketch.pc = "idle" /\ ~wire.transmitting /\ ~bus.sta
  /\ bus.phase \in {"free", "addressed", "asked"}
Taken(n) == peer.asked = SubSeq(Due, 1, n)
Loaded ==
  /\ Len(Due) <= BufferLength /\ twi.txLength = Len(Due) /\ twi.txIndex \in 1..Len(Due)
  /\ \A k \in 1..Len(Due) : twi.tx[k] = Due[k]
Offers ==
  bus.data = Due[twi.txIndex] /\ Taken(twi.txIndex - 1) /\ (bus.ea => twi.txIndex < Len(Due))
Wanted == Taken(twi.txIndex) /\ twi.txIndex < Len(Due)
Sends ==
  /\ peer.foreign \in Nat /\ peer.replied \in Seq(RepliesOfTwi)
  /\ bus.phase = "asked" /\ bus.status \in {"ST_SLA_ACK", "ST_ARB_LOST_SLA_ACK"} =>
       ~peer.unseen /\ peer.asked = <<>>
  /\ ~peer.unseen =>
       /\ \E n \in 0..Len(Due) : Taken(n)
       /\ bus.phase = "asked" /\ bus.status = "none" => Loaded /\ Offers
       /\ bus.phase = "asked" /\ bus.status = "ST_DATA_ACK" => Loaded /\ Wanted
Serves == sketch.role = "slave" => SlaveIdles /\ Sends

LEMMA DueIs ==
  ASSUME peer.replied \in Seq(RepliesOfTwi)
  PROVE  Due \in Seq(RepliesOfTwi) /\ Len(Due) \in Nat \ {0}
<1>1. Zero \in RepliesOfTwi
  BY DEF RepliesOfTwi
<1> QED
  BY <1>1 DEF Due

\* A step that is not about what the other master takes.
NotAsked ==
  /\ UNCHANGED <<twi.tx, twi.txIndex, twi.txLength>>
  /\ UNCHANGED <<peer.asked, peer.replied, peer.unseen>>
  /\ peer'.foreign \in {peer.foreign, peer.foreign + 1}
  /\ UNCHANGED <<sketch.role, sketch.pc, wire.transmitting>> /\ ~bus'.sta
  /\ bus' = bus \/ bus'.phase \in {"free", "addressed"}

LEMMA NotAskedServes ==
  ASSUME Serves, NotAsked
  PROVE  Serves'
<1> SUFFICES ASSUME sketch'.role = "slave" PROVE SlaveIdles' /\ Sends'
  BY DEF Serves
<1>1. SlaveIdles /\ Sends
  BY DEF Serves, NotAsked
<1>2. SlaveIdles'
  BY <1>1 DEF SlaveIdles, NotAsked
<1>3. Due' = Due
  BY DEF Due, NotAsked
<1>4. \A n : Taken(n) => Taken(n)'
  BY <1>3 DEF Taken, NotAsked
<1>5. /\ ~peer'.unseen => \E n \in 0..Len(Due') : Taken(n)'
      /\ peer'.foreign \in Nat /\ peer'.replied \in Seq(RepliesOfTwi)
  BY <1>1, <1>3, <1>4 DEF Sends, NotAsked
<1>6. CASE bus' = bus
  <2>1. Loaded => Loaded'
    BY <1>3 DEF Loaded, NotAsked
  <2>2. (Offers => Offers') /\ (Wanted => Wanted')
    BY <1>3, <1>4, <1>6 DEF Offers, Wanted, NotAsked
  <2>3. peer'.asked = peer.asked /\ peer'.unseen = peer.unseen
    BY DEF NotAsked
  <2> QED
    BY <1>1, <1>2, <1>5, <1>6, <2>1, <2>2, <2>3 DEF Sends
<1>7. CASE bus'.phase \in {"free", "addressed"}
  BY <1>2, <1>5, <1>7 DEF Sends
<1> QED
  BY <1>6, <1>7 DEF NotAsked

LEMMA HandlerNotAsked ==
  ASSUME Shapes, Control, SlaveIdles, TWI_vect
  PROVE  SlaveAsked \/ SlaveSend \/ SlaveStopDone \/ NotAsked
<1> USE DEF Shapes, TwiFields, BusFields, PeerFields, WireFields, Control, In, SlaveIdles, NotAsked,
            Interrupted, Reply, ReplyWith, twi_releaseBus, twi_stop
<1>1. CASE StartSent \/ MasterSend \/ MasterRefused \/ ArbitrationLost
           \/ MasterReceive \/ MasterReceiveLast \/ MasterReceiveRefused
  <2>1. bus.phase \in {"started", "sending", "receiving"}
    BY <1>1 DEF StartSent, MasterSend, MasterRefused, ArbitrationLost,
                MasterReceive, MasterReceiveLast, MasterReceiveRefused
  <2> QED
    BY <2>1
<1>2. CASE SlaveAddressed
  BY <1>2 DEF SlaveAddressed
<1>3. CASE SlaveReceive
  BY <1>3 DEF SlaveReceive
<1>4. CASE SlaveRefuses
  BY <1>4 DEF SlaveRefuses
<1>5. CASE SlaveStop
  <2>1. bus'.phase = "free" /\ ~bus'.sta /\ UNCHANGED <<sketch, twi.tx, twi.txIndex, twi.txLength>>
    BY <1>5 DEF SlaveStop
  <2>2. UNCHANGED <<peer.asked, peer.replied, peer.unseen, peer.foreign, wire.transmitting>>
    BY <1>5 DEF SlaveStop, onReceiveService
  <2> QED
    BY <2>1, <2>2
<1>6. CASE SlaveSent
  BY <1>6 DEF SlaveSent
<1>7. CASE BusErrorSeen
  BY <1>7 DEF BusErrorSeen
<1> QED
  BY <1>1, <1>2, <1>3, <1>4, <1>5, <1>6, <1>7, Zenon DEF TWI_vect

LEMMA SlaveAskedServes ==
  ASSUME Shapes, Control, SlaveIdles, Sends, SlaveAsked
  PROVE  SlaveIdles' /\ Sends'
<1>0. ~peer.unseen
  BY DEF Sends, SlaveAsked, Interrupted, Control, In
<1>1. PICK reply \in {[k \in 1..n |-> <<"reply", peer.foreign>>] : n \in 0..BufferLength} :
        LET sends == twi_transmit(reply)
        IN  /\ wire' = IF sketch.registered THEN onRequestService(reply) ELSE wire
            /\ twi' = [twi EXCEPT !.state = "STX", !.tx = Filled(@, sends),
                                  !.txLength = Len(sends), !.txIndex = 1]
            /\ bus' = ReplyWith(Head(sends), Len(sends) > 1)
            /\ peer' = [peer EXCEPT !.replied = IF sketch.registered THEN reply ELSE <<>>]
  BY DEF SlaveAsked
<1> DEFINE sends == twi_transmit(reply)
<1>2. reply \in Seq(RepliesOfTwi) /\ Len(reply) <= BufferLength
  <2>1. PICK n \in 0..BufferLength : reply = [k \in 1..n |-> <<"reply", peer.foreign>>]
    OBVIOUS
  <2>2. <<"reply", peer.foreign>> \in RepliesOfTwi
    BY DEF Sends, RepliesOfTwi
  <2>3. \A k \in 1..n : reply[k] \in RepliesOfTwi
    BY <2>1, <2>2
  <2> QED
    BY <2>1, <2>3, WireAssumption
<1>3. peer'.replied = (IF sketch.registered THEN reply ELSE <<>>) /\ peer'.asked = peer.asked
      /\ peer'.foreign = peer.foreign
  BY <1>1 DEF Shapes, PeerFields
<1>4. sends = Due'
  BY <1>3 DEF twi_transmit, Due, SlaveIdles
<1>5. Due' \in Seq(RepliesOfTwi) /\ Len(Due') \in 1..BufferLength /\ peer'.replied \in Seq(RepliesOfTwi)
  <2>1. Zero \in RepliesOfTwi
    BY DEF RepliesOfTwi
  <2>2. <<Zero>> \in Seq(RepliesOfTwi) /\ Len(<<Zero>>) = 1
    BY <2>1
  <2>3. peer'.replied \in Seq(RepliesOfTwi) /\ Len(peer'.replied) <= BufferLength
    BY <1>2, <1>3, WireAssumption
  <2> QED
    BY <2>2, <2>3, WireAssumption DEF Due
<1>6. /\ twi'.txLength = Len(sends) /\ twi'.txIndex = 1 /\ twi'.tx = Filled(twi.tx, sends)
  BY <1>1 DEF Shapes, TwiFields
<1>7. bus.phase = "asked" /\ bus'.phase = "asked" /\ bus'.status = "none" /\ bus'.data = Head(sends)
      /\ bus'.ea = (Len(sends) > 1) /\ ~bus'.sta
      /\ bus.status \in {"ST_SLA_ACK", "ST_ARB_LOST_SLA_ACK"}
  BY <1>1 DEF Shapes, BusFields, ReplyWith, Reply, SlaveAsked, Interrupted, Control, In
<1>8. peer'.asked = <<>>
  BY <1>3, <1>7 DEF Sends
<1>9. SlaveIdles'
  <2>1. ~wire'.transmitting
    BY <1>1 DEF Shapes, WireFields, onRequestService, SlaveIdles
  <2> QED
    BY <1>7, <2>1 DEF SlaveIdles, SlaveAsked
<1> HIDE DEF sends
<1>10. Loaded'
  <2> DEFINE d == Due'
  <2>1. twi'.tx = Filled(twi.tx, d) /\ twi'.txLength = Len(d) /\ twi'.txIndex = 1
    BY <1>4, <1>6
  <2>2. Len(d) \in 1..BufferLength
    BY <1>5
  <2>3. \A k \in 1..Len(d) : twi'.tx[k] = d[k]
    <3> HIDE DEF d
    <3> QED
      BY <2>1, <2>2, WireAssumption DEF Filled
  <2> QED
    BY <2>1, <2>2, <2>3 DEF Loaded
<1>11. Taken(0)' /\ Head(Due') = Due'[1]
  <2> DEFINE d == Due'
  <2>1. d \in Seq(RepliesOfTwi) /\ Len(d) \in 1..BufferLength
    BY <1>5
  <2> HIDE DEF d
  <2>2. SubSeq(d, 1, 0) = <<>> /\ Head(d) = d[1]
    BY <2>1
  <2> USE DEF d
  <2> QED
    BY <1>8, <2>2 DEF Taken
<1>12. Offers'
  <2>1. bus'.data = Due'[1] /\ (bus'.ea => 1 < Len(Due'))
    BY <1>4, <1>7, <1>11
  <2> QED
    BY <1>6, <1>11, <2>1 DEF Offers
<1>13. \E n \in 0..Len(Due') : Taken(n)'
  BY <1>5, <1>11
<1>14. peer'.foreign \in Nat
  BY <1>3 DEF Sends
<1> QED
  BY <1>5, <1>7, <1>9, <1>10, <1>12, <1>13, <1>14 DEF Sends

LEMMA SlaveSendServes ==
  ASSUME Shapes, Control, SlaveIdles, Sends, SlaveSend
  PROVE  SlaveIdles' /\ Sends'
<1>0. CASE peer.unseen
  BY <1>0 DEF Shapes, BusFields, ReplyWith, Reply, SlaveSend, Interrupted, Control, In, SlaveIdles, Sends
<1> SUFFICES ASSUME ~peer.unseen PROVE SlaveIdles' /\ Sends'
  BY <1>0
<1>1. /\ bus.status = "ST_DATA_ACK" /\ bus.phase = "asked" /\ bus'.phase = "asked"
      /\ bus'.status = "none" /\ ~bus'.sta /\ UNCHANGED <<wire, sketch, peer>>
      /\ twi'.txIndex = twi.txIndex + 1 /\ twi'.tx = twi.tx /\ twi'.txLength = twi.txLength
      /\ bus'.data = IF twi.txIndex < BufferLength THEN twi.tx[twi.txIndex + 1] ELSE Beyond
  BY DEF Shapes, TwiFields, BusFields, ReplyWith, Reply, SlaveSend, Interrupted, Control, In
<1>2. bus'.ea = (twi.txIndex + 1 < twi.txLength)
  BY DEF Shapes, TwiFields, BusFields, ReplyWith, Reply, SlaveSend
<1>3. SlaveIdles'
  BY <1>1 DEF SlaveIdles
<1>4. Loaded /\ Wanted /\ peer.replied \in Seq(RepliesOfTwi) /\ peer.foreign \in Nat
      /\ \E n \in 0..Len(Due) : Taken(n)
  BY <1>1 DEF Sends
<1>5. Due' = Due /\ Len(Due) \in Nat /\ \A n : Taken(n) => Taken(n)'
  BY <1>1, <1>4, DueIs DEF Due, Taken
<1>6. twi.txIndex \in 1..Len(Due) /\ twi.txIndex < Len(Due) /\ Len(Due) <= BufferLength
      /\ twi.txLength = Len(Due) /\ \A k \in 1..Len(Due) : twi.tx[k] = Due[k]
  BY <1>4 DEF Loaded, Wanted
<1>7. Loaded'
  BY <1>1, <1>5, <1>6 DEF Loaded
<1>8. Offers'
  <2>1. twi.txIndex + 1 \in 1..Len(Due) /\ twi.txIndex < BufferLength
    BY <1>5, <1>6, WireAssumption
  <2>2. bus'.data = Due[twi.txIndex + 1]
    BY <1>1, <1>6, <2>1
  <2>3. twi'.txIndex - 1 = twi.txIndex
    BY <1>1, <1>6
  <2>4. peer'.asked = SubSeq(Due', 1, twi.txIndex)
    BY <1>1, <1>4, <1>5 DEF Wanted, Taken
  <2>5. bus'.ea => twi'.txIndex < Len(Due)
    BY <1>1, <1>2, <1>6
  <2> QED
    BY <1>1, <1>5, <2>2, <2>3, <2>4, <2>5 DEF Offers, Taken
<1>9. \E n \in 0..Len(Due') : Taken(n)'
  BY <1>4, <1>5
<1> QED
  BY <1>1, <1>3, <1>4, <1>7, <1>8, <1>9 DEF Sends

LEMMA ForeignTakesServes ==
  ASSUME Shapes, Control, SlaveIdles, Sends, ForeignTakes
  PROVE  SlaveIdles' /\ Sends'
<1>0. CASE peer.unseen
  <2>1. /\ UNCHANGED <<twi, wire, sketch>> /\ peer'.replied = peer.replied
        /\ peer'.foreign = peer.foreign /\ peer'.unseen = peer.unseen /\ bus'.sta = bus.sta
        /\ bus'.status \in {"ST_DATA_ACK", "ST_LAST_DATA", "ST_DATA_NACK"}
        /\ bus'.phase \in {"asked", "free"}
    BY DEF Shapes, BusFields, PeerFields, ForeignTakes, BusMoves, Signals
  <2> QED
    BY <1>0, <2>1 DEF SlaveIdles, Sends
<1> SUFFICES ASSUME ~peer.unseen PROVE SlaveIdles' /\ Sends'
  BY <1>0
<1>1. /\ bus.status = "none" /\ bus.phase = "asked" /\ UNCHANGED <<twi, wire, sketch>>
      /\ peer'.asked = Append(peer.asked, bus.data) /\ peer'.replied = peer.replied
      /\ peer'.foreign = peer.foreign /\ peer'.unseen = peer.unseen
      /\ \/ bus.ea /\ bus'.status = "ST_DATA_ACK" /\ bus'.phase = "asked"
         \/ bus'.status \in {"ST_LAST_DATA", "ST_DATA_NACK"} /\ bus'.phase = "free"
  BY DEF Shapes, BusFields, PeerFields, ForeignTakes, BusMoves, Signals
<1>2. bus'.sta = bus.sta
  BY DEF Shapes, BusFields, ForeignTakes, Signals
<1>3. SlaveIdles'
  BY <1>1, <1>2 DEF SlaveIdles
<1>4. Loaded /\ Offers /\ peer.replied \in Seq(RepliesOfTwi) /\ peer.foreign \in Nat
  BY <1>1 DEF Sends
<1>5. Due' = Due /\ Due \in Seq(RepliesOfTwi)
  BY <1>1, <1>4, DueIs DEF Due
<1>6. twi.txIndex \in 1..Len(Due) /\ bus.data = Due[twi.txIndex] /\ (bus.ea => twi.txIndex < Len(Due))
      /\ peer.asked = SubSeq(Due, 1, twi.txIndex - 1)
  BY <1>4 DEF Loaded, Offers, Taken
<1>7. Append(SubSeq(Due, 1, twi.txIndex - 1), Due[twi.txIndex]) = SubSeq(Due, 1, twi.txIndex)
  BY <1>5, <1>6, SubSeqNext
<1>8. Taken(twi.txIndex)'
  BY <1>1, <1>5, <1>6, <1>7 DEF Taken
<1>9. \E n \in 0..Len(Due') : Taken(n)'
  <2>1. peer'.asked = SubSeq(Due', 1, twi.txIndex) /\ twi.txIndex \in 0..Len(Due')
    BY <1>1, <1>5, <1>6, <1>7
  <2> QED
    BY <2>1 DEF Taken
<1>10. Loaded'
  BY <1>1, <1>4, <1>5 DEF Loaded
<1>11. bus.ea => Wanted'
  BY <1>1, <1>5, <1>6, <1>8 DEF Wanted
<1> QED
  BY <1>1, <1>3, <1>4, <1>9, <1>10, <1>11 DEF Sends

\* The other master asks: nothing is taken yet.
LEMMA ForeignAsksServes ==
  ASSUME Shapes, SlaveIdles, Sends, bus'.phase = "asked", peer'.asked = <<>>,
         peer'.unseen = FALSE, bus'.status \in {"ST_SLA_ACK", "ST_ARB_LOST_SLA_ACK"},
         bus'.sta = bus.sta, peer'.replied = peer.replied, peer'.foreign = peer.foreign + 1,
         UNCHANGED <<twi, wire, sketch>>
  PROVE  SlaveIdles' /\ Sends'
<1>1. SlaveIdles'
  BY DEF SlaveIdles
<1>2. Due' = Due /\ Due \in Seq(RepliesOfTwi)
  BY DueIs DEF Due, Sends
<1>3. \E n \in 0..Len(Due') : Taken(n)'
  <2>1. SubSeq(Due, 1, 0) = <<>> /\ 0 \in 0..Len(Due)
    BY <1>2
  <2> QED
    BY <1>2, <2>1 DEF Taken
<1>4. peer'.foreign \in Nat /\ peer'.replied \in Seq(RepliesOfTwi)
  BY DEF Sends
<1> QED
  BY <1>1, <1>3, <1>4 DEF Sends

\* The handler ends, and has not seen the request that came in meanwhile.
LEMMA SlaveStopDoneServes ==
  ASSUME Shapes, Stopped, SlaveIdles, Sends, SlaveStopDone
  PROVE  SlaveIdles' /\ Sends'
<1>1. /\ bus'.phase = bus.phase /\ bus'.status = "none" /\ ~bus'.sta /\ UNCHANGED <<wire, sketch>>
      /\ peer'.asked = peer.asked /\ peer'.replied = peer.replied /\ peer'.foreign = peer.foreign
      /\ (peer'.unseen <=> peer.unseen \/ bus.status = "ST_SLA_ACK")
  BY DEF Shapes, SlaveStopDone, twi_releaseBus, Reply, BusFields, PeerFields
<1>2. SlaveIdles'
  BY <1>1 DEF SlaveIdles
<1>3. bus.phase = "asked" => bus.status = "ST_SLA_ACK"
  BY DEF Stopped, In, SlaveStopDone
<1>4. Due' = Due /\ \A n : Taken(n)' <=> Taken(n)
  BY <1>1 DEF Due, Taken
<1> QED
  BY <1>1, <1>2, <1>3, <1>4 DEF Sends

LEMMA BusServes ==
  ASSUME Shapes, Control, SlaveIdles, Sends, Bus
  PROVE  NotAsked \/ (SlaveIdles' /\ Sends')
<1> USE DEF Shapes, BusFields, PeerFields, BusMoves, Signals, SignalsByte
<1>1. CASE OurStart \/ OurAddress \/ OurByte \/ DeviceByte \/ ForeignWins
  BY <1>1 DEF OurStart, OurAddress, OurByte, DeviceByte, ForeignWins, SlaveIdles
<1>2. CASE ForeignStop
  BY <1>2 DEF ForeignStop, SlaveIdles, NotAsked
<1>3. CASE ForeignByte
  BY <1>3 DEF ForeignByte, SlaveIdles, NotAsked
<1>4. CASE BusError
  BY <1>4 DEF BusError, SlaveIdles, NotAsked
<1>5. CASE ForeignTakes
  BY <1>5, ForeignTakesServes
<1>6. CASE ForeignStart
  <2>1. CASE Addressing("SR_SLA_ACK")
    BY <1>6, <2>1 DEF ForeignStart, Addressing, SlaveIdles, NotAsked
  <2>2. CASE Addressing("ST_SLA_ACK")
    BY <1>6, <2>2, ForeignAsksServes DEF ForeignStart, Addressing
  <2> QED
    BY <1>6, <2>1, <2>2 DEF ForeignStart
<1> QED
  BY <1>1, <1>2, <1>3, <1>4, <1>5, <1>6, Zenon DEF Bus, BusGoesOn

LEMMA ServesKept ==
  ASSUME Shapes, Control, Stopped, Serves, [WireNext]_wireVars, sketch'.role = sketch.role
  PROVE  Serves'
<1> SUFFICES ASSUME sketch.role = "slave" PROVE Serves'
  BY DEF Serves
<1>1. SlaveIdles /\ Sends
  BY DEF Serves
<1>2. (SlaveIdles' /\ Sends') => Serves'
  BY DEF Serves
<1>3. CASE TWI_vect
  BY <1>1, <1>2, <1>3, HandlerNotAsked, NotAskedServes, SlaveAskedServes, SlaveSendServes,
     SlaveStopDoneServes, Zenon
<1>4. CASE Bus
  BY <1>1, <1>2, <1>4, BusServes, NotAskedServes, Zenon
<1>5. CASE read
  <2>1. NotAsked
    BY <1>1, <1>5 DEF Shapes, WireFields, read, SlaveIdles, NotAsked
  <2> QED
    BY <2>1, NotAskedServes
<1>6. CASE SketchCalls /\ ~read
  BY <1>1, <1>6 DEF SketchCalls, SketchGoesOn, beginTransmission, write, endTransmission, requestFrom,
     SeesReady, WriteSetsUp, ReadSetsUp, Starts, WriteEnds, ReadCopies, ReadEnds, Calls, Runs, SlaveIdles
<1>7. CASE UNCHANGED wireVars
  <2>1. NotAsked
    BY <1>1, <1>7 DEF wireVars, SlaveIdles, NotAsked
  <2> QED
    BY <2>1, NotAskedServes
<1> QED
  BY <1>3, <1>4, <1>5, <1>6, <1>7, Zenon DEF WireNext, SketchCalls, Bus

-----------------------------------------------------------------------------
(* The transfers of this node, while the other master leaves it alone *)

Messages == {<<"message", n>> : n \in Nat}
DeviceBytes == {<<"device", n>> : n \in Nat}
Same(buffer, s) == \A k \in 1..Len(s) : buffer[k] = s[k]

\* The bus is not in use, or held for the next call; nothing is asked of it.
Idles ==
  /\ bus.phase \in {"free", "held"} /\ bus.status \in {"none", "REP_START"}
  /\ ~bus.sta /\ ~twi.handling
Rests == Idles /\ twi.state = "READY"

\* The handler is not to call the sketch's onRequest.
Unasked == bus.status \notin {"ST_SLA_ACK", "ST_ARB_LOST_SLA_ACK"}

\* The bytes written so far are in the transmit buffer.
Put == wire.txLength = Len(sketch.wrote) /\ Len(sketch.wrote) <= BufferLength /\ Same(wire.tx, sketch.wrote)
\* A transmission is set up in twi.c, or a read is.
WriteIsSet ==
  /\ ~twi.handling /\ twi.state = "MTX" /\ twi.error = "none" /\ twi.slarw = Address("MTX")
  /\ twi.length = Len(sketch.wrote) /\ Same(twi.buffer, sketch.wrote)
ReadIsSet ==
  /\ ~twi.handling /\ twi.state = "MRX" /\ twi.slarw = Address("MRX")
  /\ sketch.length \in 1..BufferLength /\ twi.length = sketch.length - 1

\* The address is not out, or the bus has failed.
Outset ==
  \/ bus.phase = "free" /\ bus.status = "BUS_ERROR"
  \/ bus.phase = "free" /\ bus.status = "none" /\ twi.index = 0
  \/ bus.phase = "started" /\ twi.index = 0 /\ (bus.status = "none" => bus.data = twi.slarw)

\* The device has the first n bytes; twi.c has the n bytes the device gave.
GotTo(n) == n \in 0..Len(sketch.wrote) /\ peer.got = SubSeq(sketch.wrote, 1, n)
GaveTo(n) == n \in 0..sketch.length /\ Len(peer.gave) = n /\ Same(twi.buffer, peer.gave)
Came == twi.index = 0 \/ GaveTo(twi.index)

\* A byte the device gave waits for the handler.
Pending ==
  /\ twi.index \in Nat /\ Len(peer.gave) = twi.index + 1 /\ bus.data = peer.gave[twi.index + 1]
  /\ \A k \in 1..twi.index : twi.buffer[k] = peer.gave[k]

\* Where a call is, and what holds there.
Idle ==
  /\ sketch.pc = "idle" /\ Rests
  /\ sketch.result = "written" => peer.got = sketch.wrote
  /\ sketch.result = "read" /\ wire.rxIndex < wire.rxLength =>
       Len(peer.gave) = wire.rxLength /\ Same(wire.rx, peer.gave)
Filling == sketch.pc = "filling" /\ Unasked /\ Put
WriteWaits ==
  sketch.pc = "wait" /\ sketch.kind = "MTX" /\ Unasked /\ Put /\ sketch.length = wire.txLength
ReadWaits == sketch.pc = "wait" /\ sketch.kind = "MRX" /\ sketch.length \in 1..BufferLength
Writing ==
  sketch.pc = "set" /\ sketch.kind = "MTX" /\ Rests /\ Put /\ sketch.length = wire.txLength
Reading ==
  sketch.pc = "set" /\ sketch.kind = "MRX" /\ Rests /\ sketch.length \in 1..BufferLength
WriteStarts == sketch.pc = "start" /\ sketch.kind = "MTX" /\ Idles /\ WriteIsSet /\ twi.index = 0
ReadStarts == sketch.pc = "start" /\ sketch.kind = "MRX" /\ Idles /\ ReadIsSet /\ twi.index = 0
Sending ==
  /\ sketch.pc = "busy" /\ sketch.kind = "MTX" /\ WriteIsSet
  /\ \/ Outset
     \/ /\ bus.phase = "sending"
        /\ bus.status \in {"MT_SLA_ACK", "MT_DATA_ACK"} => GotTo(twi.index)
        /\ bus.status = "none" =>
             /\ twi.index \in 1..Len(sketch.wrote) /\ GotTo(twi.index - 1)
             /\ bus.data = sketch.wrote[twi.index]
Receiving ==
  /\ sketch.pc = "busy" /\ sketch.kind = "MRX" /\ ReadIsSet
  /\ \/ Outset /\ (bus.status = "BUS_ERROR" => Came)
     \/ /\ bus.phase = "receiving"
        /\ bus.status \in {"MR_SLA_ACK", "MR_SLA_NACK"} => twi.index = 0
        /\ bus.status = "MR_SLA_ACK" => peer.gave = <<>>
        /\ bus.status = "none" =>
             GaveTo(twi.index) /\ twi.index <= twi.length /\ (bus.ea => twi.index < twi.length)
        /\ bus.status = "MR_DATA_ACK" => Pending /\ twi.index < twi.length
        /\ bus.status = "MR_DATA_NACK" => Pending /\ twi.index <= twi.length
SentOnBus ==
  /\ sketch.pc = "busy" /\ sketch.kind = "MTX" /\ Rests
  /\ twi.error = "none" => peer.got = sketch.wrote
Fetched ==
  sketch.pc = "busy" /\ sketch.kind = "MRX" /\ Rests /\ sketch.length \in 1..BufferLength /\ Came
Copied ==
  /\ sketch.pc = "copied" /\ Rests /\ sketch.length \in Nat
  /\ 0 < sketch.length => Len(peer.gave) = sketch.length /\ Same(wire.rx, peer.gave)

Stages ==
  \/ Idle \/ Filling \/ WriteWaits \/ ReadWaits \/ Writing \/ Reading \/ WriteStarts \/ ReadStarts
  \/ Sending \/ Receiving \/ SentOnBus \/ Fetched \/ Copied
Basics ==
  /\ sketch.calls \in Nat /\ sketch.wrote \in Seq(Messages) /\ peer.gave \in Seq(DeviceBytes)
  /\ peer.foreign \in Nat /\ sketch.since \in Int /\ sketch.since <= peer.foreign
Master == Basics /\ (Alone => Stages)

-----------------------------------------------------------------------------

LEMMA BasicsKept ==
  Shapes /\ Control /\ Hears /\ Basics /\ [WireNext]_wireVars => Basics'
<1> SUFFICES ASSUME Shapes, Control, Hears, Basics, [WireNext]_wireVars PROVE Basics'
  OBVIOUS
<1> USE DEF Shapes, WireFields, SketchFields, PeerFields
<1>1. CASE TWI_vect
  <2>1. UNCHANGED <<sketch, peer.gave, peer.foreign>>
    BY <1>1 DEF TWI_vect, StartSent, MasterSend, MasterRefused, ArbitrationLost, MasterReceive,
       MasterReceiveLast, MasterReceiveRefused, SlaveAddressed, SlaveReceive, SlaveRefuses,
       SlaveStop, SlaveStopDone, SlaveAsked, SlaveSend, SlaveSent, BusErrorSeen
  <2> QED
    BY <2>1 DEF Basics
<1>4. CASE SketchCalls
  <2>1. UNCHANGED <<peer>>
    BY <1>4 DEF SketchCalls, SketchGoesOn, beginTransmission, write, endTransmission, requestFrom, read,
       SeesReady, WriteSetsUp, ReadSetsUp, Starts, WriteEnds, ReadCopies, ReadEnds
  <2>2. CASE beginTransmission \/ requestFrom
    <3>1. sketch'.calls = sketch.calls + 1 /\ sketch'.since = peer.foreign
          /\ sketch'.wrote \in {<<>>, sketch.wrote}
      BY <2>2, ZenonT(30) DEF beginTransmission, requestFrom
    <3>2. sketch'.wrote \in Seq(Messages)
      <4>1. <<>> \in Seq(Messages) /\ sketch.wrote \in Seq(Messages)
        BY DEF Basics
      <4> QED
        BY <3>1, <4>1, Zenon
    <3>3. sketch'.calls \in Nat
      BY <3>1 DEF Basics
    <3> QED
      BY <2>1, <3>1, <3>2, <3>3 DEF Basics
  <2>3. CASE write
    <3>1. sketch'.calls = sketch.calls /\ sketch'.since = sketch.since
          /\ sketch'.wrote = Append(sketch.wrote, <<"message", sketch.calls>>)
      BY <2>3 DEF write
    <3>2. <<"message", sketch.calls>> \in Messages
      BY DEF Basics, Messages
    <3> QED
      BY <2>1, <3>1, <3>2 DEF Basics
  <2>4. CASE read
    <3>1. UNCHANGED sketch
      BY <2>4 DEF read
    <3> QED
      BY <2>1, <3>1 DEF Basics
  <2>5. CASE SeesReady
    <3>1. sketch'.calls = sketch.calls /\ sketch'.wrote = sketch.wrote 
          /\ sketch'.since \in {sketch.since, -1}
      BY <2>5 DEF SeesReady
    <3> QED
      BY <2>1, <3>1 DEF Basics
  <2>6. CASE \/ endTransmission \/ WriteSetsUp \/ ReadSetsUp \/ Starts \/ WriteEnds
             \/ ReadCopies \/ ReadEnds
    <3>1. UNCHANGED <<sketch.calls, sketch.wrote, sketch.since>>
      BY <2>6, ZenonT(30) DEF endTransmission, WriteSetsUp, ReadSetsUp, Starts, WriteEnds, ReadCopies,
         ReadEnds, Goes
    <3> QED
      BY <2>1, <3>1 DEF Basics
  <2> QED
    BY <1>4, <2>2, <2>3, <2>4, <2>5, <2>6, Zenon DEF SketchCalls, SketchGoesOn
<1>5. CASE Bus
  <2>1. UNCHANGED <<wire, sketch>>
    BY <1>5 DEF Bus, BusGoesOn, OurStart, OurAddress, OurByte, DeviceByte, ForeignStop, ForeignTakes,
       ForeignStart, ForeignWins, ForeignByte, BusError
  <2>2. peer'.foreign \in {peer.foreign, peer.foreign + 1}
    BY <1>5 DEF Bus, BusGoesOn, OurStart, OurAddress, OurByte, DeviceByte, ForeignStop, ForeignTakes,
       ForeignStart, ForeignWins, ForeignByte, BusError, Addressing
  <2>3. peer'.gave \in {peer.gave, <<>>, Append(peer.gave, <<"device", Len(peer.gave) + 1>>)}
    BY <1>5 DEF Bus, BusGoesOn, OurStart, OurAddress, OurByte, DeviceByte, ForeignStop, ForeignTakes,
       ForeignStart, ForeignWins, ForeignByte, BusError, Addressing
  <2>4. <<"device", Len(peer.gave) + 1>> \in DeviceBytes
    BY DEF Basics, DeviceBytes
  <2>5. peer'.gave \in Seq(DeviceBytes)
    <3>1. peer.gave \in Seq(DeviceBytes) /\ <<>> \in Seq(DeviceBytes)
      BY DEF Basics
    <3>2. Append(peer.gave, <<"device", Len(peer.gave) + 1>>) \in Seq(DeviceBytes)
      BY <2>4, <3>1, AppendProperties
    <3> QED
      BY <2>3, <3>1, <3>2, Zenon
  <2>6. peer'.foreign \in Nat /\ sketch.since <= peer'.foreign
    BY <2>2 DEF Basics
  <2> QED
    BY <2>1, <2>5, <2>6 DEF Basics
<1>6. CASE UNCHANGED wireVars
  BY <1>6 DEF wireVars, Basics
<1> QED
  BY <1>1, <1>4, <1>5, <1>6, Zenon DEF WireNext, SketchCalls, Bus

\* Who is alone after a step was so before it, unless a call begins; and the
\* other master has not addressed the node.
LEMMA AloneBefore ==
  ASSUME Shapes, Basics, [WireNext]_wireVars, ~beginTransmission, ~requestFrom, Alone'
  PROVE  Alone /\ ~ForeignStart /\ ~ForeignWins
<1>1. peer.foreign \in Nat /\ sketch.since \in Int /\ sketch.since <= peer.foreign
      /\ peer'.foreign = sketch'.since
  BY DEF Basics, Alone
<1>2. ~ForeignStart /\ ~ForeignWins
  <2>1. ForeignStart \/ ForeignWins => peer'.foreign = peer.foreign + 1 /\ sketch' = sketch
    BY DEF Shapes, PeerFields, ForeignStart, ForeignWins, Addressing
  <2> QED
    BY <1>1, <2>1
<1>3. peer'.foreign = peer.foreign
  <2>1. CASE TWI_vect
    BY <2>1 DEF Shapes, PeerFields, TWI_vect, StartSent, MasterSend, MasterRefused, ArbitrationLost,
       MasterReceive, MasterReceiveLast, MasterReceiveRefused, SlaveAddressed, SlaveReceive, SlaveRefuses,
       SlaveStop, SlaveStopDone, SlaveAsked, SlaveSend, SlaveSent, BusErrorSeen
  <2>2. CASE SketchCalls
    BY <2>2 DEF SketchCalls, SketchGoesOn, beginTransmission, write, endTransmission, requestFrom, read,
       SeesReady, WriteSetsUp, ReadSetsUp, Starts, WriteEnds, ReadCopies, ReadEnds
  <2>3. CASE Bus
    BY <1>2, <2>3 DEF Shapes, PeerFields, Bus, BusGoesOn, OurStart, OurAddress, OurByte, DeviceByte,
       ForeignStop, ForeignTakes, ForeignByte, BusError
  <2>4. CASE UNCHANGED wireVars
    BY <2>4 DEF wireVars
  <2> QED
    BY <2>1, <2>2, <2>3, <2>4, Zenon DEF WireNext, SketchCalls, Bus
<1>4. sketch'.since \in {sketch.since, -1}
  <2>1. CASE TWI_vect
    BY <2>1 DEF TWI_vect, StartSent, MasterSend, MasterRefused, ArbitrationLost,
       MasterReceive, MasterReceiveLast, MasterReceiveRefused, SlaveAddressed, SlaveReceive, SlaveRefuses,
       SlaveStop, SlaveStopDone, SlaveAsked, SlaveSend, SlaveSent, BusErrorSeen
  <2>2. CASE SketchCalls
    BY <2>2 DEF Shapes, SketchFields, SketchCalls, SketchGoesOn, write, endTransmission, read,
       SeesReady, WriteSetsUp, ReadSetsUp, Starts, WriteEnds, ReadCopies, ReadEnds, Goes
  <2>3. CASE Bus \/ UNCHANGED wireVars
    BY <2>3 DEF Bus, BusGoesOn, OurStart, OurAddress, OurByte, DeviceByte, ForeignStop, ForeignTakes,
       ForeignStart, ForeignWins, ForeignByte, BusError, wireVars
  <2> QED
    BY <2>1, <2>2, <2>3, Zenon DEF WireNext, SketchCalls, Bus
<1> QED
  BY <1>1, <1>2, <1>3, <1>4 DEF Alone

LEMMA OnlyCalls ==
  ASSUME Shapes, Control, Idles, ~ForeignStart, [WireNext]_wireVars
  PROVE  SketchCalls \/ UNCHANGED wireVars
<1>1. ~TWI_vect
  BY DEF Idles, TWI_vect, StartSent, MasterSend, MasterRefused, ArbitrationLost, MasterReceive,
         MasterReceiveLast, MasterReceiveRefused, SlaveAddressed, SlaveReceive, SlaveRefuses, SlaveStop,
         SlaveStopDone, SlaveAsked, SlaveSend, SlaveSent, BusErrorSeen, Interrupted
<1>2. ~(OurStart \/ OurAddress \/ OurByte \/ DeviceByte \/ ForeignStop \/ ForeignTakes)
  BY DEF Idles, OurStart, OurAddress, OurByte, DeviceByte, ForeignStop, ForeignTakes, BusMoves
<1>3. ~(ForeignWins \/ ForeignByte \/ BusError)
  BY DEF Idles, ForeignWins, ForeignByte, BusError, BusMoves
<1> QED
  BY <1>1, <1>2, <1>3, Zenon DEF WireNext, BusGoesOn, SketchCalls

\* The calls that can go on from a place.
LEMMA CallsByPlace ==
  ASSUME SketchCalls
  PROVE  \/ sketch.pc = "idle" /\ (beginTransmission \/ requestFrom \/ read)
         \/ sketch.pc = "filling" /\ (write \/ endTransmission)
         \/ sketch.pc = "wait" /\ SeesReady
         \/ sketch.pc = "set" /\ (WriteSetsUp \/ ReadSetsUp)
         \/ sketch.pc = "start" /\ Starts
         \/ sketch.pc = "busy" /\ (WriteEnds \/ ReadCopies)
         \/ sketch.pc = "copied" /\ ReadEnds
<1>1. beginTransmission \/ requestFrom \/ read => sketch.pc = "idle"
  BY DEF beginTransmission, requestFrom, read, Calls, Runs
<1>2. write \/ endTransmission => sketch.pc = "filling"
  BY DEF write, endTransmission, Runs
<1>3. (SeesReady => sketch.pc = "wait") /\ (WriteSetsUp \/ ReadSetsUp => sketch.pc = "set")
  BY DEF SeesReady, WriteSetsUp, ReadSetsUp, Runs
<1>4. (Starts => sketch.pc = "start") /\ (ReadEnds => sketch.pc = "copied")
  BY DEF Starts, ReadEnds, Runs
<1>5. WriteEnds \/ ReadCopies => sketch.pc = "busy"
  BY DEF WriteEnds, ReadCopies, Runs
<1> QED
  BY <1>1, <1>2, <1>3, <1>4, <1>5, Zenon DEF SketchCalls, SketchGoesOn

LEMMA StutterStages == Stages /\ UNCHANGED wireVars => Stages'
<1> SUFFICES ASSUME Stages, UNCHANGED wireVars PROVE Stages'
  OBVIOUS
<1>1. UNCHANGED <<twi, wire, bus, sketch, peer>>
  BY DEF wireVars
<1>2. Idles' = Idles /\ Rests' = Rests /\ Unasked' = Unasked /\ Put' = Put /\ WriteIsSet' = WriteIsSet /\ ReadIsSet' = ReadIsSet
      /\ Outset' = Outset /\ Came' = Came /\ Pending' = Pending
      /\ GotTo(twi.index)' = GotTo(twi.index) /\ GotTo(twi.index - 1)' = GotTo(twi.index - 1)
      /\ GaveTo(twi.index)' = GaveTo(twi.index)
  BY <1>1, Zenon DEF Idles, Rests, Unasked, Put, WriteIsSet, ReadIsSet, Outset, Came, Pending, GotTo, GaveTo, Same
<1>3. Idle' = Idle /\ Filling' = Filling /\ WriteWaits' = WriteWaits /\ ReadWaits' = ReadWaits
      /\ Writing' = Writing /\ Reading' = Reading
  BY <1>1, <1>2, Zenon DEF Idle, Filling, WriteWaits, ReadWaits, Writing, Reading, Same
<1>4. WriteStarts' = WriteStarts /\ ReadStarts' = ReadStarts /\ Sending' = Sending
      /\ Receiving' = Receiving
  BY <1>1, <1>2, Zenon DEF WriteStarts, ReadStarts, Sending, Receiving
<1>5. SentOnBus' = SentOnBus /\ Fetched' = Fetched /\ Copied' = Copied
  BY <1>1, <1>2, Zenon DEF SentOnBus, Fetched, Copied, Same
<1> QED
  BY <1>3, <1>4, <1>5, Zenon DEF Stages

LEMMA FilledHas ==
  ASSUME NEW buffer, NEW bytes, Len(bytes) \in 0..BufferLength
  PROVE  \A k \in 1..Len(bytes) : Filled(buffer, bytes)[k] = bytes[k]
BY WireAssumption DEF Filled

LEMMA FilledIsWhole == ASSUME NEW buffer, NEW bytes PROVE Whole(Filled(buffer, bytes))
BY DEF Whole, Filled

LEMMA CallBegins ==
  ASSUME Shapes, Control, beginTransmission \/ requestFrom
  PROVE  Stages'
<1> USE DEF Shapes, SketchFields, WireFields
<1>1. CASE beginTransmission
  <2>1. /\ sketch'.pc = "filling" /\ sketch'.wrote = <<>> /\ wire'.txLength = 0
        /\ UNCHANGED <<twi, bus, peer>>
    BY <1>1 DEF beginTransmission
  <2>2. Unasked'
    BY <1>1, <2>1 DEF Control, In, Unasked, beginTransmission, Calls, Runs
  <2>3. Put'
    BY <2>1, WireAssumption DEF Put, Same
  <2> QED
    BY <2>1, <2>2, <2>3 DEF Stages, Filling
<1>2. CASE requestFrom
  <2>1. PICK quantity \in 1..BufferLength + 1, stop \in BOOLEAN :
          sketch' = [sketch EXCEPT !.pc = "wait", !.kind = "MRX", !.calls = @ + 1, !.stop = stop,
                                   !.length = Least(quantity, BufferLength),
                                   !.since = peer.foreign]
    BY <1>2 DEF requestFrom
  <2>2. sketch'.pc = "wait" /\ sketch'.kind = "MRX" /\ sketch'.length = Least(quantity, BufferLength)
    BY <2>1
  <2>3. Least(quantity, BufferLength) \in 1..BufferLength
    BY WireAssumption DEF Least
  <2> QED
    BY <2>2, <2>3 DEF Stages, ReadWaits
<1> QED
  BY <1>1, <1>2

LEMMA IdleGoesOn == Shapes /\ Idle /\ read => Stages'
<1> SUFFICES ASSUME Shapes, Idle, read PROVE Stages'
  OBVIOUS
<1>1. /\ wire'.rxLength = wire.rxLength /\ wire'.rx = wire.rx
      /\ UNCHANGED <<twi, bus, sketch, peer>> /\ wire.rxIndex < wire.rxLength
  BY DEF Shapes, WireFields, read
<1>2. Rests'
  BY <1>1 DEF Idle, Rests, Idles
<1>3. sketch'.result = "read" => Len(peer'.gave) = wire'.rxLength /\ Same(wire.rx, peer.gave)
  BY <1>1 DEF Idle
<1>4. Idle'
  BY <1>1, <1>2, <1>3 DEF Idle, Same
<1> QED
  BY <1>4 DEF Stages

LEMMA FillingGoesOn ==
  ASSUME Shapes, Buffers, Basics, Filling, write \/ endTransmission
  PROVE  Stages'
<1> USE DEF Shapes, SketchFields, WireFields
<1>1. CASE write
  <2> DEFINE byte == <<"message", sketch.calls>>
  <2>1. /\ sketch'.pc = sketch.pc /\ sketch'.calls = sketch.calls
        /\ sketch'.wrote = Append(sketch.wrote, byte)
        /\ wire'.txLength = wire.txLength + 1 /\ wire'.rxIndex = wire.rxIndex
        /\ wire'.rxLength = wire.rxLength /\ wire.txLength < BufferLength
        /\ UNCHANGED <<twi, bus, peer>>
    BY <1>1 DEF write
  <2>2. wire'.tx = [wire.tx EXCEPT ![wire.txLength + 1] = byte]
    BY <1>1 DEF write
  <2>3. byte \in Messages
    BY DEF Basics, Messages
  <2> HIDE DEF byte
  <2>4. sketch'.wrote \in Seq(Messages) /\ Len(sketch'.wrote) = Len(sketch.wrote) + 1
        /\ sketch'.wrote[Len(sketch.wrote) + 1] = byte /\ Len(sketch.wrote) \in Nat
        /\ \A k \in 1..Len(sketch.wrote) : sketch'.wrote[k] = sketch.wrote[k]
    BY <2>1, <2>3 DEF Basics
  <2>5. Unasked'
    BY <2>1 DEF Filling, Unasked
  <2>6. Put'
    <3>1. wire.txLength = Len(sketch.wrote) /\ Same(wire.tx, sketch.wrote)
      BY DEF Filling, Put
    <3>2. Len(sketch'.wrote) <= BufferLength
      BY <2>1, <2>4, <3>1, WireAssumption
    <3>3. ASSUME NEW k \in 1..Len(sketch'.wrote)
          PROVE  wire'.tx[k] = sketch'.wrote[k]
      <4>1. k \in 1..BufferLength /\ wire.tx = [m \in 1..BufferLength |-> wire.tx[m]]
        BY <2>4, <3>1, <3>2, WireAssumption DEF Buffers, Whole
      <4>2. CASE k = wire.txLength + 1
        BY <2>2, <2>4, <3>1, <4>1, <4>2
      <4>3. CASE k # wire.txLength + 1
        BY <2>2, <2>4, <3>1, <4>1, <4>3 DEF Same
      <4> QED
        BY <4>2, <4>3
    <3> QED
      BY <2>1, <2>4, <3>1, <3>2, <3>3 DEF Put, Same
  <2> QED
    BY <2>1, <2>5, <2>6 DEF Stages, Filling
<1>2. CASE endTransmission
  <2>1. /\ sketch'.pc = "wait" /\ sketch'.kind = "MTX" /\ sketch'.length = wire.txLength
        /\ sketch'.wrote = sketch.wrote /\ sketch'.calls = sketch.calls
        /\ UNCHANGED <<twi, wire, bus, peer>>
    BY <1>2, ZenonT(60) DEF endTransmission
  <2>2. Unasked' /\ Put'
    BY <2>1, SMTT(20) DEF Filling, Unasked, Put, Same
  <2> QED
    BY <2>1, <2>2 DEF Stages, WriteWaits
<1> QED
  BY <1>1, <1>2

\* The handler and the bus have nothing to do with a call that has not begun
\* its transfer.
LEMMA WaitingStays ==
  ASSUME Shapes, Filling \/ WriteWaits \/ ReadWaits, ~ForeignStart, ~ForeignWins, TWI_vect \/ Bus
  PROVE  Stages'
<1>1. sketch' = sketch
  <2>1. TWI_vect => sketch' = sketch
    BY DEF TWI_vect, StartSent, MasterSend, MasterRefused, ArbitrationLost,
       MasterReceive, MasterReceiveLast, MasterReceiveRefused, SlaveAddressed, SlaveReceive, SlaveRefuses,
       SlaveStop, SlaveStopDone, SlaveAsked, SlaveSend, SlaveSent, BusErrorSeen
  <2>2. Bus => sketch' = sketch
    BY DEF Bus, BusGoesOn, OurStart, OurAddress, OurByte, DeviceByte, ForeignStop, ForeignTakes,
       ForeignStart, ForeignWins, ForeignByte, BusError
  <2> QED
    BY <2>1, <2>2
<1>2. CASE ReadWaits
  BY <1>1, <1>2 DEF ReadWaits, Stages
<1>3. CASE Filling \/ WriteWaits
  <2>1. Unasked /\ Put
    BY <1>3 DEF Filling, WriteWaits
  <2>2. CASE TWI_vect
    <3>1. ~SlaveAsked
      BY <2>1 DEF Unasked, SlaveAsked, Interrupted
    <3>2. UNCHANGED <<wire.tx, wire.txLength>>
      BY <2>2, <3>1 DEF Shapes, WireFields, TWI_vect, StartSent, MasterSend, MasterRefused,
         ArbitrationLost, MasterReceive, MasterReceiveLast, MasterReceiveRefused, SlaveAddressed,
         SlaveReceive, SlaveRefuses, SlaveStop, SlaveStopDone, SlaveSend, SlaveSent, BusErrorSeen,
         onReceiveService
    <3>3. bus'.status \in {"none", "REP_START"}
      BY <2>2 DEF Shapes, BusFields, TWI_vect, StartSent, MasterSend, MasterRefused,
         ArbitrationLost, MasterReceive, MasterReceiveLast, MasterReceiveRefused, SlaveAddressed,
         SlaveReceive, SlaveRefuses, SlaveStop, SlaveStopDone, SlaveAsked, SlaveSend, SlaveSent,
         BusErrorSeen, Reply, ReplyWith, twi_releaseBus, twi_stop, HoldBus, EndOfTransfer
    <3> QED
      BY <1>1, <1>3, <2>1, <3>2, <3>3 DEF Stages, Filling, WriteWaits, Unasked, Put, Same
  <2>3. CASE Bus
    <3>1. wire' = wire
      BY <2>3 DEF Bus, BusGoesOn, OurStart, OurAddress, OurByte, DeviceByte, ForeignStop, ForeignTakes,
         ForeignStart, ForeignWins, ForeignByte, BusError
    <3>2. Unasked'
      <4> USE DEF Shapes, BusFields, Signals, SignalsByte, Unasked
      <4>1. OurStart \/ OurByte \/ DeviceByte => Unasked'
        BY DEF OurStart, OurByte, DeviceByte
      <4>2. OurAddress => Unasked'
        BY DEF OurAddress
      <4>3. ForeignStop \/ ForeignByte \/ BusError => Unasked'
        BY DEF ForeignStop, ForeignByte, BusError
      <4>4. ForeignTakes => Unasked'
        <5>1. ForeignTakes => bus'.status \in {"ST_DATA_ACK", "ST_LAST_DATA", "ST_DATA_NACK"}
          BY DEF ForeignTakes
        <5> QED
          BY <5>1
      <4> QED
        BY <2>3, <4>1, <4>2, <4>3, <4>4, Zenon DEF Bus, BusGoesOn
    <3> QED
      BY <1>1, <1>3, <2>1, <3>1, <3>2 DEF Stages, Filling, WriteWaits, Put, Same
  <2> QED
    BY <2>2, <2>3
<1> QED
  BY <1>2, <1>3

LEMMA WaitGoesOn ==
  ASSUME Shapes, Control, Basics, WriteWaits \/ ReadWaits, SeesReady, Alone'
  PROVE  Stages'
<1>1. sketch'.pc = "set" /\ sketch'.kind = sketch.kind /\ sketch'.length = sketch.length
      /\ sketch'.wrote = sketch.wrote /\ UNCHANGED <<twi, wire, bus, peer>>
      /\ sketch'.since = IF bus.phase \in {"free", "held"} /\ ~bus.sta THEN sketch.since ELSE -1
  BY DEF Shapes, SketchFields, SeesReady
<1>2. bus.phase \in {"free", "held"} /\ ~bus.sta
  BY <1>1 DEF Alone, Basics
<1>3. ~twi.handling /\ twi.state = "READY" /\ bus.status \in {"none", "REP_START"}
  BY <1>2 DEF SeesReady, Runs, Control, In
<1>4. Rests'
  BY <1>1, <1>2, <1>3 DEF Rests, Idles
<1>5. WriteWaits => Writing'
  BY <1>1, <1>4 DEF WriteWaits, Writing, Put, Same
<1>6. ReadWaits => Reading'
  BY <1>1, <1>4 DEF ReadWaits, Reading
<1> QED
  BY <1>5, <1>6 DEF Stages

LEMMA SetGoesOn ==
  ASSUME Shapes, Basics, Writing \/ Reading, WriteSetsUp \/ ReadSetsUp
  PROVE  Stages'
<1> USE DEF Shapes, SketchFields, TwiFields
<1>1. sketch'.pc = "start" /\ sketch'.kind = sketch.kind /\ sketch'.length = sketch.length
      /\ sketch'.wrote = sketch.wrote /\ sketch'.calls = sketch.calls
      /\ twi'.handling = twi.handling /\ UNCHANGED <<wire, bus, peer>>
  BY DEF WriteSetsUp, ReadSetsUp, Goes
<1>3. Idles'
  BY <1>1 DEF Writing, Reading, Rests, Idles
<1>4. CASE WriteSetsUp
  <2>1. Writing
    BY <1>4 DEF WriteSetsUp, Reading
  <2>2. /\ ~twi'.handling /\ twi'.state = "MTX" /\ twi'.error = "none" /\ twi'.slarw = Address("MTX") /\ twi'.index = 0
        /\ twi'.length = sketch.length
        /\ twi'.buffer = Filled(twi.buffer, Prefix(wire.tx, sketch.length))
    BY <1>4 DEF WriteSetsUp, Runs
  <2>3. sketch.length = Len(sketch.wrote) /\ Len(sketch.wrote) \in 0..BufferLength /\ Same(wire.tx, sketch.wrote)
    BY <2>1, WireAssumption DEF Writing, Put, Basics
  <2>4. Len(Prefix(wire.tx, sketch.length)) = sketch.length
        /\ \A k \in 1..sketch.length : Prefix(wire.tx, sketch.length)[k] = wire.tx[k]
    BY <2>3 DEF Prefix
  <2>5. \A k \in 1..sketch.length : twi'.buffer[k] = wire.tx[k]
    <3> DEFINE p == Prefix(wire.tx, sketch.length)
    <3>1. twi'.buffer = Filled(twi.buffer, p) /\ Len(p) = sketch.length
          /\ \A k \in 1..sketch.length : p[k] = wire.tx[k]
      BY <2>2, <2>4
    <3> HIDE DEF p
    <3>2. Len(p) \in 0..BufferLength
      BY <2>3, <3>1
    <3>3. \A k \in 1..Len(p) : Filled(twi.buffer, p)[k] = p[k]
      BY <3>2, FilledHas
    <3> QED
      BY <3>1, <3>3, Zenon
  <2>6. Same(twi'.buffer, sketch'.wrote)
    BY <1>1, <2>3, <2>5 DEF Same
  <2>7. WriteIsSet'
    BY <1>1, <2>2, <2>3, <2>6 DEF WriteIsSet, Same
  <2> QED
    BY <1>1, <1>3, <2>1, <2>2, <2>7 DEF Stages, WriteStarts, Writing
<1>5. CASE ReadSetsUp
  <2>1. Reading
    BY <1>5 DEF ReadSetsUp, Writing
  <2>2. ~twi'.handling /\ twi'.state = "MRX" /\ twi'.slarw = Address("MRX") /\ twi'.index = 0
        /\ twi'.length = sketch.length - 1
    BY <1>5 DEF ReadSetsUp, Runs
  <2>3. ReadIsSet'
    BY <1>1, <2>1, <2>2 DEF ReadIsSet, Reading
  <2> QED
    BY <1>1, <1>3, <2>1, <2>2, <2>3 DEF Stages, ReadStarts, Reading
<1> QED
  BY <1>4, <1>5

LEMMA StartGoesOn ==
  ASSUME Shapes, Control, Basics, WriteStarts \/ ReadStarts, Starts
  PROVE  Stages'
<1> USE DEF Shapes, SketchFields, TwiFields, BusFields
<1>1. sketch'.pc = "busy" /\ sketch'.kind = sketch.kind /\ sketch'.length = sketch.length
      /\ sketch'.wrote = sketch.wrote /\ sketch'.calls = sketch.calls
      /\ UNCHANGED <<wire, peer>>
  BY DEF Starts, Goes
<1>2. /\ twi'.state = twi.state /\ twi'.error = twi.error /\ twi'.slarw = twi.slarw
      /\ twi'.index = twi.index /\ twi'.length = twi.length /\ twi'.buffer = twi.buffer
      /\ twi'.handling = twi.handling
  BY DEF Starts
<1>3. bus'.status = "none"
      /\ bus'.phase = (IF twi.inRepStart THEN "started" ELSE bus.phase)
      /\ bus'.data = (IF twi.inRepStart THEN twi.slarw ELSE bus.data)
  BY DEF Starts
<1>5. Outset'
  <2>1. twi.inRepStart \/ bus.phase = "free"
    BY DEF WriteStarts, ReadStarts, Idles, Control
  <2>2. twi.index = 0
    BY DEF WriteStarts, ReadStarts
  <2> QED
    BY <1>2, <1>3, <2>1, <2>2 DEF Outset
<1>6. WriteStarts => Sending'
  BY <1>1, <1>2, <1>5 DEF WriteStarts, Sending, WriteIsSet, Same
<1>7. ReadStarts => Receiving'
  BY <1>1, <1>2, <1>3, <1>5 DEF ReadStarts, Receiving, ReadIsSet
<1> QED
  BY <1>6, <1>7 DEF Stages

LEMMA SentGoesOn ==
  ASSUME Shapes, Basics, SentOnBus, WriteEnds
  PROVE  Stages'
<1>1. sketch'.pc = "idle" /\ sketch'.result = (IF twi.error = "none" THEN "written" ELSE "error")
      /\ sketch'.wrote = sketch.wrote /\ sketch'.calls = sketch.calls
      /\ wire'.rxIndex = wire.rxIndex /\ wire'.rxLength = wire.rxLength
      /\ UNCHANGED <<twi, bus, peer>>
  BY DEF Shapes, SketchFields, WireFields, WriteEnds
<1>3. Rests'
  BY <1>1 DEF SentOnBus, Rests, Idles
<1>4. Idle'
  BY <1>1, <1>3 DEF SentOnBus, Idle
<1> QED
  BY <1>4 DEF Stages

LEMMA FetchedGoesOn ==
  ASSUME Shapes, Basics, Fetched, ReadCopies
  PROVE  Stages'
<1> DEFINE n == Least(twi.index, sketch.length)
<1>1. /\ wire'.rx = Filled(wire.rx, Prefix(twi.buffer, n)) /\ wire'.rxIndex = wire.rxIndex
      /\ wire'.rxLength = wire.rxLength
      /\ sketch'.pc = "copied" /\ sketch'.length = n /\ sketch'.wrote = sketch.wrote
      /\ sketch'.calls = sketch.calls /\ UNCHANGED <<twi, bus, peer>>
  BY DEF Shapes, SketchFields, WireFields, ReadCopies
<1>3. Rests'
  BY <1>1 DEF Fetched, Rests, Idles
<1>4. n = twi.index /\ n \in 0..BufferLength /\ (n # 0 => GaveTo(n))
  BY WireAssumption DEF Fetched, Came, GaveTo, Least
<1> HIDE DEF n
<1>5. Len(Prefix(twi.buffer, n)) = n /\ \A k \in 1..n : Prefix(twi.buffer, n)[k] = twi.buffer[k]
  BY <1>4 DEF Prefix
<1>6. \A k \in 1..n : wire'.rx[k] = twi.buffer[k]
  BY <1>1, <1>4, <1>5, WireAssumption DEF Filled
<1>7. 0 < n => Len(peer.gave) = n /\ Same(wire'.rx, peer.gave)
  BY <1>4, <1>6 DEF GaveTo, Same
<1>8. Copied'
  <2> QED
    BY <1>1, <1>3, <1>4, <1>7 DEF Copied, Same
<1> QED
  BY <1>8 DEF Stages

LEMMA CopiedGoesOn ==
  ASSUME Shapes, Basics, Copied, ReadEnds
  PROVE  Stages'
<1>1. /\ wire'.rx = wire.rx /\ wire'.rxIndex = 0 /\ wire'.rxLength = sketch.length
      /\ sketch'.pc = "idle" /\ sketch'.result = "read" /\ sketch'.wrote = sketch.wrote
      /\ sketch'.calls = sketch.calls /\ UNCHANGED <<twi, bus, peer>>
  BY DEF Shapes, SketchFields, WireFields, ReadEnds
<1>3. Rests'
  BY <1>1 DEF Copied, Rests, Idles
<1>4. Idle'
  BY <1>1, <1>3 DEF Copied, Idle, Same
<1> QED
  BY <1>4 DEF Stages

LEMMA BuffersKept == Shapes /\ Buffers /\ [WireNext]_wireVars => Buffers'
<1> SUFFICES ASSUME Shapes, Buffers, [WireNext]_wireVars PROVE Buffers'
  OBVIOUS
<1> USE DEF Shapes, TwiFields, WireFields, Buffers
<1>1. CASE UNCHANGED <<twi.buffer, wire.tx>>
  BY <1>1 DEF Whole
<1>2. CASE MasterReceive \/ MasterReceiveLast
  <2>1. wire'.tx = wire.tx
    BY <1>2 DEF MasterReceive, MasterReceiveLast
  <2>2. twi'.buffer = twi.buffer \/ twi'.buffer = Received.buffer
    BY <1>2 DEF MasterReceive, MasterReceiveLast, EndOfTransfer, Received
  <2>3. Received.buffer = [k \in 1..BufferLength |-> IF k = twi.index + 1 THEN bus.data ELSE twi.buffer[k]]
    BY DEF Received, Whole
  <2>4. Whole(Received.buffer)
    BY <2>3 DEF Whole
  <2> QED
    BY <2>1, <2>2, <2>4 DEF Whole
<1>3. CASE SlaveAsked
  <2>1. twi'.buffer = twi.buffer
    BY <1>3 DEF SlaveAsked
  <2>2. PICK reply : wire' = IF sketch.registered THEN onRequestService(reply) ELSE wire
    BY <1>3 DEF SlaveAsked
  <2>3. wire'.tx = wire.tx \/ wire'.tx = Filled(wire.tx, reply)
    BY <2>2 DEF onRequestService
  <2>4. Whole(wire'.tx)
    BY <2>3, FilledIsWhole
  <2> QED
    BY <2>1, <2>4 DEF Whole
<1>4. CASE WriteSetsUp
  <2>1. twi'.buffer = Filled(twi.buffer, Prefix(wire.tx, sketch.length)) /\ wire' = wire
    BY <1>4 DEF WriteSetsUp
  <2>2. Whole(twi'.buffer)
    BY <2>1, FilledIsWhole
  <2> QED
    BY <2>1, <2>2
<1>5. CASE write
  <2>1. twi' = twi /\ wire'.tx = [wire.tx EXCEPT ![wire.txLength + 1] = <<"message", sketch.calls>>]
    BY <1>5 DEF write
  <2> QED
    BY <2>1 DEF Whole
<1>6. CASE StartSent \/ MasterSend \/ MasterRefused \/ ArbitrationLost \/ MasterReceiveRefused
           \/ SlaveAddressed \/ SlaveReceive \/ SlaveRefuses \/ SlaveStopDone
  BY <1>1, <1>6 DEF SlaveStopDone, StartSent, MasterSend, MasterRefused, ArbitrationLost, MasterReceiveRefused,
     SlaveAddressed, SlaveReceive, SlaveRefuses, EndOfTransfer
<1>7. CASE SlaveStop \/ SlaveSend \/ SlaveSent \/ BusErrorSeen
  BY <1>1, <1>7 DEF SlaveStop, SlaveSend, SlaveSent, BusErrorSeen, onReceiveService
<1>8. CASE beginTransmission \/ endTransmission \/ requestFrom \/ read \/ SeesReady \/ ReadSetsUp
           \/ Starts \/ WriteEnds \/ ReadCopies \/ ReadEnds
  BY <1>1, <1>8 DEF beginTransmission, endTransmission, requestFrom, read, SeesReady, ReadSetsUp,
     Starts, WriteEnds, ReadCopies, ReadEnds
<1>9. CASE Bus \/ UNCHANGED wireVars
  <2>1. UNCHANGED <<twi, wire>>
    BY <1>9 DEF Bus, BusGoesOn, OurStart, OurAddress, OurByte, DeviceByte, ForeignStop, ForeignTakes,
       ForeignStart, ForeignWins, ForeignByte, BusError, wireVars
  <2> QED
    BY <1>1, <2>1
<1> QED
  BY <1>2, <1>3, <1>4, <1>5, <1>6, <1>7, <1>8, <1>9, Zenon DEF WireNext, TWI_vect, SketchGoesOn, Bus

\* What may happen while a transfer of this node is under way.
LEMMA TransferActs ==
  ASSUME Shapes, Control, [WireNext]_wireVars, ~ForeignStart, ~ForeignWins,
         Sending \/ Receiving
  PROVE  \/ StartSent \/ MasterSend \/ MasterRefused \/ ArbitrationLost
         \/ MasterReceive \/ MasterReceiveLast \/ MasterReceiveRefused \/ BusErrorSeen
         \/ OurStart \/ OurAddress \/ OurByte \/ DeviceByte \/ BusError
         \/ UNCHANGED wireVars
<1>1. bus.phase \in {"free", "started", "sending", "receiving"} /\ sketch.pc = "busy"
      /\ (bus.phase = "free" => bus.status \in {"none", "BUS_ERROR"})
  BY DEF Sending, Receiving, Outset
<1>2. ~(SlaveAddressed \/ SlaveReceive \/ SlaveRefuses \/ SlaveStop \/ SlaveStopDone \/ SlaveAsked
        \/ SlaveSend \/ SlaveSent)
  BY <1>1 DEF Sending, Receiving, WriteIsSet, ReadIsSet, SlaveStopDone, Control, In, SlaveAddressed, SlaveReceive, SlaveRefuses, SlaveStop, SlaveAsked, SlaveSend,
              SlaveSent, Interrupted
<1>3. ~(ForeignStop \/ ForeignTakes \/ ForeignByte)
  BY <1>1 DEF ForeignStop, ForeignTakes, ForeignByte, BusMoves
<1>4. ~WriteEnds /\ ~ReadCopies
  BY DEF Sending, Receiving, WriteIsSet, ReadIsSet, WriteEnds, ReadCopies
<1>5. ~SketchCalls
  BY <1>1, <1>4, CallsByPlace
<1> QED
  BY <1>2, <1>3, <1>5, Zenon DEF WireNext, TWI_vect, BusGoesOn, SketchCalls

\* The end of a transfer: nothing of it is left on the bus.
LEMMA EndRests ==
  ASSUME Shapes, NEW t, EndOfTransfer(t), t = [f \in TwiFields |-> t[f]],
         ~t.handling, ~twi.handling
  PROVE  Rests' /\ twi'.index = t.index /\ twi'.error = t.error /\ twi'.buffer = t.buffer
<1>1. twi' = [t EXCEPT !.state = "READY", !.inRepStart = @ \/ ~t.sendStop]
  BY DEF EndOfTransfer
<1>2. ~twi'.handling /\ twi'.state = "READY" /\ twi'.index = t.index /\ twi'.error = t.error /\ twi'.buffer = t.buffer
  BY <1>1 DEF TwiFields
<1>3. bus' = twi_stop \/ bus' = HoldBus
  BY DEF EndOfTransfer
<1>4. Idles'
  BY <1>2, <1>3 DEF Idles, Shapes, BusFields, twi_stop, HoldBus, Reply
<1> QED
  BY <1>2, <1>4 DEF Rests

LEMMA ErrorRests ==
  ASSUME Shapes, MasterRefused \/ ArbitrationLost \/ BusErrorSeen
  PROVE  Rests' /\ twi'.error # "none" /\ twi'.index = twi.index /\ twi'.buffer = twi.buffer
         /\ UNCHANGED <<wire, sketch, peer>>
<1>1. ~twi'.handling /\ twi'.state = "READY" /\ twi'.error = bus.status /\ twi'.index = twi.index
      /\ twi'.buffer = twi.buffer /\ UNCHANGED <<wire, sketch, peer>>
  BY DEF Shapes, TwiFields, MasterRefused, ArbitrationLost, BusErrorSeen, Interrupted
<1>2. bus.status # "none"
  BY DEF MasterRefused, ArbitrationLost, BusErrorSeen, Interrupted
<1>3. bus' = twi_stop
  BY DEF MasterRefused, ArbitrationLost, BusErrorSeen, twi_stop, twi_releaseBus
<1>4. Idles'
  BY <1>1, <1>3 DEF Idles, Shapes, BusFields, twi_stop, Reply
<1> QED
  BY <1>1, <1>2, <1>4 DEF Rests

\* START and the address go out.
LEMMA StartOut ==
  ASSUME Shapes, Control, Outset, OurStart \/ StartSent
  PROVE  Outset' /\ bus'.status # "BUS_ERROR" /\ UNCHANGED <<twi, wire, sketch, peer>>
<1>1. CASE OurStart
  <2>1. bus.status = "none" /\ bus.phase = "free" /\ bus'.status = "START" /\ bus'.phase = "started"
        /\ UNCHANGED <<twi, wire, sketch, peer>>
    BY <1>1 DEF Shapes, BusFields, OurStart, BusMoves, Signals
  <2> QED
    BY <2>1 DEF Outset
<1>2. CASE StartSent
  <2>1. bus.status = "START" /\ bus.phase = "started" /\ bus'.status = "none" /\ bus'.phase = "started"
        /\ bus'.data = twi.slarw /\ UNCHANGED <<twi, wire, sketch, peer>>
    BY <1>2 DEF Shapes, BusFields, StartSent, Interrupted, ReplyWith, Reply, Control, In
  <2> QED
    BY <2>1 DEF Outset
<1> QED
  BY <1>1, <1>2

LEMMA BusFails ==
  ASSUME Shapes, BusError
  PROVE  Outset' /\ bus.status = "none" /\ UNCHANGED <<twi, wire, sketch>>
         /\ peer'.got = peer.got /\ peer'.gave = peer.gave
<1>1. bus.status = "none" /\ bus'.status = "BUS_ERROR" /\ bus'.phase = "free"
      /\ UNCHANGED <<twi, wire, sketch>> /\ peer'.got = peer.got /\ peer'.gave = peer.gave
  BY DEF Shapes, BusFields, PeerFields, BusError, Signals
<1> QED
  BY <1>1 DEF Outset

LEMMA SendingGoesOn ==
  ASSUME Shapes, Control, Basics, Sending, ~ForeignStart, ~ForeignWins, [WireNext]_wireVars
  PROVE  Stages'
<1>1. /\ sketch.pc = "busy" /\ sketch.kind = "MTX" /\ WriteIsSet /\ twi.slarw = Address("MTX")
      /\ Len(sketch.wrote) \in Nat /\ sketch.wrote \in Seq(Messages)
  BY DEF Sending, WriteIsSet, Basics
<1>2. CASE OurStart \/ StartSent
  <2>1. Outset
    BY <1>2 DEF Sending, OurStart, StartSent, BusMoves, Interrupted, Control, In
  <2>2. Outset' /\ UNCHANGED <<twi, wire, sketch, peer>>
    BY <1>2, <2>1, StartOut
  <2>4. Sending'
    BY <1>1, <2>2 DEF Sending, WriteIsSet, Same
  <2> QED
    BY <2>4 DEF Stages
<1>3. CASE BusError
  <2>1. Outset' /\ UNCHANGED <<twi, wire, sketch>> /\ peer'.gave = peer.gave
    BY <1>3, BusFails
  <2>2. Sending'
    BY <1>1, <2>1 DEF Sending, WriteIsSet, Same
  <2> QED
    BY <2>1, <2>2 DEF Stages
<1>4. CASE OurAddress
  <2>1. bus.status = "none" /\ bus.phase = "started" /\ UNCHANGED <<twi, wire, sketch>>
    BY <1>4 DEF OurAddress, BusMoves
  <2>2. twi.index = 0 /\ bus.data = Address("MTX")
    BY <1>1, <2>1 DEF Sending, Outset
  <2>3. PICK ack \in BOOLEAN :
          /\ Signals(IF ack THEN "MT_SLA_ACK" ELSE "MT_SLA_NACK", "sending")
          /\ peer' = [peer EXCEPT !.got = <<>>]
    BY <1>4, <2>2 DEF OurAddress
  <2>4. bus'.status \in {"MT_SLA_ACK", "MT_SLA_NACK"} /\ bus'.phase = "sending"
    BY <2>3 DEF Shapes, BusFields, Signals
  <2>5. peer'.got = <<>> /\ peer'.gave = peer.gave
    BY <2>3 DEF Shapes, PeerFields
  <2>6. GotTo(twi.index)'
    <3>1. SubSeq(sketch.wrote, 1, 0) = <<>>
      BY <1>1
    <3> QED
      BY <1>1, <2>1, <2>2, <2>5, <3>1 DEF GotTo
  <2>7. Sending'
    BY <1>1, <2>1, <2>4, <2>6 DEF Sending, WriteIsSet, Same
  <2> QED
    BY <2>1, <2>5, <2>7 DEF Stages
<1>5. CASE OurByte
  <2>1. bus.status = "none" /\ bus.phase = "sending" /\ UNCHANGED <<twi, wire, sketch>>
    BY <1>5 DEF OurByte, BusMoves
  <2>2. twi.index \in 1..Len(sketch.wrote) /\ bus.data = sketch.wrote[twi.index]
        /\ peer.got = SubSeq(sketch.wrote, 1, twi.index - 1)
    BY <2>1 DEF Sending, Outset, GotTo
  <2>3. \/ bus'.status = "MT_DATA_ACK" /\ bus'.phase = "sending" /\ peer'.got = Append(peer.got, bus.data)
        \/ bus'.status = "MT_DATA_NACK" /\ bus'.phase = "sending"
    BY <1>5 DEF Shapes, BusFields, PeerFields, OurByte, Signals
  <2>4. peer'.gave = peer.gave
    BY <1>5 DEF Shapes, PeerFields, OurByte
  <2>5. Append(SubSeq(sketch.wrote, 1, twi.index - 1), sketch.wrote[twi.index])
          = SubSeq(sketch.wrote, 1, twi.index)
    BY <1>1, <2>2, SubSeqNext
  <2>6. bus'.status = "MT_DATA_ACK" => GotTo(twi.index)'
    <3>1. bus'.status = "MT_DATA_ACK" => peer'.got = SubSeq(sketch.wrote, 1, twi.index)
      BY <2>2, <2>3, <2>5
    <3>2. twi.index \in 0..Len(sketch.wrote)
      BY <1>1, <2>2
    <3> QED
      BY <2>1, <3>1, <3>2 DEF GotTo
  <2>7. Sending'
    BY <1>1, <2>1, <2>3, <2>6 DEF Sending, WriteIsSet, Same
  <2> QED
    BY <2>1, <2>4, <2>7 DEF Stages
<1>6. CASE MasterSend
  <2>1. bus.status \in {"MT_SLA_ACK", "MT_DATA_ACK"} /\ bus.phase = "sending"
        /\ UNCHANGED <<wire, sketch, peer>>
    BY <1>6 DEF MasterSend, Interrupted, Control, In
  <2>2. twi.index \in 0..Len(sketch.wrote) /\ peer.got = SubSeq(sketch.wrote, 1, twi.index)
        /\ twi.length = Len(sketch.wrote)
    BY <2>1 DEF Sending, Outset, GotTo, WriteIsSet
  <2>3. CASE twi.index < twi.length
    <3>1. /\ bus'.status = "none" /\ bus'.phase = "sending" /\ bus'.data = twi.buffer[twi.index + 1]
          /\ twi'.index = twi.index + 1 /\ twi'.state = twi.state /\ twi'.error = twi.error
          /\ twi'.slarw = twi.slarw /\ twi'.length = twi.length /\ twi'.buffer = twi.buffer
          /\ twi'.handling = twi.handling
      BY <1>6, <2>1, <2>3 DEF Shapes, BusFields, TwiFields, MasterSend, ReplyWith, Reply
    <3>2. twi'.index \in 1..Len(sketch.wrote) /\ twi'.index - 1 = twi.index
      BY <1>1, <2>2, <2>3, <3>1
    <3>3. bus'.data = sketch.wrote[twi'.index]
      BY <1>1, <2>2, <3>1, <3>2 DEF WriteIsSet, Same
    <3>4. GotTo(twi.index - 1)'
      BY <1>1, <2>1, <2>2, <3>2 DEF GotTo
    <3>5. WriteIsSet'
      BY <1>1, <2>1, <3>1 DEF WriteIsSet, Same
    <3>6. Sending'
      BY <1>1, <2>1, <3>1, <3>2, <3>3, <3>4, <3>5 DEF Sending
    <3> QED
      BY <2>1, <3>6 DEF Stages
  <2>4. CASE ~(twi.index < twi.length)
    <3>1. EndOfTransfer(twi)
      BY <1>6, <2>4 DEF MasterSend
    <3>2. Rests' /\ twi'.error = twi.error
      BY <1>1, <3>1, EndRests DEF Shapes, WriteIsSet
    <3>3. twi.index = Len(sketch.wrote)
      BY <1>1, <2>2, <2>4
    <3>4. SubSeq(sketch.wrote, 1, Len(sketch.wrote)) = sketch.wrote
      BY <1>1
    <3>5. peer'.got = sketch'.wrote
      BY <2>1, <2>2, <3>3, <3>4
    <3>6. SentOnBus'
      BY <1>1, <2>1, <3>2, <3>5 DEF SentOnBus
    <3> QED
      BY <2>1, <3>6 DEF Stages
  <2> QED
    BY <2>3, <2>4
<1>7. CASE MasterRefused \/ ArbitrationLost \/ BusErrorSeen
  <2>1. Rests' /\ twi'.error # "none" /\ UNCHANGED <<wire, sketch, peer>>
    BY <1>7, ErrorRests
  <2>2. SentOnBus'
    BY <1>1, <2>1 DEF SentOnBus
  <2> QED
    BY <2>1, <2>2 DEF Stages
<1>8. ~(MasterReceive \/ MasterReceiveLast \/ MasterReceiveRefused \/ DeviceByte)
  <2>1. bus.phase # "receiving"
    BY DEF Sending, Outset
  <2> QED
    BY <2>1 DEF MasterReceive, MasterReceiveLast, MasterReceiveRefused, DeviceByte, BusMoves,
                Interrupted, Control, In
<1>9. CASE UNCHANGED wireVars
  BY <1>9, StutterStages DEF Stages
<1> QED
  BY <1>2, <1>3, <1>4, <1>5, <1>6, <1>7, <1>8, <1>9, TransferActs, Zenon

LEMMA ReceivedHas ==
  ASSUME Shapes, Buffers, Pending, twi.index + 1 <= BufferLength, peer.gave \in Seq(DeviceBytes)
  PROVE  Received.index = twi.index + 1 /\ Same(Received.buffer, peer.gave)
         /\ Received.handling = twi.handling /\ Received.error = twi.error /\ Received.state = twi.state /\ Received.slarw = twi.slarw
         /\ Received.length = twi.length
         /\ Received = [f \in TwiFields |-> Received[f]]
<1>1. /\ Received.index = twi.index + 1
      /\ Received.handling = twi.handling /\ Received.error = twi.error /\ Received.state = twi.state /\ Received.slarw = twi.slarw
      /\ Received.length = twi.length
      /\ Received = [f \in TwiFields |-> Received[f]]
  BY DEF Shapes, TwiFields, Received
<1>2. Received.buffer = [k \in 1..BufferLength |-> IF k = twi.index + 1 THEN bus.data ELSE twi.buffer[k]]
  BY DEF Shapes, TwiFields, Received, Buffers, Whole
<1>3. ASSUME NEW k \in 1..Len(peer.gave)
      PROVE  Received.buffer[k] = peer.gave[k]
  <2>1. twi.index \in Nat /\ Len(peer.gave) = twi.index + 1 /\ k \in 1..BufferLength
    BY WireAssumption DEF Pending
  <2>2. CASE k = twi.index + 1
    BY <1>2, <2>1, <2>2 DEF Pending
  <2>3. CASE k # twi.index + 1
    BY <1>2, <2>1, <2>3 DEF Pending
  <2> QED
    BY <2>2, <2>3
<1> QED
  BY <1>1, <1>3 DEF Same

LEMMA ReceivingGoesOn ==
  ASSUME Shapes, Control, Buffers, Basics, Receiving, ~ForeignStart, ~ForeignWins, [WireNext]_wireVars
  PROVE  Stages'
<1>1. /\ sketch.pc = "busy" /\ sketch.kind = "MRX" /\ ReadIsSet /\ twi.slarw = Address("MRX")
      /\ sketch.length \in 1..BufferLength /\ twi.length = sketch.length - 1
      /\ peer.gave \in Seq(DeviceBytes) /\ Len(peer.gave) \in Nat
  BY DEF Receiving, ReadIsSet, Basics
<1>2. CASE OurStart \/ StartSent
  <2>1. Outset
    BY <1>2 DEF Receiving, OurStart, StartSent, BusMoves, Interrupted, Control, In
  <2>2. Outset' /\ bus'.status # "BUS_ERROR" /\ UNCHANGED <<twi, wire, sketch, peer>>
    BY <1>2, <2>1, StartOut
  <2>3. Receiving'
    BY <1>1, <2>2 DEF Receiving, ReadIsSet
  <2> QED
    BY <2>2, <2>3 DEF Stages
<1>3. CASE BusError
  <2>1. Outset' /\ bus.status = "none" /\ UNCHANGED <<twi, wire, sketch>> /\ peer'.gave = peer.gave
    BY <1>3, BusFails
  <2>2. bus.phase # "free"
    BY <1>3 DEF BusError
  <2>3. Came
    BY <2>1, <2>2 DEF Receiving, Outset, Came
  <2>4. Came'
    BY <2>1, <2>3 DEF Came, GaveTo, Same
  <2>5. Receiving'
    BY <1>1, <2>1, <2>4 DEF Receiving, ReadIsSet
  <2> QED
    BY <2>1, <2>5 DEF Stages
<1>4. CASE OurAddress
  <2>1. bus.status = "none" /\ bus.phase = "started" /\ UNCHANGED <<twi, wire, sketch>>
    BY <1>4 DEF OurAddress, BusMoves
  <2>2. twi.index = 0 /\ bus.data = Address("MRX")
    BY <1>1, <2>1 DEF Receiving, Outset
  <2>3. Address("MRX") # Address("MTX")
    BY DEF Address
  <2>4. PICK ack \in BOOLEAN :
          /\ Signals(IF ack THEN "MR_SLA_ACK" ELSE "MR_SLA_NACK", "receiving")
          /\ peer' = [peer EXCEPT !.gave = <<>>]
    BY <1>4, <2>2, <2>3 DEF OurAddress
  <2>5. bus'.status \in {"MR_SLA_ACK", "MR_SLA_NACK"} /\ bus'.phase = "receiving"
    BY <2>4 DEF Shapes, BusFields, Signals
  <2>6. peer'.gave = <<>>
    BY <2>4 DEF Shapes, PeerFields
  <2>7. Receiving'
    BY <1>1, <2>1, <2>2, <2>5, <2>6 DEF Receiving, ReadIsSet
  <2> QED
    BY <2>7 DEF Stages
<1>5. CASE DeviceByte
  <2> DEFINE byte == <<"device", Len(peer.gave) + 1>>
  <2>1. bus.status = "none" /\ bus.phase = "receiving" /\ UNCHANGED <<twi, wire, sketch>>
    BY <1>5 DEF DeviceByte, BusMoves
  <2>2. /\ bus'.status = (IF bus.ea THEN "MR_DATA_ACK" ELSE "MR_DATA_NACK")
        /\ bus'.phase = "receiving" /\ bus'.data = byte
        /\ peer'.gave = Append(peer.gave, byte)
    BY <1>5 DEF Shapes, BusFields, PeerFields, DeviceByte, SignalsByte
  <2>3. byte \in DeviceBytes
    BY <1>1 DEF DeviceBytes
  <2> HIDE DEF byte
  <2>4. GaveTo(twi.index) /\ twi.index <= twi.length /\ (bus.ea => twi.index < twi.length)
    BY <2>1 DEF Receiving, Outset
  <2>5. /\ peer'.gave \in Seq(DeviceBytes) /\ Len(peer'.gave) = Len(peer.gave) + 1
        /\ peer'.gave[Len(peer.gave) + 1] = byte
        /\ \A k \in 1..Len(peer.gave) : peer'.gave[k] = peer.gave[k]
    BY <1>1, <2>2, <2>3
  <2>6. Pending'
    <3>1. UNCHANGED twi /\ bus'.data = byte
      BY <2>1, <2>2
    <3>2. twi.index \in Nat /\ Len(peer.gave) = twi.index /\ Same(twi.buffer, peer.gave)
      BY <1>1, <2>4 DEF GaveTo
    <3> QED
      BY <2>5, <3>1, <3>2 DEF Pending, Same
  <2>7. Receiving'
    BY <1>1, <2>1, <2>2, <2>4, <2>6 DEF Receiving, ReadIsSet
  <2> QED
    BY <2>7 DEF Stages
<1>6. CASE MasterReceive
  <2>1. bus.status \in {"MR_SLA_ACK", "MR_DATA_ACK"} /\ bus.phase = "receiving"
        /\ UNCHANGED <<wire, sketch, peer>>
    BY <1>6 DEF MasterReceive, Interrupted, Control, In
  <2>2. bus'.status = "none" /\ bus'.phase = "receiving" /\ bus'.ea = (twi'.index < twi'.length)
        /\ twi' = IF bus.status = "MR_DATA_ACK" THEN Received ELSE twi
    <3>1. twi' = (IF bus.status = "MR_DATA_ACK" THEN Received ELSE twi)
          /\ bus' = Reply(twi'.index < twi.length)
      BY <1>6 DEF MasterReceive
    <3>2. twi'.length = twi.length
      BY <3>1 DEF Received, Shapes, TwiFields
    <3>3. bus'.status = "none" /\ bus'.phase = bus.phase /\ bus'.ea = (twi'.index < twi.length)
      BY <3>1 DEF Shapes, BusFields, Reply
    <3> QED
      BY <2>1, <3>1, <3>2, <3>3
  <2>3. /\ twi'.handling = twi.handling /\ twi'.state = twi.state /\ twi'.slarw = twi.slarw /\ twi'.length = twi.length
        /\ twi'.index \in 0..twi.length /\ Len(peer.gave) = twi'.index /\ Same(twi'.buffer, peer.gave)
    <3>1. CASE bus.status = "MR_SLA_ACK"
      <4>1. twi.index = 0 /\ peer.gave = <<>> /\ twi' = twi
        BY <2>1, <2>2, <3>1 DEF Receiving, Outset
      <4> QED
        BY <1>1, <4>1 DEF Same
    <3>2. CASE bus.status = "MR_DATA_ACK"
      <4>1. Pending /\ twi.index < twi.length
        BY <2>1, <3>2 DEF Receiving, Outset
      <4>2. twi.index \in Nat /\ twi.index + 1 <= BufferLength /\ Len(peer.gave) = twi.index + 1
        BY <1>1, <4>1, WireAssumption DEF Pending
      <4>3. twi' = Received
        BY <2>2, <3>2
      <4>4. /\ twi'.index = twi.index + 1 /\ Same(twi'.buffer, peer.gave)
            /\ twi'.handling = twi.handling /\ twi'.state = twi.state /\ twi'.slarw = twi.slarw /\ twi'.length = twi.length
        BY <1>1, <4>1, <4>2, <4>3, ReceivedHas
      <4> QED
        BY <1>1, <4>1, <4>2, <4>4
    <3> QED
      BY <2>1, <3>1, <3>2
  <2>4. GaveTo(twi.index)'
    BY <1>1, <2>1, <2>3 DEF GaveTo, Same
  <2>5. ReadIsSet'
    BY <1>1, <2>1, <2>3 DEF ReadIsSet
  <2>6. twi'.index <= twi'.length /\ (bus'.ea => twi'.index < twi'.length)
    <3>1. twi'.index <= twi'.length
      BY <1>1, <2>3
    <3>2. bus'.ea => twi'.index < twi'.length
      BY <2>2, Zenon
    <3> QED
      BY <3>1, <3>2
  <2>7. Receiving'
    BY <1>1, <2>1, <2>2, <2>4, <2>5, <2>6 DEF Receiving
  <2> QED
    BY <2>1, <2>7 DEF Stages
<1>7. CASE MasterReceiveLast
  <2>1. bus.status = "MR_DATA_NACK" /\ bus.phase = "receiving" /\ EndOfTransfer(Received)
        /\ UNCHANGED <<wire, sketch, peer>>
    BY <1>7 DEF MasterReceiveLast, Interrupted, Control, In
  <2>2. Pending /\ twi.index <= twi.length
    BY <2>1 DEF Receiving, Outset
  <2>3. twi.index \in Nat /\ twi.index + 1 <= sketch.length /\ twi.index + 1 <= BufferLength
        /\ Len(peer.gave) = twi.index + 1
    BY <1>1, <2>2, WireAssumption DEF Pending
  <2>4. /\ Received.index = twi.index + 1 /\ Same(Received.buffer, peer.gave)
        /\ Received = [f \in TwiFields |-> Received[f]] /\ ~twi.handling /\ ~Received.handling
    BY <1>1, <2>2, <2>3, ReceivedHas DEF ReadIsSet
  <2>5. Rests' /\ twi'.index = Received.index /\ twi'.buffer = Received.buffer
    BY <2>1, <2>4, EndRests
  <2>6. GaveTo(twi.index)'
    <3>1. twi'.index \in 0..sketch'.length /\ Len(peer'.gave) = twi'.index
      BY <1>1, <2>1, <2>3, <2>4, <2>5
    <3>2. Same(twi'.buffer, peer'.gave)
      BY <2>1, <2>4, <2>5
    <3> QED
      BY <3>1, <3>2 DEF GaveTo, Same
  <2>7. Fetched'
    BY <1>1, <2>1, <2>5, <2>6 DEF Fetched, Came
  <2> QED
    BY <2>1, <2>7 DEF Stages
<1>8. CASE MasterReceiveRefused
  <2>1. bus.status = "MR_SLA_NACK" /\ bus.phase = "receiving" /\ bus' = twi_stop
        /\ ~twi'.handling /\ twi'.state = "READY" /\ twi'.index = twi.index /\ UNCHANGED <<wire, sketch, peer>>
    BY <1>8 DEF MasterReceiveRefused, Interrupted, Control, In, Shapes, TwiFields
  <2>2. twi.index = 0
    BY <2>1 DEF Receiving, Outset
  <2>3. Rests'
    BY <2>1 DEF Rests, Idles, Shapes, BusFields, twi_stop, Reply
  <2>4. Fetched'
    BY <1>1, <2>1, <2>2, <2>3 DEF Fetched, Came
  <2> QED
    BY <2>1, <2>4 DEF Stages
<1>9. CASE ArbitrationLost \/ BusErrorSeen
  <2>1. Rests' /\ twi'.index = twi.index /\ twi'.buffer = twi.buffer /\ UNCHANGED <<wire, sketch, peer>>
    BY <1>9, ErrorRests
  <2>2. Came
    BY <1>9 DEF ArbitrationLost, BusErrorSeen, Interrupted, Control, In, Receiving, Outset, Came
  <2>3. Came'
    BY <2>1, <2>2 DEF Came, GaveTo, Same
  <2>4. Fetched'
    BY <1>1, <2>1, <2>3 DEF Fetched
  <2> QED
    BY <2>1, <2>4 DEF Stages
<1>10. ~(MasterSend \/ MasterRefused \/ OurByte)
  <2>1. bus.phase # "sending"
    BY DEF Receiving, Outset
  <2> QED
    BY <2>1 DEF MasterSend, MasterRefused, OurByte, BusMoves, Interrupted, Control, In
<1>11. CASE UNCHANGED wireVars
  BY <1>11, StutterStages DEF Stages
<1> QED
  BY <1>2, <1>3, <1>4, <1>5, <1>6, <1>7, <1>8, <1>9, <1>10, <1>11, TransferActs, Zenon

LEMMA RestingGoesOn ==
  ASSUME Shapes, Control, Buffers, Basics, SketchCalls, ~beginTransmission, ~requestFrom, Alone',
         \/ Idle \/ Filling \/ WriteWaits \/ ReadWaits \/ Writing \/ Reading
         \/ WriteStarts \/ ReadStarts \/ SentOnBus \/ Fetched \/ Copied
  PROVE  Stages'
<1>1. CASE Idle
  BY <1>1, CallsByPlace, IdleGoesOn DEF Idle
<1>2. CASE Filling
  BY <1>2, CallsByPlace, FillingGoesOn DEF Filling
<1>3. CASE WriteWaits \/ ReadWaits
  <2>1. SeesReady
    BY <1>3, CallsByPlace DEF WriteWaits, ReadWaits
  <2> QED
    BY <1>3, <2>1, WaitGoesOn, Zenon
<1>8. CASE Writing \/ Reading
  <2>1. WriteSetsUp \/ ReadSetsUp
    BY <1>8, CallsByPlace DEF Writing, Reading
  <2> QED
    BY <1>8, <2>1, SetGoesOn, Zenon
<1>4. CASE WriteStarts \/ ReadStarts
  <2>1. sketch.pc = "start"
    BY <1>4 DEF WriteStarts, ReadStarts
  <2>2. Starts
    BY <2>1, CallsByPlace
  <2> QED
    BY <1>4, <2>2, StartGoesOn, Zenon
<1>5. CASE SentOnBus
  <2>1. WriteEnds \/ ReadCopies
    BY <1>5, CallsByPlace DEF SentOnBus
  <2>2. ~ReadCopies
    BY <1>5 DEF SentOnBus, ReadCopies
  <2> QED
    BY <1>5, <2>1, <2>2, SentGoesOn, Zenon
<1>6. CASE Fetched
  <2>1. WriteEnds \/ ReadCopies
    BY <1>6, CallsByPlace DEF Fetched
  <2>2. ~WriteEnds
    BY <1>6 DEF Fetched, WriteEnds
  <2> QED
    BY <1>6, <2>1, <2>2, FetchedGoesOn, Zenon
<1>7. CASE Copied
  <2>1. ReadEnds
    BY <1>7, CallsByPlace DEF Copied
  <2> QED
    BY <1>7, <2>1, CopiedGoesOn, Zenon
<1> QED
  BY <1>1, <1>2, <1>3, <1>4, <1>5, <1>6, <1>7, <1>8

LEMMA MasterKept ==
  ASSUME Shapes, Control, Stopped, Buffers, Hears, Master, [WireNext]_wireVars
  PROVE  Master'
<1>1. Basics /\ Basics'
  BY BasicsKept DEF Master
<1> SUFFICES ASSUME Alone' PROVE Stages'
  BY <1>1 DEF Master
<1>2. CASE beginTransmission \/ requestFrom
  BY <1>2, CallBegins
<1>3. CASE ~beginTransmission /\ ~requestFrom
  <2>1. Alone /\ ~ForeignStart /\ ~ForeignWins
    BY <1>1, <1>3, AloneBefore
  <2>2. Stages
    BY <2>1 DEF Master
  <2>3. CASE Sending
    BY <1>1, <2>1, <2>3, SendingGoesOn
  <2>4. CASE Receiving
    BY <1>1, <2>1, <2>4, ReceivingGoesOn
  <2>5. CASE (Filling \/ WriteWaits \/ ReadWaits) /\ (TWI_vect \/ Bus)
    BY <2>1, <2>5, WaitingStays
  <2>6. CASE Filling \/ WriteWaits \/ ReadWaits
    <3>1. TWI_vect \/ Bus \/ SketchCalls \/ UNCHANGED wireVars
      BY DEF WireNext, Bus, SketchCalls
    <3> QED
      BY <1>1, <1>3, <2>2, <2>5, <2>6, <3>1, RestingGoesOn, StutterStages, Zenon
  <2>7. CASE Idle \/ Writing \/ Reading \/ WriteStarts \/ ReadStarts \/ SentOnBus \/ Fetched \/ Copied
    <3>1. Idles
      BY <2>7 DEF Idle, Writing, Reading, WriteStarts, ReadStarts, SentOnBus, Fetched, Copied, Rests
    <3>2. SketchCalls \/ UNCHANGED wireVars
      BY <2>1, <3>1, OnlyCalls
    <3> QED
      BY <1>1, <1>3, <2>2, <2>7, <3>2, RestingGoesOn, StutterStages, Zenon
  <2> QED
    BY <2>2, <2>3, <2>4, <2>6, <2>7 DEF Stages
<1> QED
  BY <1>2, <1>3

-----------------------------------------------------------------------------
(* The invariant *)

WireInv == Shapes /\ Buffers /\ Control /\ Stopped /\ Hears /\ Serves /\ Master

LEMMA RoleKept == Shapes /\ [WireNext]_wireVars => sketch'.role = sketch.role
<1> SUFFICES ASSUME Shapes, [WireNext]_wireVars PROVE sketch'.role = sketch.role
  OBVIOUS
<1>1. CASE TWI_vect
  BY <1>1 DEF TWI_vect, StartSent, MasterSend, MasterRefused, ArbitrationLost, MasterReceive,
     MasterReceiveLast, MasterReceiveRefused, SlaveAddressed, SlaveReceive, SlaveRefuses, SlaveStop,
     SlaveStopDone, SlaveAsked, SlaveSend, SlaveSent, BusErrorSeen
<1>2. CASE SketchCalls
  BY <1>2 DEF Shapes, SketchFields, SketchCalls, SketchGoesOn, beginTransmission, write, endTransmission,
     requestFrom, read, SeesReady, WriteSetsUp, ReadSetsUp, Starts, WriteEnds, ReadCopies, ReadEnds, Goes
<1>3. CASE Bus \/ UNCHANGED wireVars
  BY <1>3 DEF Bus, BusGoesOn, OurStart, OurAddress, OurByte, DeviceByte, ForeignStop, ForeignTakes,
     ForeignStart, ForeignWins, ForeignByte, BusError, wireVars
<1> QED
  BY <1>1, <1>2, <1>3, Zenon DEF WireNext, SketchCalls, Bus

LEMMA WireInitially == WireInit => WireInv
<1> SUFFICES ASSUME WireInit PROVE WireInv
  OBVIOUS
<1>1. Shapes
  BY DEF WireInit, Shapes, TwiFields, WireFields, BusFields, SketchFields, PeerFields
<1>2. /\ bus.status = "none" /\ bus.phase = "free" /\ ~bus.sta /\ bus.ie
      /\ ~twi.inRepStart /\ ~twi.handling /\ twi.state = "READY" /\ twi.buffer = Blank
      /\ wire.tx = Blank /\ wire.rxIndex = 0 /\ wire.rxLength = 0 /\ ~wire.transmitting
      /\ sketch.pc = "idle" /\ sketch.calls = 0 /\ sketch.since = 0 /\ sketch.wrote = <<>> /\ sketch.result = "none"
  BY DEF WireInit
<1>3. peer.foreign = 0 /\ peer.sent = <<>> /\ peer.heard = <<>> /\ peer.asked = <<>>
      /\ peer.replied = <<>> /\ peer.gave = <<>> /\ ~peer.unseen
  BY DEF WireInit
<1>4. Buffers
  BY <1>2 DEF Buffers, Whole, Blank
<1>5. Control
  BY <1>2 DEF Control, In
<1>9. Stopped
  BY <1>2 DEF Stopped
<1>6. Hears
  BY <1>2, <1>3 DEF Hears
<1>7. Serves
  <2>1. SlaveIdles
    BY <1>2 DEF SlaveIdles
  <2>2. Due = <<Zero>>
    BY <1>3 DEF Due
  <2>3. SubSeq(<<Zero>>, 1, 0) = <<>> /\ Len(<<Zero>>) = 1
    OBVIOUS
  <2>4. \E n \in 0..Len(Due) : Taken(n)
    <3>1. 0 \in 0..Len(Due) /\ peer.asked = SubSeq(Due, 1, 0)
      BY <1>3, <2>2, <2>3
    <3> QED
      BY <3>1 DEF Taken
  <2> QED
    BY <1>2, <1>3, <2>1, <2>4 DEF Serves, Sends
<1>8. Master
  <2>1. Idle
    BY <1>2 DEF Idle, Rests, Idles
  <2> QED
    BY <1>2, <1>3, <2>1 DEF Master, Basics, Stages
<1> QED
  BY <1>1, <1>4, <1>5, <1>6, <1>7, <1>8, <1>9 DEF WireInv

LEMMA WireInvMeans == WireInv => TransfersAreExact
<1> SUFFICES ASSUME WireInv PROVE MasterExact /\ OtherExact
  BY DEF TransfersAreExact
<1>1. MasterExact
  <2> SUFFICES ASSUME Alone, sketch.pc = "idle"
               PROVE  /\ sketch.result = "written" => peer.got = sketch.wrote
                      /\ sketch.result = "read" /\ wire.rxIndex < wire.rxLength =>
                           Prefix(wire.rx, wire.rxLength) = peer.gave
    BY DEF MasterExact
  <2>1. Idle /\ peer.gave \in Seq(DeviceBytes)
    BY DEF WireInv, Master, Basics, Stages, Filling, WriteWaits, ReadWaits, Writing, Reading, WriteStarts, ReadStarts,
           Sending, Receiving, SentOnBus, Fetched, Copied
  <2>2. ASSUME Len(peer.gave) = wire.rxLength, Same(wire.rx, peer.gave)
        PROVE  Prefix(wire.rx, wire.rxLength) = peer.gave
    <3>1. peer.gave = [k \in 1..Len(peer.gave) |-> peer.gave[k]]
      BY <2>1
    <3> QED
      BY <2>2, <3>1 DEF Prefix, Same
  <2> QED
    BY <2>1, <2>2 DEF Idle
<1>2. peer.heard # <<>> => peer.heard[1] = SubSeq(peer.sent, 1, Least(Len(peer.sent), BufferLength))
  BY DEF WireInv, Hears, Upto
<1>3. ASSUME sketch.role = "slave", ~peer.unseen
      PROVE  IsPrefix(peer.asked, IF peer.replied = <<>> THEN <<Zero>> ELSE peer.replied)
  <2>1. Sends
    BY <1>3 DEF WireInv, Serves
  <2>2. PICK n \in 0..Len(Due) : peer.asked = SubSeq(Due, 1, n)
    BY <1>3, <2>1 DEF Sends, Taken
  <2>3. Due \in Seq(RepliesOfTwi)
    BY <2>1, DueIs DEF Sends
  <2> DEFINE d == Due
  <2> HIDE DEF d
  <2>4. d \in Seq(RepliesOfTwi) /\ n \in 0..Len(d) /\ peer.asked = SubSeq(d, 1, n)
    BY <2>2, <2>3 DEF d
  <2>5. Len(peer.asked) = n /\ SubSeq(peer.asked, 1, n) = peer.asked
    BY <2>4
  <2>6. IsPrefix(peer.asked, d)
    BY <2>4, <2>5 DEF IsPrefix
  <2> QED
    BY <2>6 DEF d, Due
<1> QED
  BY <1>1, <1>2, <1>3 DEF OtherExact

\* A transmission that returns 0 has brought the device what was written, and a
\* read returns what the device gave, unless another master addressed this node
\* or won the bus from it during the call; and the other master's bytes arrive whole, and its reads
\* get what the sketch replied to them unless they went unseen: for every size
\* of the buffer, whatever bus and device do in between.
THEOREM TransfersExact == WireSpec => []TransfersAreExact
<1>1. WireInv /\ [WireNext]_wireVars => WireInv'
  <2> SUFFICES ASSUME WireInv, [WireNext]_wireVars PROVE WireInv'
    OBVIOUS
  <2>1. Shapes /\ Buffers /\ Control /\ Stopped /\ Hears /\ Serves /\ Master
    BY DEF WireInv
  <2>2. sketch'.role = sketch.role
    BY <2>1, RoleKept
  <2>3. Shapes' /\ Buffers' /\ Control' /\ Stopped' /\ Hears'
    BY <2>1, ShapesKept, BuffersKept, ControlKept, StoppedKept, HearsKept
  <2>4. Serves' /\ Master'
    BY <2>1, <2>2, ServesKept, MasterKept
  <2> QED
    BY <2>3, <2>4 DEF WireInv
<1> QED
  BY <1>1, WireInitially, WireInvMeans, PTL DEF WireSpec

-----------------------------------------------------------------------------
(* LowPower *)

\* In a call that turns timer 2 off its clock is stopped, and what the tests
\* found is kept; in any other it runs on.
ClockKept ==
  /\ tccr \subseteq ClockBits /\ before.tccr \subseteq ClockBits
  /\ phase = "awake" => tccr = ClockLeft(sleep.off, before.tccr)
  /\ phase # "awake" => IF "timer2" \in sleep.off
                          THEN tccr = {} /\ clockSource = BitsThatTest(before.tccr)
                          ELSE tccr = before.tccr

\* Both tests together let through CS20 alone, as CS22.
LEMMA TestedTwice ==
  ASSUME NEW set, set \subseteq ClockBits
  PROVE  BitsThatTest(BitsThatTest(set)) = IF 0 \in set THEN {2} ELSE {}
<1>1. \A some : BitsThatTest(some) = {bit \in {1, 2} : bit - 1 \in some}
  BY DEF BitsThatTest, Tests, ClockBits
<1> QED
  BY <1>1

LEMMA CallKeepsClock ==
  ASSUME ClockKept, NEW mode, NEW period, NEW off, Call(mode, period, off)
  PROVE  ClockKept'
<1>1. /\ phase' = "ready" /\ StopClock(off)
      /\ sleep'.off = off /\ before'.tccr = tccr
  BY DEF Call, NowOn
<1> QED
  BY <1>1 DEF ClockKept, StopClock

LEMMA SleepsKeepClock == ClockKept /\ Sleeps => ClockKept'
BY CallKeepsClock, Zenon
DEF Sleeps, idle328P, idle32U4, idle2560, idleRFR2, adcNoiseReduction, powerDown, powerSave,
    powerStandby, powerExtStandby, idleSAMD21, standbySAMD21

LEMMA GoOnKeepsClock == ClockKept /\ GoOn => ClockKept'
<1> SUFFICES ASSUME ClockKept, GoOn PROVE ClockKept'
  OBVIOUS
<1>1. /\ phase # "awake" /\ phase' = "awake" /\ UNCHANGED <<sleep, before, clockSource>>
      /\ tccr' = IF "timer2" \in sleep.off THEN tccr \cup BitsThatTest(clockSource) ELSE tccr
  BY DEF GoOn
<1>2. tccr' = ClockLeft(sleep.off, before.tccr)
  <2>1. CASE "timer2" \in sleep.off
    <3>1. tccr' = {} \cup BitsThatTest(BitsThatTest(before.tccr))
      BY <1>1, <2>1 DEF ClockKept
    <3> QED
      BY <2>1, <3>1, TestedTwice DEF ClockKept, ClockLeft
  <2>2. CASE "timer2" \notin sleep.off
    BY <1>1, <2>2 DEF ClockKept, ClockLeft
  <2> QED
    BY <2>1, <2>2
<1> QED
  BY <1>1, <1>2 DEF ClockKept, ClockLeft, ClockBits

\* In a call, nothing is off but what was off before and what the call turns
\* off: without power in the idle mode, and the converter.
NamedIsOff ==
  /\ aden \in BOOLEAN /\ before.aden \in BOOLEAN
  /\ phase = "awake" => prr \subseteq before.prr /\ (before.aden => aden)
  /\ phase # "awake" =>
       /\ prr \subseteq before.prr \cup (IF sleep.mode = "idle" THEN sleep.off ELSE {})
       /\ before.aden => aden \/ "adc" \in sleep.off

LEMMA CallNames ==
  ASSUME NamedIsOff, NEW mode, NEW period, NEW off, Call(mode, period, off)
  PROVE  NamedIsOff'
<1>1. /\ phase' = "ready" /\ aden' = (aden /\ "adc" \notin off)
      /\ prr' = IF mode = "idle" THEN prr \cup off ELSE prr
      /\ sleep' = [mode |-> mode, period |-> period, off |-> off]
      /\ before' = [prr |-> prr, aden |-> aden, tccr |-> tccr]
  BY DEF Call, NowOn
<1>2. before'.prr = prr /\ before'.aden = aden /\ sleep'.mode = mode /\ sleep'.off = off
  BY <1>1
<1>3. aden \in BOOLEAN
  BY DEF NamedIsOff
<1>4. aden' \in BOOLEAN /\ before'.aden \in BOOLEAN
  BY <1>1, <1>2, <1>3, Zenon
<1>5. before'.aden => aden' \/ "adc" \in sleep'.off
  BY <1>1, <1>2, Zenon
<1>6. prr' \subseteq before'.prr \cup (IF sleep'.mode = "idle" THEN sleep'.off ELSE {})
  BY <1>1, <1>2
<1> QED
  BY <1>1, <1>4, <1>5, <1>6 DEF NamedIsOff

LEMMA SleepsName == NamedIsOff /\ Sleeps => NamedIsOff'
BY CallNames, Zenon
DEF Sleeps, idle328P, idle32U4, idle2560, idleRFR2, adcNoiseReduction, powerDown, powerSave,
    powerStandby, powerExtStandby, idleSAMD21, standbySAMD21

LEMMA GoOnTurnsOn == NamedIsOff /\ GoOn => NamedIsOff'
<1> SUFFICES ASSUME NamedIsOff, GoOn PROVE NamedIsOff'
  OBVIOUS
<1>1. /\ phase = "going on" /\ phase' = "awake" /\ UNCHANGED <<sleep, before>>
      /\ aden' = (aden \/ "adc" \in sleep.off)
      /\ prr' = IF sleep.mode = "idle" THEN prr \ sleep.off ELSE prr
  BY DEF GoOn
<1>2. /\ aden \in BOOLEAN /\ before.aden \in BOOLEAN
      /\ prr \subseteq before.prr \cup (IF sleep.mode = "idle" THEN sleep.off ELSE {})
      /\ before.aden => aden \/ "adc" \in sleep.off
  BY <1>1 DEF NamedIsOff
<1>3. aden' \in BOOLEAN /\ before'.aden \in BOOLEAN /\ (before'.aden => aden')
  BY <1>1, <1>2, Zenon
<1>4. prr' \subseteq before'.prr
  BY <1>1, <1>2
<1> QED
  BY <1>1, <1>3, <1>4 DEF NamedIsOff

\* After a sleep of any mode on any chip every peripheral that had power has it
\* again and the converter is on again, whatever ended the sleep and whatever
\* the sketch named; timer 2 has the clock it had unless the call turned it off:
\* then it has CS22 if CS20 was set, and stands still if it was not.
THEOREM ModulesComeBack == LowPowerSpec => []ModulesBack
<1>1. LowPowerInit => NamedIsOff
  <2>1. SUFFICES ASSUME LowPowerInit PROVE NamedIsOff
    OBVIOUS
  <2>2. before = [prr |-> prr, aden |-> aden, tccr |-> tccr] /\ aden = TRUE /\ phase = "awake"
    BY <2>1 DEF LowPowerInit, NowOn
  <2>3. before.prr = prr /\ before.aden = aden
    BY <2>2
  <2> QED
    BY <2>2, <2>3 DEF NamedIsOff
<1>2. NamedIsOff /\ [LowPowerNext]_lowPowerVars => NamedIsOff'
  <2>1. SUFFICES ASSUME NamedIsOff,
                        \/ FallAsleep \/ InterruptWakes \/ WatchdogVector
                        \/ UNCHANGED lowPowerVars
                 PROVE  NamedIsOff'
    BY SleepsName, GoOnTurnsOn DEF LowPowerNext
  <2>2. UNCHANGED <<prr, aden, sleep, before>> /\ (phase' = "awake" <=> phase = "awake")
    BY <2>1 DEF FallAsleep, InterruptWakes, WatchdogVector, lowPowerVars
  <2> QED
    BY <2>1, <2>2 DEF NamedIsOff
<1>3. LowPowerInit => ClockKept
  <2>1. SUFFICES ASSUME LowPowerInit PROVE ClockKept
    OBVIOUS
  <2>2. before.tccr = tccr /\ sleep.off = {} /\ tccr \subseteq ClockBits /\ phase = "awake"
    BY <2>1 DEF LowPowerInit, NowOn
  <2> QED
    BY <2>2 DEF ClockKept, ClockLeft
<1>4. ClockKept /\ [LowPowerNext]_lowPowerVars => ClockKept'
  <2>1. SUFFICES ASSUME ClockKept,
                        \/ FallAsleep \/ InterruptWakes \/ WatchdogVector
                        \/ UNCHANGED lowPowerVars
                 PROVE  ClockKept'
    BY SleepsKeepClock, GoOnKeepsClock DEF LowPowerNext
  <2>2. /\ UNCHANGED <<tccr, clockSource, sleep, before>>
        /\ phase' = "awake" <=> phase = "awake"
    BY <2>1 DEF FallAsleep, InterruptWakes, WatchdogVector, lowPowerVars
  <2> QED
    BY <2>1, <2>2, Zenon DEF ClockKept
<1>5. NamedIsOff /\ ClockKept => ModulesBack
  BY DEF NamedIsOff, ClockKept, ModulesBack
<1> QED
  BY <1>1, <1>2, <1>3, <1>4, <1>5, PTL DEF LowPowerSpec
=============================================================================
