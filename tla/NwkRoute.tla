------------------------------ MODULE NwkRoute ------------------------------
(***************************************************************************)
(* The routing table of nwkRoute.c and the group table of nwkGroup.c, as   *)
(* operators on their values.                                              *)
(***************************************************************************)
EXTENDS Integers, Sequences, FiniteSets, FiniteSetsExt

CONSTANTS
  Unknown,      \* NWK_ROUTE_UNKNOWN, which is also the broadcast address
  RouteTableSize,
  DefaultScore,
  DefaultRank, MaxRank,  \* NWK_ROUTE_DEFAULT_RANK, NWK_ROUTE_MAX_RANK
  GroupsAmount

ASSUME NwkRouteAssumption ==
  /\ RouteTableSize \in Nat \ {0} /\ GroupsAmount \in Nat
  /\ DefaultScore \in 1..15
  /\ DefaultRank \in 2..MaxRank /\ MaxRank \in 3..255

FreeEntry(entry) ==
  IF entry.fixed THEN entry ELSE [entry EXCEPT !.dst = Unknown, !.rank = 0]

nwkRouteInit ==
  [i \in 1..RouteTableSize |->
     [dst |-> Unknown, nextHop |-> Unknown, multicast |-> FALSE, fixed |-> FALSE,
      score |-> 0, rank |-> 0, lqi |-> 0]]

\* The entry of a destination, as a set.
FindEntry(table, dst, multicast) ==
  LET at == {i \in DOMAIN table : table[i].dst = dst /\ table[i].multicast = multicast}
  IN  IF at = {} THEN {} ELSE {Min(at)}

NextHop(table, dst, multicast) ==
  IF \E i \in FindEntry(table, dst, multicast) : TRUE
    THEN table[Min(FindEntry(table, dst, multicast))].nextHop
    ELSE Unknown

\* The entry a new route takes: the first that is free, or else the first of
\* lowest rank.
NewEntry(table) ==
  LET open == {i \in DOMAIN table : ~table[i].fixed}
      free == {i \in open : table[i].rank = 0}
      lowest == {i \in open : \A j \in open : table[i].rank <= table[j].rank}
  IN  IF free # {} THEN Min(free) ELSE Min(lowest)

Renewed(entry) == [entry EXCEPT !.multicast = FALSE, !.score = DefaultScore, !.rank = DefaultRank]

UpdateEntry(table, dst, multicast, nextHop, lqi) ==
  LET known == FindEntry(table, dst, multicast)
      i == IF known = {} THEN NewEntry(table) ELSE Min(known)
  IN  [table EXCEPT ![i] = [Renewed(@) EXCEPT !.dst = dst, !.nextHop = nextHop,
                                              !.multicast = multicast, !.lqi = lqi]]

RouteRemove(table, dst, multicast) ==
  [i \in DOMAIN table |->
     IF i \in FindEntry(table, dst, multicast) THEN FreeEntry(table[i]) ELSE table[i]]

NormalizeRanks(table) == [i \in DOMAIN table |-> [table[i] EXCEPT !.rank = (@ \div 2) + 1]]

\* A frame of "src" that came by way of "via": without route discovery this is
\* how routes are learned.  "discovery": it was broadcast, and for this node.
FrameReceived(table, src, via, lqi, discovery) ==
  LET known == FindEntry(table, src, FALSE)
      i == IF known = {} THEN NewEntry(table) ELSE Min(known)
      better == table[i].nextHop # via /\ lqi > table[i].lqi
  IN  [table EXCEPT ![i] =
         IF known = {}
           THEN [Renewed(@) EXCEPT !.dst = src, !.nextHop = via, !.lqi = lqi]
         ELSE IF better \/ discovery
           THEN [@ EXCEPT !.nextHop = via, !.score = DefaultScore, !.lqi = lqi]
         ELSE [@ EXCEPT !.lqi = lqi]]

\* Wrong on purpose: counts a route that failed down, and never frees it.
FrameSentKeeps(table, dst, multicast, success) ==
  [i \in DOMAIN table |->
     IF i \notin FindEntry(table, dst, multicast) \/ table[i].fixed THEN table[i]
     ELSE [table[i] EXCEPT !.score = IF success THEN DefaultScore ELSE (@ + 15) % 16]]

FrameSent(table, dst, multicast, success) ==
  LET i == Min(FindEntry(table, dst, multicast))
      ranked == [table EXCEPT ![i].score = DefaultScore, ![i].rank = @ + 1]
      scored == [table EXCEPT ![i].score = (@ + 15) % 16]
  IN  IF FindEntry(table, dst, multicast) = {} \/ table[i].fixed THEN table
      ELSE IF success
        THEN IF ranked[i].rank = MaxRank THEN NormalizeRanks(ranked) ELSE ranked
      ELSE IF scored[i].score = 0 THEN [scored EXCEPT ![i] = FreeEntry(@)] ELSE scored

-----------------------------------------------------------------------------
(* Groups: NWK_GroupAdd and NWK_GroupRemove switch the first slot that fits *)

nwkGroupInit == [i \in 1..GroupsAmount |-> Unknown]

GroupSwitch(groups, from, to) ==
  LET at == {i \in DOMAIN groups : groups[i] = from}
  IN  IF at = {} THEN groups ELSE [groups EXCEPT ![Min(at)] = to]

GroupAdd(groups, group) == GroupSwitch(groups, Unknown, group)
GroupRemove(groups, group) == GroupSwitch(groups, group, Unknown)
IsMember(groups, group) == \E i \in DOMAIN groups : groups[i] = group

=============================================================================
