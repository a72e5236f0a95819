---------------------------- MODULE NwkMulticast ----------------------------
(***************************************************************************)
(* Frames for a group (NWK_ENABLE_MULTICAST, without route discovery).  A  *)
(* source outside the group sends along the routes it has for the group,   *)
(* to the first member on the way; from there, or from a source without a  *)
(* route, the frame floods the network.  It carries two radii, how many    *)
(* members and how many other nodes in a row may repeat it: a node spends  *)
(* the radius of its kind and sets the other one back.                     *)
(*                                                                         *)
(* The air holds what is to be sent, to be hearing at once by those in reach *)
(* but for what gets lost.  Of the duplicate table (NwkDuplicate) the      *)
(* numbers are kept, and they are not forgotten while copies are about.    *)
(* Routes age elsewhere (NwkRoute); here they are removed by a duplicate   *)
(* and by a route error.                                                   *)
(***************************************************************************)
EXTENDS Integers, Sequences, FiniteSets

CONSTANTS
  Stations,      \* the nodes of the network
  Origin,        \* the one that sends
  Everyone,      \* NWK_BROADCAST_ADDR; as a route it is NWK_ROUTE_UNKNOWN
  Floods,        \* what MulticastInit chooses from: links, who hears whom;
                 \* members, who is in the group; the two radii of a request;
                 \* and routes, the route for the group of each node
  MaxMulticasts, \* bound: frames sent
  MaxLost        \* bound: copies that are lost or find no frame

ASSUME NwkMulticastAssumption ==
  /\ IsFiniteSet(Stations) /\ Origin \in Stations /\ Everyone \notin Stations
  /\ MaxMulticasts \in Nat /\ MaxLost \in Nat

\* A route is learned from a frame of the node it leads to, so that node is in
\* reach.
ASSUME FloodsAssumption ==
  \A f \in Floods :
    /\ f.links \subseteq {l \in Stations \X Stations : l[1] # l[2]}
    /\ f.members \subseteq Stations
    /\ f.memberRadius \in Nat /\ f.nonMemberRadius \in Nat
    /\ f.routes \in [Stations -> Stations \cup {Everyone}]
    /\ \A n \in Stations : f.routes[n] # Everyone => <<n, f.routes[n]>> \in f.links

VARIABLES
  flood,       \* the choice
  groupRoute,  \* the route for the group of each node
  seen,        \* numbers of the source in the duplicate table of each node
  carried,     \* frames to be sent
  routeErrors, \* route errors on their way to the source
  numbered,    \* nwkSeqNum of the source
  indicated,   \* how often each node got each frame
  leg,         \* the nodes each frame was routed to, in their order
  lost         \* copies lost so far

multicastVars == <<flood, groupRoute, seen, carried, routeErrors, numbered, indicated, leg, lost>>

GroupMember(n) == n \in flood.members
Frames == 1..MaxMulticasts

-----------------------------------------------------------------------------

\* A frame for the group, from a node to the next one or to all.
GroupFrame(seq, from, to, most, others) ==
  [seq |-> seq, from |-> from, to |-> to, memberRadius |-> most, nonMemberRadius |-> others]

\* nwkDataReqSendFrame and nwkRoutePrepareTx: a member broadcasts, another
\* node sends to its next hop, and if it has none that is the address of all.
NWK_MulticastReq ==
  /\ numbered < MaxMulticasts
  /\ numbered' = numbered + 1
  /\ carried' = carried \cup
       {GroupFrame(numbered', Origin, IF GroupMember(Origin) THEN Everyone ELSE groupRoute[Origin],
                   flood.memberRadius, flood.nonMemberRadius)}
  /\ UNCHANGED <<flood, groupRoute, seen, routeErrors, indicated, leg, lost>>

\* nwkTxBroadcastFrame
BroadcastFrame(n, f, most, others) == {GroupFrame(f.seq, n, Everyone, most, others)}

\* Wrong on purpose: spends a radius and does not set the other one back.
RepeatedSpending(n, f) ==
  IF GroupMember(n)
    THEN IF f.memberRadius > 0
           THEN BroadcastFrame(n, f, f.memberRadius - 1, f.nonMemberRadius) ELSE {}
    ELSE IF f.nonMemberRadius > 0
           THEN BroadcastFrame(n, f, f.memberRadius, f.nonMemberRadius - 1) ELSE {}

\* What node n repeats of a frame that came by broadcast.
Repeated(n, f) ==
  IF GroupMember(n)
    THEN IF f.memberRadius > 0
           THEN BroadcastFrame(n, f, f.memberRadius - 1, flood.nonMemberRadius) ELSE {}
    ELSE IF f.nonMemberRadius > 0
           THEN BroadcastFrame(n, f, flood.memberRadius, f.nonMemberRadius - 1) ELSE {}

\* What it makes of one that was routed to it: the first member lets it flood,
\* another node routes it on if it has a route (nwkRouteFrame).
Routed(n, f) ==
  IF GroupMember(n) THEN BroadcastFrame(n, f, f.memberRadius, f.nonMemberRadius)
  ELSE IF groupRoute[n] # Everyone
         THEN {GroupFrame(f.seq, n, groupRoute[n], f.memberRadius, f.nonMemberRadius)}
  ELSE {}

PassedOn(n, f) == IF f.to = Everyone THEN Repeated(n, f) ELSE Routed(n, f)

InReach(f) == {n \in Stations : <<f.from, n>> \in flood.links /\ f.to \in {n, Everyone}}

\* Who has to allocate a frame: routing it on uses the one received.
Allocates(n, f) == f.to = Everyone \/ GroupMember(n) \/ groupRoute[n] = Everyone

\* nwkRxHandleReceivedFrame in every node that hears the frame.  "full" are
\* those that find no free frame for the copy or the route error.  A duplicate
\* of what was sent to this node alone costs it its route.
Hear(f, hearing, full) ==
  LET new == {n \in hearing \ {Origin} : f.seq \notin seen[n]}
      stranded == {n \in new : f.to = n /\ ~GroupMember(n) /\ groupRoute[n] = Everyone}
  IN  /\ lost' = lost + Cardinality(InReach(f) \ hearing) + Cardinality(full)
      /\ seen' = [n \in Stations |-> IF n \in new THEN seen[n] \cup {f.seq} ELSE seen[n]]
      /\ groupRoute' = [n \in Stations |->
           IF f.to = n /\ n \in (hearing \ {Origin}) \ new THEN Everyone ELSE groupRoute[n]]
      /\ carried' = (carried \ {f}) \cup UNION {PassedOn(n, f) : n \in new \ full}
      /\ routeErrors' = routeErrors + Cardinality(stranded \ full)
      /\ indicated' = [indicated EXCEPT ![f.seq] =
           [n \in Stations |-> @[n] + IF n \in new /\ GroupMember(n) THEN 1 ELSE 0]]
      /\ leg' = IF f.to \in new THEN [leg EXCEPT ![f.seq] = Append(@, f.to)] ELSE leg
      /\ UNCHANGED <<flood, numbered>>

HearAny ==
  \E f \in carried : \E hearing \in SUBSET InReach(f) :
    \E full \in SUBSET {n \in hearing : Allocates(n, f)} :
      Hear(f, hearing, full) /\ lost' <= MaxLost

\* nwkRouteErrorReceived at the source, or the command is lost.
RouteErrorEnds ==
  /\ routeErrors > 0 /\ routeErrors' = routeErrors - 1
  /\ groupRoute' \in {groupRoute, [groupRoute EXCEPT ![Origin] = Everyone]}
  /\ UNCHANGED <<flood, seen, carried, numbered, indicated, leg, lost>>

MulticastInit ==
  /\ flood \in Floods /\ groupRoute = flood.routes
  /\ seen = [n \in Stations |-> {}] /\ carried = {} /\ routeErrors = 0 /\ numbered = 0
  /\ indicated = [k \in Frames |-> [n \in Stations |-> 0]]
  /\ leg = [k \in Frames |-> <<>>] /\ lost = 0

MulticastNext == NWK_MulticastReq \/ HearAny \/ RouteErrorEnds

-----------------------------------------------------------------------------
(* Properties *)

\* Ways through the network, each node at most once.
Ways == {w \in UNION {[1..k -> Stations] : k \in 0..Cardinality(Stations)} :
           \A i, j \in DOMAIN w : w[i] = w[j] => i = j}

\* Where the flood begins, and the nodes that do not repeat it.
Start(k) == IF leg[k] = <<>> THEN Origin ELSE leg[k][Len(leg[k])]
Passed(k) == {Origin} \cup {leg[k][i] : i \in DOMAIN leg[k]}
Flooded(k) == leg[k] = <<>> \/ GroupMember(Start(k))

\* The flood may come to n over the nodes of w: no longer row of members, and
\* none of others, than the radii allow.
MayRepeat(w) ==
  \A i, j \in DOMAIN w :
    /\ (\A x \in i..j : GroupMember(w[x])) => j - i < flood.memberRadius
    /\ (\A x \in i..j : ~GroupMember(w[x])) => j - i < flood.nonMemberRadius

\* Over the nodes of w there is a way from where the flood begins to n.
Runs(k, w, n) ==
  /\ \A i \in DOMAIN w : w[i] \notin Passed(k) \cup {n}
  /\ LET way == <<Start(k)>> \o w \o <<n>>
     IN \A i \in 1..(Len(way) - 1) : <<way[i], way[i + 1]>> \in flood.links

Leads(k, w, n) == Runs(k, w, n) /\ MayRepeat(w)

ReachedBy(k) ==
  {n \in flood.members \ Passed(k) : Flooded(k) /\ \E w \in Ways : Leads(k, w, n)}
    \cup ((flood.members \cap {Start(k)}) \ {Origin})

\* Copies that come over several ways race: the first one to arrive counts,
\* though a later one had more radius left.
OneWay(k) ==
  \A n \in Stations \ Passed(k) : \A v, w \in {x \in Ways : Runs(k, x, n)} : v = w

\* Every member gets a frame for the group once at most, and only over a row
\* of nodes the radii allow; no other node gets it, nor its source.  When no
\* copy is left and none was lost, and the flood had one way to each node,
\* every member the radii allow has got it.
MulticastIsExact ==
  \A k \in 1..numbered :
    /\ \A n \in Stations : indicated[k][n] <= 1
    /\ \A n \in Stations : indicated[k][n] = 1 => n \in ReachedBy(k)
    /\ lost = 0 /\ (\A f \in carried : f.seq # k) /\ OneWay(k)
         => \A n \in ReachedBy(k) : indicated[k][n] = 1

=============================================================================
