-------------------------- MODULE NwkRouteDiscovery --------------------------
(***************************************************************************)
(* How the nodes of a network come to know routes.  Built without route    *)
(* discovery, as the configuration of this repository has it, a node       *)
(* learns from every frame it hears; built with it, a frame for an unknown *)
(* destination waits while a request floods the network and replies come   *)
(* back along the best links (nwkRouteDiscovery.c).  Init chooses the      *)
(* build.                                                                  *)
(*                                                                         *)
(* A node is its routing table, its discovery table with the timer, and    *)
(* the frames that wait for a route.  The air holds the requests and       *)
(* replies that are to be sent, in any order, each to be heard at once by  *)
(* some of those in reach or by none, which also stands for a pool without *)
(* a frame to send it.                                                     *)
(***************************************************************************)
EXTENDS NwkRoute, SequencesExt

CONSTANTS
  Nodes, Absent,    \* nodes, and an address nobody has
  NonRouting,       \* nodes with NWK_ROUTE_NON_ROUTING
  Group,            \* the address of a group
  Members,          \* nodes that join and leave the group
  Source,           \* the node whose frames are looked at
  Best,             \* NWK_ROUTE_DISCOVERY_BEST_LINK_QUALITY
  DiscoveryTableSize,
  DiscoveryTicks,   \* NWK_ROUTE_DISCOVERY_TIMEOUT in timer intervals
  Setups,           \* what Init chooses from: the build, "learning" or
                    \* "discovery"; links[a][b], the lqi with which b hears
                    \* a, 0 if it does not; whether the sketch made the first
                    \* route of the source a fixed one; and the bounds:
                    \* traffic, the destinations of the frames it sends, and
                    \* tries, the ends of transmissions, errors and leaves
  MaxFrames,        \* bound: the length of a traffic
  MaxLearned          \* bound: frames overheard

ASSUME NwkRouteDiscoveryAssumption ==
  /\ Source \in Nodes /\ Absent \notin Nodes /\ Group \notin Nodes \cup {Absent, Unknown}
  /\ Unknown \notin Nodes \cup {Absent}
  /\ \A choice \in Setups : Len(choice.traffic) <= MaxFrames
  /\ DiscoveryTableSize \in Nat /\ DiscoveryTicks \in Nat \ {0}

VARIABLES
  setup,
  route,     \* nwkRouteTable of each node
  groups,    \* nwkGroups of each node
  discovery, \* nwkRouteDiscoveryTable of each node
  timer,     \* whether nwkRouteDiscoveryTimer is started
  waiting,   \* frames in NWK_RD_STATE_WAIT_FOR_ROUTE
  air,
  outcome,   \* what became of the frames of the source
  frames, tries

tables == <<route, groups, discovery, timer, waiting>>
vars == <<setup, tables, air, outcome, frames, tries>>

Multicast(dst) == dst = Group

\* nwkRouteDiscoveryUpdateLq, with as many bits as Best has.
UpdateLq(a, b) == (a * b) \div (Best + 1)

-----------------------------------------------------------------------------
(* The discovery table.  "me" is a node with what it works on: its tables,  *)
(* the copies it sends, and the frames it tells an outcome of.              *)

Me(n) == [addr |-> n, route |-> route[n], table |-> discovery[n], timer |-> timer[n],
          waiting |-> waiting[n], out |-> {}, told |-> <<>>]

FindDiscovery(me, src, dst) ==
  {i \in DOMAIN me.table :
     me.table[i].timeout > 0 /\ me.table[i].src = src /\ me.table[i].dst = dst}

FreeDiscoveries(me) == {i \in DOMAIN me.table : me.table[i].timeout = 0}

\* nwkRouteDiscoveryNewEntry starts the timer.
NewDiscovery(me, src, dst, sender) ==
  [me EXCEPT !.table[Min(FreeDiscoveries(me))] =
               [src |-> src, dst |-> dst, sender |-> sender,
                forward |-> 0, reverse |-> 0, timeout |-> DiscoveryTicks],
             !.timer = TRUE]

Hearers(n) == {m \in Nodes : setup.links[n][m] > 0}

SendRequest(me, src, dst, quality) ==
  [me EXCEPT !.out = @ \cup
     {[kind |-> "request", from |-> me.addr, to |-> Nodes, src |-> src, dst |-> dst,
       forward |-> quality, reverse |-> 0]}]

SendReply(me, entry, forward, reverse) ==
  [me EXCEPT !.out = @ \cup
     {[kind |-> "reply", from |-> me.addr, to |-> {entry.sender}, src |-> entry.src,
       dst |-> entry.dst, forward |-> forward, reverse |-> reverse]}]

Tell(me, frame, status) == [me EXCEPT !.told = Append(@, <<frame.id, status>>)]

\* nwkRouteDiscoveryRequest.  "sent" is whether there is a frame for the
\* request; if not, the new entry stays.
Request(me, frame, sent) ==
  LET asked == FindDiscovery(me, me.addr, frame.dst)
      started == NewDiscovery(me, me.addr, frame.dst, Unknown)
  IN  IF asked # {}
        THEN [me EXCEPT !.waiting = @ \cup {frame}]
      ELSE IF FreeDiscoveries(me) = {}
        THEN Tell(me, frame, "noRoute")
      ELSE IF sent
        THEN SendRequest([started EXCEPT !.waiting = @ \cup {frame}], me.addr, frame.dst, Best)
      ELSE Tell(started, frame, "noRoute")

\* nwkTxFrame and nwkRoutePrepareTx: over the route if there is one.  A frame
\* for a group the node is in is broadcast.
Transmit(me, frame, sent) ==
  IF IsMember(groups[me.addr], frame.dst) \/ NextHop(me.route, frame.dst, Multicast(frame.dst)) # Unknown
    THEN Tell(me, frame, "sent")
    ELSE Request(me, frame, sent)

\* nwkRouteDiscoveryDone: every frame that waits for this destination.
Done(me, dst, found, sent) ==
  LET those == {f \in me.waiting : f.dst = dst}
      without == [me EXCEPT !.waiting = @ \ those]
  IN  FoldSet(LAMBDA f, m : IF found THEN Transmit(m, f, sent) ELSE Tell(m, f, "noRoute"),
              without, those)

\* Writes back what a node has worked on.
Becomes(me) ==
  LET n == me.addr IN
  /\ route' = [route EXCEPT ![n] = me.route]
  /\ discovery' = [discovery EXCEPT ![n] = me.table]
  /\ timer' = [timer EXCEPT ![n] = me.timer]
  /\ waiting' = [waiting EXCEPT ![n] = me.waiting]
  /\ air' = air \cup me.out
  /\ outcome' = [id \in 1..MaxFrames |->
       IF \E k \in DOMAIN me.told : me.told[k][1] = id
         THEN (CHOOSE t \in Range(me.told) : t[1] = id)[2] ELSE outcome[id]]
  /\ UNCHANGED <<setup, groups>>

-----------------------------------------------------------------------------
(* The build with route discovery *)

Send ==
  /\ setup.build = "discovery" /\ frames < Len(setup.traffic)
  /\ frames' = frames + 1
  /\ \E sent \in BOOLEAN :
       LET frame == [id |-> frames', dst |-> setup.traffic[frames']]
           me == Transmit(Me(Source), frame, sent)
       IN  Becomes(IF me.told = <<>> THEN Tell(me, frame, "waiting") ELSE me)
  /\ UNCHANGED tries

Replies(n, dst) == dst = n \/ IsMember(groups[n], dst)

\* Wrong on purpose: goes on with every copy of a request.
RequestReceivedAgain(n, c) ==
  LET me == Me(n)
      quality == UpdateLq(c.forward, setup.links[c.from][n])
      known == FindDiscovery(me, c.src, c.dst)
      entered == IF known # {} THEN me ELSE NewDiscovery(me, c.src, c.dst, c.from)
      i == IF known # {} THEN Min(known) ELSE Min(FreeDiscoveries(me))
      marked == [entered EXCEPT !.table[i].sender = c.from, !.table[i].forward = quality]
      routed == [marked EXCEPT !.route = UpdateEntry(@, c.src, FALSE, c.from, quality)]
  IN  IF \/ c.src = n
         \/ ~Replies(n, c.dst) /\ n \in NonRouting
         \/ known = {} /\ FreeDiscoveries(me) = {}
        THEN me
      ELSE IF Replies(n, c.dst)
        THEN SendReply(routed, routed.table[i], quality, Best)
      ELSE SendRequest(marked, c.src, c.dst, quality)

\* nwkRouteDiscoveryRequestReceived.  Another copy of a request counts only
\* if it came over better links.
RequestReceived(n, c) ==
  LET me == Me(n)
      quality == UpdateLq(c.forward, setup.links[c.from][n])
      known == FindDiscovery(me, c.src, c.dst)
      entered == IF known # {} THEN me ELSE NewDiscovery(me, c.src, c.dst, c.from)
      i == IF known # {} THEN Min(known) ELSE Min(FreeDiscoveries(me))
      marked == [entered EXCEPT !.table[i].sender = c.from, !.table[i].forward = quality]
      routed == [marked EXCEPT !.route = UpdateEntry(@, c.src, FALSE, c.from, quality)]
  IN  IF \/ c.src = n
         \/ ~Replies(n, c.dst) /\ n \in NonRouting
         \/ known # {} /\ quality <= me.table[Min(known)].forward
         \/ known = {} /\ FreeDiscoveries(me) = {}
        THEN me
      ELSE IF Replies(n, c.dst)
        THEN SendReply(routed, routed.table[i], quality, Best)
      ELSE SendRequest(marked, c.src, c.dst, quality)

\* nwkRouteDiscoveryReplyReceived.
ReplyReceived(n, c) ==
  LET me == Me(n)
      quality == UpdateLq(c.reverse, setup.links[c.from][n])
      known == FindDiscovery(me, c.src, c.dst)
      i == Min(known)
      entry == me.table[i]
      marked == [me EXCEPT !.table[i].reverse = c.forward]
      there == UpdateEntry(me.route, c.dst, Multicast(c.dst), c.from,
                           IF c.src = n THEN c.forward ELSE quality)
  IN  IF known = {} \/ c.forward <= me.table[Min(known)].reverse
        THEN me
      ELSE IF c.src = n
        THEN [marked EXCEPT !.route = there]
      ELSE SendReply([marked EXCEPT !.route =
                        UpdateEntry(there, c.src, FALSE, entry.sender, entry.forward)],
                     entry, c.forward, quality)

Hear(c, heard) ==
  LET me == [n \in heard |-> IF c.kind = "request" THEN RequestReceived(n, c) ELSE ReplyReceived(n, c)]
  IN  /\ c \in air
      /\ route' = [n \in Nodes |-> IF n \in heard THEN me[n].route ELSE route[n]]
      /\ discovery' = [n \in Nodes |-> IF n \in heard THEN me[n].table ELSE discovery[n]]
      /\ timer' = [n \in Nodes |-> IF n \in heard THEN me[n].timer ELSE timer[n]]
      /\ air' = (air \ {c}) \cup UNION {me[n].out : n \in heard}
      /\ UNCHANGED <<setup, groups, waiting, outcome, frames, tries>>

HearSome == \E c \in air : \E heard \in SUBSET (c.to \cap Hearers(c.from)) : Hear(c, heard)

\* Wrong on purpose: the handler does not start the timer again.
RestartsNever(me) == FALSE
Restarts(me) == \E i \in DOMAIN me.table : me.table[i].timeout > 1

\* One entry in nwkRouteDiscoveryTimerHandler.  An entry that ended earlier
\* still names its destination, and is done again.
TickEntry(me, i, sent) ==
  LET entry == me.table[i] IN
  IF entry.timeout > 1
    THEN [me EXCEPT !.table[i].timeout = @ - 1]
  ELSE IF entry.src = me.addr
    THEN Done([me EXCEPT !.table[i].timeout = 0], entry.dst, entry.reverse > 0, sent)
  ELSE [me EXCEPT !.table[i].timeout = 0]

\* Assumed of the radio: what a discovery has sent is heard or lost before an
\* entry of it ends (milliseconds against NWK_ROUTE_DISCOVERY_TIMEOUT).
Timely(n) ==
  \A i \in DOMAIN discovery[n] :
    discovery[n][i].timeout = 1 =>
      ~\E c \in air : c.src = discovery[n][i].src /\ c.dst = discovery[n][i].dst

TimerHandler(n) ==
  /\ timer[n]
  /\ Timely(n)
  /\ \E sent \in BOOLEAN :
       LET me == Me(n)
           before == [me EXCEPT !.timer = FALSE]
           after == FoldLeft(LAMBDA m, i : TickEntry(m, i, sent), before,
                             [i \in 1..DiscoveryTableSize |-> i])
           again == [after EXCEPT !.timer = @ \/ Restarts(me)]
       IN  Becomes(again)
  /\ UNCHANGED <<frames, tries>>

-----------------------------------------------------------------------------
(* The build that learns, and what both do with a route *)

\* nwkRouteFrameReceived, which comes before copies are told apart.
Overhear(n, src, via) ==
  /\ setup.build = "learning" /\ frames < MaxLearned
  /\ src # n /\ setup.links[via][n] > 0 /\ (via \in NonRouting => via = src)
  /\ frames' = frames + 1
  /\ \E toUs \in BOOLEAN :
       route' = [route EXCEPT ![n] = FrameReceived(@, src, via, setup.links[via][n], toUs)]
  /\ UNCHANGED <<setup, groups, discovery, timer, waiting, air, outcome, tries>>

\* nwkRouteFrameSent, when a transmission over a route has ended.
Sent(n, dst, success) ==
  /\ tries < setup.tries /\ tries' = tries + 1
  /\ NextHop(route[n], dst, Multicast(dst)) # Unknown
  /\ route' = [route EXCEPT ![n] = FrameSent(@, dst, Multicast(dst), success)]
  /\ UNCHANGED <<setup, groups, discovery, timer, waiting, air, outcome, frames>>

\* nwkRouteErrorReceived.
RouteError(n, dst) ==
  /\ tries < setup.tries /\ tries' = tries + 1
  /\ route' = [route EXCEPT ![n] = RouteRemove(@, dst, Multicast(dst))]
  /\ UNCHANGED <<setup, groups, discovery, timer, waiting, air, outcome, frames>>

Join(n) ==
  /\ setup.build = "discovery" /\ ~IsMember(groups[n], Group)
  /\ groups' = [groups EXCEPT ![n] = GroupAdd(@, Group)]
  /\ UNCHANGED <<setup, route, discovery, timer, waiting, air, outcome, frames, tries>>

Leave(n) ==
  /\ setup.build = "discovery" /\ tries < setup.tries /\ tries' = tries + 1
  /\ IsMember(groups[n], Group)
  /\ groups' = [groups EXCEPT ![n] = GroupRemove(@, Group)]
  /\ UNCHANGED <<setup, route, discovery, timer, waiting, air, outcome, frames>>

-----------------------------------------------------------------------------

NoDiscovery == [src |-> Unknown, dst |-> Unknown, sender |-> Unknown,
                forward |-> 0, reverse |-> 0, timeout |-> 0]

Init ==
  /\ setup \in Setups
  /\ route = [n \in Nodes |-> IF n = Source /\ setup.fixed
       THEN [nwkRouteInit EXCEPT ![1].fixed = TRUE, ![1].dst = Absent, ![1].nextHop = Absent]
       ELSE nwkRouteInit]
  /\ groups = [n \in Nodes |-> nwkGroupInit]
  /\ discovery = [n \in Nodes |-> [i \in 1..DiscoveryTableSize |-> NoDiscovery]]
  /\ timer = [n \in Nodes |-> FALSE] /\ waiting = [n \in Nodes |-> {}]
  /\ air = {} /\ outcome = [id \in 1..MaxFrames |-> "none"]
  /\ frames = 0 /\ tries = 0

Next ==
  \/ Send
  \/ HearSome
  \/ \E n \in Nodes : TimerHandler(n)
  \/ \E src \in Nodes, via \in Nodes : Overhear(Source, src, via)
  \/ \E dst \in (Nodes \ {Source}) \cup {Group}, success \in BOOLEAN : Sent(Source, dst, success)
  \/ \E dst \in (Nodes \ {Source}) \cup {Group} : RouteError(Source, dst)
  \/ \E n \in Members : Join(n) \/ Leave(n)

Spec == Init /\ [][Next]_vars

\* A timer that was started fires, and what is to be sent is sent.  These are
\* WF_vars(TimerHandler(n)) and WF_vars(HearSome) with their ENABLED written
\* out: either action always changes something.
TimersFire ==
  \A n \in Nodes : []<>~(timer[n] /\ Timely(n)) \/ []<><<TimerHandler(n)>>_vars
AirEmpties == []<>(air = {}) \/ []<><<HearSome>>_vars

FairSpec == Spec /\ TimersFire /\ AirEmpties

-----------------------------------------------------------------------------
(* Properties *)

\* A route is thrown out for a new one only when no entry is free, although
\* lowering the ranks gives free entries a rank as well.
FreeFirst ==
  \A n \in Nodes :
    \/ route[n][NewEntry(route[n])].dst = Unknown
    \/ \A i \in DOMAIN route[n] : route[n][i].dst # Unknown

\* A route that fails as often in a row as its score says is given up; no
\* score passes zero.
ScoresCount ==
  \A n \in Nodes : \A i \in DOMAIN route[n] :
    LET r == route[n][i] IN r.dst # Unknown /\ ~r.fixed => r.score \in 1..DefaultScore

\* The table keeps a route as long as its score and its rank deserve.
TableIsSound == FreeFirst /\ ScoresCount

\* A frame that waits for a route is told what became of it.
WaitersServed == \A id \in 1..MaxFrames : outcome[id] = "waiting" ~> outcome[id] \in {"sent", "noRoute"}

\* The routes of one discovery never lead two nodes to each other, although
\* copies of its request come round over other ways and answers to an earlier
\* and a later copy cross.  (Those of two discoveries for one destination may.)
NoPairLoop ==
  setup.build = "discovery" /\ frames <= 1 =>
    \A dst \in Nodes : \A m, n \in Nodes \ {dst} :
      NextHop(route[m], dst, FALSE) = n /\ NextHop(route[n], dst, FALSE) = m => m = n

=============================================================================
