--------------------------- MODULE MCMeshControl ---------------------------
(* Networks: three nodes that look for their addresses, or five with a group. *)
(* One of the two is chosen at the start and the other rests.                 *)
EXTENDS MeshControl, NwkMulticast, TLC

CONSTANTS n1, n2, n3, s, a, b, c, d

VARIABLE part

\* Two EUIs give the same address, in the manual range before it is moved
\* up, and the third the address it is moved to.  The second EUI is such that
\* its next address is past the end of the address space.
SameCrc == (n1 :> 1) @@ (n2 :> 1) @@ (n3 :> 4)
IdBytes == (n1 :> 0) @@ (n2 :> 5) @@ (n3 :> 0)

-----------------------------------------------------------------------------
(* Groups in a line, in a star and in a ring with two ways to a member *)

Both(pairs) == pairs \cup {<<p[2], p[1]>> : p \in pairs}
Line == Both({<<s, a>>, <<a, b>>, <<b, c>>, <<c, d>>})
Star == Both({<<s, a>>, <<a, b>>, <<a, c>>, <<c, d>>})
Ring == Both({<<s, a>>, <<s, b>>, <<a, c>>, <<b, c>>, <<c, d>>})

Flood(network, group, most, others, known) ==
  [links |-> network, members |-> group, memberRadius |-> most, nonMemberRadius |-> others,
   routes |-> known @@ [n \in Stations |-> Everyone]]
NoRoutes == s :> Everyone

\* Floods that the radii let through and that they end; routes to a member,
\* to a node without one, and in a loop.
FloodChoices ==
  {Flood(Line, {s, a, c, d}, 1, 1, NoRoutes), Flood(Line, {s, a, b, c, d}, 2, 0, NoRoutes),
   Flood(Line, {c, d}, 1, 1, (s :> a) @@ (a :> b) @@ (b :> c)),
   Flood(Line, {d}, 2, 1, (s :> a) @@ (a :> b)),
   Flood(Star, {b, d}, 1, 2, (s :> a) @@ (a :> c) @@ (c :> a)),
   Flood(Ring, {a, b, c, d}, 1, 1, (s :> a)), Flood(Ring, {d}, 1, 2, NoRoutes)}

-----------------------------------------------------------------------------

allVars == <<vars, multicastVars, part>>

MCInit ==
  /\ part \in {"addresses", "group"}
  /\ Init /\ MulticastInit
  /\ part # "group" => flood = CHOOSE f \in Floods : TRUE

MCNext ==
  /\ UNCHANGED part
  /\ \/ part = "addresses" /\ Next /\ UNCHANGED multicastVars
     \/ part = "group" /\ MulticastNext /\ UNCHANGED vars

\* Fairness is for the nodes that look for addresses.
MCSpec ==
  /\ MCInit /\ [][MCNext]_allVars
  /\ \A n \in Nodes : /\ WF_vars(part = "addresses" /\ Assigns(n))
                      /\ WF_vars(part = "addresses" /\ ReplySent(n))

=============================================================================
