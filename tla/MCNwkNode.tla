------------------------------ MODULE MCNwkNode ------------------------------
(* Instances of NwkNode for TLC: what the application submits and what the  *)
(* other nodes may put on the air.                                          *)
EXTENDS NwkNode

CONSTANTS n1, n2

\* The application's requests are interchangeable.
SymmetricReqs == Permutations(Reqs)

Opt(dst, ack, sec) ==
  [dst |-> dst, ackRequest |-> ack, security |-> sec, linkLocal |-> FALSE,
   panBcast |-> FALSE]

\* A frame for "dst" heard from n1, its own or relayed for "src".
Hear(kind, src, dst, macDst, arg, ack, sec) ==
  [kind |-> kind, src |-> src, dst |-> dst, macSrc |-> n1, macDst |-> macDst,
   seq |-> 0, arg |-> arg, ackRequest |-> ack, security |-> sec,
   linkLocal |-> FALSE, panBcast |-> FALSE, mic |-> TRUE]

\* Sending: acknowledged and plain requests to a neighbour and to everyone,
\* answered by acknowledgements, among them late and repeated ones.
TxOptions == {Opt(n1, TRUE, FALSE), Opt(n1, FALSE, TRUE)}
TxHeaders == {Hear("ack", n1, Me, Me, s, FALSE, FALSE) : s \in Seqs}

\* Receiving: every way a frame can take through nwkRx.c.
RxOptions == {Opt(n1, TRUE, FALSE), [Opt(n1, FALSE, FALSE) EXCEPT !.panBcast = TRUE]}
RxEverything ==
  LET toUs == Hear("data", n1, Me, Me, 0, TRUE, FALSE) IN
  {toUs,
   [toUs EXCEPT !.security = TRUE],
   [toUs EXCEPT !.security = TRUE, !.mic = FALSE],
   [toUs EXCEPT !.macDst = Bcast, !.ackRequest = FALSE],
   [toUs EXCEPT !.panBcast = TRUE],
   [toUs EXCEPT !.kind = "multicast"],
   [toUs EXCEPT !.src = Me],
   Hear("data", n1, Bcast, Bcast, 0, FALSE, FALSE),
   Hear("data", n1, n2, Me, 0, TRUE, FALSE),
   Hear("data", n1, n2, Bcast, 0, FALSE, FALSE),
   Hear("routeError", n1, Me, Me, n2, FALSE, FALSE),
   Hear("ack", n1, Me, Bcast, 1, FALSE, FALSE),
   Hear("ack", n2, Me, Me, 1, FALSE, TRUE)}

\* A node that sends and hears acknowledgements, and one that sends once and
\* hears frames of every kind.
VARIABLE scene

\* What belongs to the scene.
Allowed ==
  IF scene = "sends"
  THEN /\ \A r \in Reqs : reqs[r].opt \in TxOptions \cup {NoOptions}
       /\ radio.rx.on => radio.rx.hdr \in TxHeaders
       /\ radio.trac # "CHANNEL_ACCESS_FAILURE" /\ received <= 1
  ELSE /\ \A r \in Reqs : reqs[r].opt \in RxOptions \cup {NoOptions}
       /\ radio.rx.on => radio.rx.hdr \in RxEverything
       /\ radio.trac # "NO_ACK" /\ submitted <= 1

MCInit == Init /\ scene \in {"sends", "hears"}

MCNext == UNCHANGED scene /\ Next /\ Allowed'

MCSpec == MCInit /\ [][MCNext]_<<vars, scene>>

\* All that a node does, fairly.
LiveInit == Init /\ scene = "sends"

LiveNext == UNCHANGED scene /\ Next

LiveSpec == LiveInit /\ [][LiveNext]_<<vars, scene>> /\ Fairness

EveryOption == TxOptions \cup RxOptions
EveryHeader == TxHeaders \cup RxEverything

=============================================================================
