-------------------------- MODULE MCAquilaProtocol --------------------------
(* Instances of AquilaProtocol for TLC.  Every kind of packet is there, and  *)
(* the entries are of two kinds.                                  *)
EXTENDS AquilaProtocol

CONSTANTS c1, c2

E1 == [cond |-> c1, act |-> 1]
E2 == [cond |-> c2, act |-> 0]

EveryAsk ==
  {[type |-> t] : t \in {"silent", "refused", "clear"}}
  \cup {[type |-> "getEntry"], [type |-> "getAction"], [type |-> "event", cond |-> c1]}
  \cup {[type |-> "addEntry", entry |-> e] : e \in {E2}}
  \cup {[type |-> "setEntry", n |-> n, entry |-> E1] : n \in {1}}
  \cup {[type |-> "delEntry", n |-> n] : n \in {0, 1}}
  \cup {[type |-> "action", n |-> n] : n \in {1}}

TwoEntries == {<<E1, E2>>}
TwoSubs == <<{c1}, {c2}>>
Sparse == {<<1, Add>>}

=============================================================================
