------------------------------ MODULE NwkService ------------------------------
(***************************************************************************)
(* What the network layer promises an application that uses NWK_DataReq:   *)
(* a request it has accepted is confirmed, once, with a status; SUCCESS    *)
(* for a request that asked for an acknowledgement means one came; and     *)
(* NWK_Busy is true as long as a request is unanswered.                    *)
(***************************************************************************)
EXTENDS Naturals

CONSTANTS Reqs, Status

Waiting == "WAITING"

VARIABLES
  pending,  \* requests the layer owns
  wantsAck, \* requests submitted with NWK_OPT_ACK_REQUEST
  acked,    \* requests whose acknowledgement has arrived
  outcome,  \* status each request was last confirmed with, Waiting until then
  busy      \* NWK_Busy()

svars == <<pending, wantsAck, acked, outcome, busy>>

Init ==
  /\ pending = {} /\ wantsAck = {} /\ acked = {}
  /\ outcome \in [Reqs -> Status]
  /\ busy = FALSE

Submit(r, ack) ==
  /\ r \notin pending
  /\ pending' = pending \cup {r}
  /\ wantsAck' = IF ack THEN wantsAck \cup {r} ELSE wantsAck \ {r}
  /\ acked' = acked \ {r}
  /\ busy' = TRUE
  /\ outcome' = [outcome EXCEPT ![r] = Waiting]

AckArrives ==
  /\ \E S \in SUBSET pending : acked' = acked \cup S
  /\ UNCHANGED <<pending, wantsAck, outcome, busy>>

Confirm(r, status) ==
  /\ r \in pending
  /\ status = "SUCCESS" /\ r \in wantsAck => r \in acked
  /\ pending' = pending \ {r}
  /\ outcome' = [outcome EXCEPT ![r] = status]
  /\ busy' \in BOOLEAN /\ (pending' # {} => busy')
  /\ UNCHANGED <<wantsAck, acked>>

\* The layer's own work: acknowledging, relaying.
Work ==
  /\ busy' \in BOOLEAN /\ (pending # {} => busy')
  /\ UNCHANGED <<pending, wantsAck, acked, outcome>>

Next ==
  \/ \E r \in Reqs, ack \in BOOLEAN : Submit(r, ack)
  \/ AckArrives
  \/ \E r \in Reqs, status \in Status : Confirm(r, status)
  \/ Work

Safe == Init /\ [][Next]_svars
Spec == Safe /\ \A r \in Reqs : WF_svars(\E status \in Status : Confirm(r, status))

=============================================================================
