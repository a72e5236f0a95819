------------------------------- MODULE MCMesh -------------------------------
(* A node from the sketch down to the air, one part at a time: Mesh with two *)
(* kinds of sketch, one whose callbacks leave Mesh.loop alone and one that   *)
(* waits in a callback and calls Mesh.loop meanwhile; the blocks of secured  *)
(* frames; the driver of the transceiver.                                    *)
EXTENDS Mesh, NwkSecurity, Phy

VARIABLES
  part,
  loops  \* how many calls of Mesh.loop there may be on the stack

allVars == <<vars, nwkSecurityVars, phyVars, part, loops>>

\* What rests begins in one state.
MCInit ==
  /\ part \in {"mesh", "security", "radio"}
  /\ Init /\ loops \in IF part = "mesh" THEN 1..MaxLoops ELSE {1}
  /\ PhyInit
  /\ NwkSecurityInit
  /\ part # "security" => \A f \in Pool : pool[f].way = "out" /\ pool[f].plain = 0

\* Both frames have been through, and the security module has no more to do.
AllSecured == \A f \in Pool : pool[f].state = "done"

MCNext ==
  /\ UNCHANGED <<part, loops>>
  /\ \/ part = "mesh" /\ Next /\ Loops' <= loops
     \/ part # "mesh" /\ UNCHANGED vars
  /\ \/ part = "security" /\ NwkSecurityNext
     \/ (part # "security" \/ AllSecured) /\ UNCHANGED nwkSecurityVars
  /\ \/ part = "radio" /\ PhyNext
     \/ part # "radio" /\ UNCHANGED phyVars

\* The fairness of the parts, each for the part that runs: what rests is fair
\* anyway.
On(name) == part = name

MCFair ==
  /\ WF_vars(On("mesh") /\ Runs)
  /\ SF_vars(On("mesh") /\ ConfirmReturn) /\ SF_vars(On("mesh") /\ ReceiveReturn)
  /\ SF_vars(On("mesh") /\ Loop /\ stack = <<>>) /\ WF_vars(On("mesh") /\ wakeup)
  /\ SF_vars(On("mesh") /\ (NwkForward \/ NwkFrameEnds)) /\ SF_vars(On("mesh") /\ NwkConfirm)
  /\ WF_phyVars(On("radio") /\ TransceiverGoesOn) /\ WF_phyVars(On("radio") /\ PHY_TaskHandler)

MCSpec == MCInit /\ [][MCNext]_allVars /\ MCFair

\* The sending half is a queue of one place more than the buffer.
Sending == INSTANCE Fifo WITH
  Packets <- TxPackets, Size <- TxSize + 1,
  queue <- IF loops = 1 THEN Untold ELSE <<>>,
  out <- IF loops = 1 THEN told ELSE NoPacket

\* Every packet sendPacket accepts gets its own callback, once, in order,
\* only if no callback enters Mesh.loop: the next packet's may else come first.
CallbacksInOrder == Sending!Spec

\* Every packet sendPacket accepts gets its callback, even one that is still
\* in the buffer when the node goes to sleep.  Again only if no callback
\* enters Mesh.loop: the callback that returns clears txUserConfirm, which is
\* the next packet's if that has been sent meanwhile.
AllTold == \A p \in 1..MaxSend : loops = 1 /\ accepted = p ~> told >= p

\* What is accepted gets through, in both directions.
EachGetsThrough == AllTold /\ AllDelivered

=============================================================================
