---------------------------- MODULE Transceiver ----------------------------
(* What the network layer relies on: a frame it asks to have sent is        *)
(* confirmed once, with the status of its own transmission, and a frame is  *)
(* indicated as it was received, once and in order, or lost.                *)
EXTENDS Integers

CONSTANT Tracs, MaxFrames

VARIABLES
  request,  \* "none", "asked", or the status its transmission ended with
  result,   \* the status confirmed last
  waiting,  \* the frame that is received and not indicated, 0 for none
  told      \* the frame indicated last

Ask == request = "none" /\ request' = "asked" /\ waiting' = 0 /\ UNCHANGED <<result, told>>

Ends ==
  request = "asked" /\ request' \in Tracs /\ UNCHANGED <<result, waiting, told>>

Confirm ==
  /\ request \in Tracs /\ request' = "none" /\ result' = request
  /\ UNCHANGED <<waiting, told>>

Hear ==
  /\ waiting = 0 /\ waiting' \in (told + 1)..MaxFrames
  /\ UNCHANGED <<request, result, told>>

Indicate ==
  waiting # 0 /\ told' = waiting /\ waiting' = 0 /\ UNCHANGED <<request, result>>

Lose == waiting # 0 /\ waiting' = 0 /\ UNCHANGED <<request, result, told>>

Next == Ask \/ Ends \/ Confirm \/ Hear \/ Indicate \/ Lose

Spec ==
  /\ request = "none" /\ result = "none" /\ waiting = 0 /\ told = 0
  /\ [][Next]_<<request, result, waiting, told>>

=============================================================================
