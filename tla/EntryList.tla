------------------------------ MODULE EntryList ------------------------------
(***************************************************************************)
(* What the hub may take the table of a node for: a list that takes an     *)
(* entry in somewhere, replaces one, lets one go, or is emptied.           *)
(*                                                                         *)
(* A reset while an operation is being written leaves an insertion or a    *)
(* replacement undone, done, or half replaced.  A reset in the middle of a *)
(* removal or of emptying the list may leave it broken.  What is done to a *)
(* broken list may leave anything, and only emptying it is sure to make it *)
(* a list again.                                                           *)
(***************************************************************************)
EXTENDS Integers, Sequences, SequencesExt

CONSTANT Content

VARIABLES list, whole, busy

listVars == <<list, whole, busy>>

Operations == {"insert", "replace", "remove", "clear"}

Init == list \in Seq(Content) /\ whole = TRUE /\ busy = "no"

Begin == busy = "no" /\ busy' \in Operations /\ UNCHANGED <<list, whole>>

Inserted == \E k \in 1..(Len(list) + 1), c \in Content : list' = InsertAt(list, k, c)
Replaced == \E k \in DOMAIN list, c \in Content : list' = ReplaceAt(list, k, c)
Removed == \E k \in DOMAIN list : list' = RemoveAt(list, k)

Commit ==
  /\ busy # "no" /\ busy' = "no"
  /\ whole' = TRUE
  /\ \/ whole /\ \/ busy = "insert" /\ Inserted
                 \/ busy = "replace" /\ Replaced
                 \/ busy = "remove" /\ Removed
     \/ busy = "clear" /\ list' = <<>>

Abort ==
  /\ busy # "no" /\ busy' = "no"
  /\ \/ UNCHANGED <<list, whole>>
     \/ whole /\ busy = "replace" /\ Replaced /\ whole' = TRUE
     \/ busy \in {"remove", "clear"} /\ whole' = FALSE

\* A broken list promises nothing, but that emptying it is no half measure.
Worsen ==
  /\ ~whole /\ busy \notin {"no", "clear"} /\ busy' = "no"

Next == Begin \/ Commit \/ Abort \/ Worsen

Spec == Init /\ [][Next]_listVars

=============================================================================
