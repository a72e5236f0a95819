----------------------------- MODULE PacketBuffer -----------------------------
(***************************************************************************)
(* RxBuffer and TxBuffer of Mesh, which are the same ring of packets but   *)
(* for its size (MESHRXBUFFER_SIZE, MESHTXBUFFER_SIZE): one side inserts   *)
(* at the head, the other removes at the tail, and they share only the     *)
(* count, which each reads and changes in an ATOMIC_BLOCK.                 *)
(*                                                                         *)
(* The code guards the count against an interrupt between any two          *)
(* statements and nothing else, so the model lets the two sides interleave *)
(* there: each statement of RxBuffer_insert and RxBuffer_remove is a step. *)
(* (The sketch's build calls both from the main loop.)                     *)
(***************************************************************************)
EXTENDS Integers, Sequences

CONSTANTS Packets, Size

ASSUME SizeAssumption == Size \in 1..255

VARIABLES
  slots,    \* buffer
  head,     \* index the head pointer stands for
  tail,     \* index the tail pointer stands for
  count,
  inserter, \* next statement of the inserting side
  item,     \* packet it inserts
  remover,  \* next statement of the removing side
  taken,    \* *data, where it copies the packet to
  out       \* packet the last finished removal returned

producer == <<inserter, item>>
consumer == <<remover, taken, out>>
vars == <<slots, head, tail, count, producer, consumer>>

Indices == 0..(Size - 1)

\* ++pointer == &buffer[SIZE], and back to the start
Next1(i) == IF i + 1 = Size THEN 0 ELSE i + 1

\* RxBuffer_init
Init ==
  /\ slots \in [Indices -> Packets]
  /\ head = 0 /\ tail = 0 /\ count = 0
  /\ inserter = "idle" /\ item \in Packets
  /\ remover = "idle" /\ taken \in Packets /\ out = taken

-----------------------------------------------------------------------------
(* RxBuffer_insert *)

\* It returns false, and nothing happens, when the buffer is full.
InsertCheck(p) ==
  /\ inserter = "idle" /\ count < Size
  /\ inserter' = "copy" /\ item' = p
  /\ UNCHANGED <<slots, head, tail, count, consumer>>

\* Wrong on purpose: counts the packet before it is there.
InsertCopyPublishes ==
  /\ inserter = "copy" /\ inserter' = "advance"
  /\ slots' = slots /\ count' = count + 1
  /\ UNCHANGED <<head, tail, item, consumer>>

InsertCopy ==
  /\ inserter = "copy" /\ inserter' = "advance"
  /\ slots' = [slots EXCEPT ![head] = item]
  /\ UNCHANGED <<head, tail, count, item, consumer>>

InsertAdvance ==
  /\ inserter = "advance" /\ inserter' = "publish"
  /\ head' = Next1(head)
  /\ UNCHANGED <<slots, tail, count, item, consumer>>

InsertPublish ==
  /\ inserter = "publish" /\ inserter' = "idle"
  /\ count' = count + 1
  /\ UNCHANGED <<slots, head, tail, item, consumer>>

-----------------------------------------------------------------------------
(* RxBuffer_remove *)

RemoveCheck ==
  /\ remover = "idle" /\ count > 0
  /\ remover' = "copy"
  /\ UNCHANGED <<slots, head, tail, count, producer, taken, out>>

RemoveCopy ==
  /\ remover = "copy" /\ remover' = "advance"
  /\ taken' = slots[tail]
  /\ UNCHANGED <<slots, head, tail, count, producer, out>>

RemoveAdvance ==
  /\ remover = "advance" /\ remover' = "release"
  /\ tail' = Next1(tail)
  /\ UNCHANGED <<slots, head, count, producer, taken, out>>

RemoveRelease ==
  /\ remover = "release" /\ remover' = "idle"
  /\ count' = count - 1
  /\ out' = taken
  /\ UNCHANGED <<slots, head, tail, producer, taken>>

-----------------------------------------------------------------------------

Insert == (\E p \in Packets : InsertCheck(p)) \/ InsertCopy \/ InsertAdvance \/ InsertPublish
RemovePacket == RemoveCheck \/ RemoveCopy \/ RemoveAdvance \/ RemoveRelease

Next == Insert \/ RemovePacket

Spec == Init /\ [][Next]_vars

TypeOK ==
  /\ slots \in [Indices -> Packets]
  /\ head \in Indices /\ tail \in Indices /\ count \in 0..Size
  /\ inserter \in {"idle", "copy", "advance", "publish"} /\ item \in Packets
  /\ remover \in {"idle", "copy", "advance", "release"}
  /\ taken \in Packets /\ out \in Packets

Wrap(n) == IF n >= Size THEN n - Size ELSE n

\* The first slot of the packets that count counts.  The tail has passed it
\* when the removing side has still to lower the count.
First == IF remover = "release" THEN IF tail = 0 THEN Size - 1 ELSE tail - 1
         ELSE tail

\* The packets the buffer holds, and where they stand between the two
\* pointers: the head is past them, and past the one being published.
Place(k) == Wrap(First + k - 1)
Held == [k \in 1..count |-> slots[Place(k)]]

\* The pointers and the count agree between any two statements of the sides,
\* and neither side touches the slot the other works on.
Agreement ==
  /\ head = Wrap(First + count + (IF inserter = "publish" THEN 1 ELSE 0))
  /\ inserter # "idle" => count < Size
  /\ remover # "idle" => count > 0
  /\ inserter \in {"advance", "publish"} => slots[Place(count + 1)] = item
  /\ remover \in {"advance", "release"} => slots[First] = taken

\* The bounded queue the ring stands for.
Queue == INSTANCE Fifo WITH queue <- Held, out <- out

\* The ring implements a bounded queue: packets come out once, whole, in the
\* order they went in, whatever statement of the other side comes between.
ImplementsFifo == Queue!Spec

=============================================================================
