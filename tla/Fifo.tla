--------------------------------- MODULE Fifo ---------------------------------
(***************************************************************************)
(* A bounded queue of packets: what RxBuffer and TxBuffer promise Mesh.    *)
(***************************************************************************)
EXTENDS Naturals, Sequences

CONSTANTS Packets, Size

VARIABLES
  queue, \* the packets put and not yet taken
  out    \* the packet taken last

fvars == <<queue, out>>

Init == queue = <<>> /\ out \in Packets

Put(p) == Len(queue) < Size /\ queue' = Append(queue, p) /\ UNCHANGED out

Get == queue # <<>> /\ out' = Head(queue) /\ queue' = Tail(queue)

Next == Get \/ \E p \in Packets : Put(p)

Spec == Init /\ [][Next]_fvars

=============================================================================
