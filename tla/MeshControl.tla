---------------------------- MODULE MeshControl ----------------------------
(***************************************************************************)
(* Automatic addresses: Mesh.begin() without an address starts a node at   *)
(* address 0, derives an address from its EUI, and pings it; no answer     *)
(* means that nobody has it.  The module composes the nodes of a network.  *)
(*                                                                         *)
(* All nodes that look for an address send from address 0 and count their  *)
(* frames from 1, and the others reject as a duplicate a ping whose source *)
(* and number they have heard lately (nwkRxRejectDuplicate).  Of the       *)
(* network layer this is kept, and that an acknowledgement is matched by   *)
(* its number alone (nwkTxAckReceived).                                    *)
(***************************************************************************)
EXTENDS Integers, FiniteSets

CONSTANTS
  Nodes,
  AddrSpace,   \* 65536: the numbers of 16 bits; the last is the broadcast address
  FirstAuto,   \* 256
  Crc,         \* Crc[n]: calcrc of the EUI of n
  IdByte,      \* IdByte[n]: id[7] of n
  Reliable,    \* every frame reaches every node
  Alone,       \* a node begins when no other looks for an address
  Forgotten,   \* and when no ping is remembered
  TxSize,      \* MESHTXBUFFER_SIZE
  MaxAsks,     \* bound: MESH_CMD_GETEUI a node receives while it looks
  MaxPings     \* bound: pings of a node

Addrs == 0..(AddrSpace - 1)
BroadcastAddr == AddrSpace - 1

ASSUME MeshControlAssumption ==
  /\ AddrSpace \in Nat /\ FirstAuto \in Addrs /\ FirstAuto + FirstAuto <= AddrSpace
  /\ Crc \in [Nodes -> Addrs] /\ IdByte \in [Nodes -> Nat]
  /\ Reliable \in BOOLEAN /\ Alone \in BOOLEAN /\ Forgotten \in BOOLEAN
  /\ TxSize \in Nat \ {0} /\ MaxAsks \in Nat /\ MaxPings \in Nat

VARIABLES
  pc,       \* where in assignAddr a node is
  addr,     \* nwkIb.addr
  genAddr,
  pings,    \* nwkSeqNum of a node that looks
  answered, \* the ping of the node was acknowledged
  heard,    \* numbers of the frames from address 0 in the duplicate table
  replies,  \* EUI announcements in txBuffer
  asks      \* MESH_CMD_GETEUI received

vars == <<pc, addr, genAddr, pings, answered, heard, replies, asks>>

Looks(n) == pc[n] \in {"ping", "waiting"}

FirstGuess(n) == IF Crc[n] < FirstAuto THEN Crc[n] + FirstAuto ELSE Crc[n]

\* uint16_t
NextGuess(n) == (genAddr[n] + 1 + IdByte[n]) % AddrSpace

-----------------------------------------------------------------------------

\* AquilaMesh::begin and the head of assignAddr.
Begin(n) ==
  /\ pc[n] = "off"
  /\ Alone => \A m \in Nodes : ~Looks(m)
  /\ Forgotten => \A m \in Nodes : heard[m] = {}
  /\ pc' = [pc EXCEPT ![n] = "ping"]
  /\ genAddr' = [genAddr EXCEPT ![n] = FirstGuess(n)]
  /\ UNCHANGED <<addr, pings, answered, heard, replies, asks>>

\* The nodes that take the ping up when it reaches those in R: they have an
\* address of their own, the ping is no broadcast that asks for an
\* acknowledgement, and its number is new to them.
Hearers(n, seq, R) ==
  {m \in R \ {n} : /\ pc[m] = "done" /\ addr[m] # 0
                   /\ genAddr[n] # BroadcastAddr
                   /\ seq \notin heard[m]}

\* Wrong on purpose: nobody but the pinging node is looked at.
PingUnheard(n, R) ==
  LET seq == pings[n] + 1 IN
  /\ pc[n] = "ping" /\ replies[n] < TxSize /\ pings[n] < MaxPings
  /\ pc' = [pc EXCEPT ![n] = "waiting"]
  /\ pings' = [pings EXCEPT ![n] = seq]
  /\ answered' = [answered EXCEPT ![n] = FALSE]
  /\ UNCHANGED <<addr, genAddr, heard, replies, asks>>

\* The ping goes out, reaches the nodes in R, and whoever has the address
\* answers.  The answer goes to address 0, to every node there that waits for
\* this number.
Ping(n, R) ==
  LET seq == pings[n] + 1
      hearers == Hearers(n, seq, R)
      taken == \E m \in hearers : addr[m] = genAddr[n] IN
  /\ pc[n] = "ping" /\ replies[n] < TxSize /\ pings[n] < MaxPings
  /\ pc' = [pc EXCEPT ![n] = "waiting"]
  /\ pings' = [pings EXCEPT ![n] = seq]
  /\ heard' = [m \in Nodes |-> IF m \in hearers THEN heard[m] \cup {seq} ELSE heard[m]]
  /\ answered' = [m \in Nodes |->
       IF m = n THEN taken
       ELSE answered[m] \/ (taken /\ pc[m] = "waiting" /\ pings[m] = seq)]
  /\ UNCHANGED <<addr, genAddr, replies, asks>>

\* The result of sendPacket is not looked at: with the buffer full nothing is
\* sent, and pingCb will never be called.
PingNotSent(n) ==
  /\ pc[n] = "ping" /\ replies[n] = TxSize
  /\ pc' = [pc EXCEPT ![n] = "stuck"]
  /\ UNCHANGED <<addr, genAddr, pings, answered, heard, replies, asks>>

\* Wrong on purpose: waits for an answer to the next ping, too.
TakenKeepsWaiting(n) ==
  /\ pc[n] = "waiting" /\ answered[n]
  /\ genAddr' = [genAddr EXCEPT ![n] = NextGuess(n)]
  /\ UNCHANGED <<pc, addr, pings, answered, heard, replies, asks>>

\* pingCb with NWK_SUCCESS_STATUS: try another address.
Taken(n) ==
  /\ pc[n] = "waiting" /\ answered[n]
  /\ pc' = [pc EXCEPT ![n] = "ping"]
  /\ genAddr' = [genAddr EXCEPT ![n] = NextGuess(n)]
  /\ UNCHANGED <<addr, pings, answered, heard, replies, asks>>

\* pingCb with any other status, and NWK_SetAddr in begin.
Free(n) ==
  /\ pc[n] = "waiting" /\ ~answered[n]
  /\ pc' = [pc EXCEPT ![n] = "done"]
  /\ addr' = [addr EXCEPT ![n] = genAddr[n]]
  /\ UNCHANGED <<genAddr, pings, answered, heard, replies, asks>>

\* meshCb while assignAddr loops: sendEUI queues an announcement, which is
\* dropped if the buffer is full.
GetEui(n) ==
  /\ pc[n] = "waiting" /\ asks[n] < MaxAsks
  /\ asks' = [asks EXCEPT ![n] = @ + 1]
  /\ replies' = [replies EXCEPT ![n] = IF @ < TxSize THEN @ + 1 ELSE @]
  /\ UNCHANGED <<pc, addr, genAddr, pings, answered, heard>>

\* sendNow and the confirmation of an announcement.
ReplySent(n) ==
  /\ pc[n] \in {"waiting", "stuck"} /\ replies[n] > 0
  /\ replies' = [replies EXCEPT ![n] = @ - 1]
  /\ UNCHANGED <<pc, addr, genAddr, pings, answered, heard, asks>>

\* The entry for source 0 dies in the duplicate table of n.
Forgets(n) ==
  /\ heard[n] # {}
  /\ heard' = [heard EXCEPT ![n] = {}]
  /\ UNCHANGED <<pc, addr, genAddr, pings, answered, replies, asks>>

-----------------------------------------------------------------------------

Init ==
  /\ pc = [n \in Nodes |-> "off"]
  /\ addr = [n \in Nodes |-> 0] /\ genAddr = [n \in Nodes |-> 0]
  /\ pings = [n \in Nodes |-> 0] /\ answered = [n \in Nodes |-> FALSE]
  /\ heard = [n \in Nodes |-> {}]
  /\ replies = [n \in Nodes |-> 0] /\ asks = [n \in Nodes |-> 0]

Reaches(R) == Reliable => R = Nodes

\* What assignAddr does by itself.
Assigns(n) ==
  \/ \E R \in SUBSET Nodes : Reaches(R) /\ Ping(n, R)
  \/ PingNotSent(n) \/ Taken(n) \/ Free(n)

Next == \E n \in Nodes : Begin(n) \/ Assigns(n) \/ GetEui(n) \/ ReplySent(n) \/ Forgets(n)

Spec == Init /\ [][Next]_vars

\* The loop of assignAddr runs, and a ping always gets a confirmation
\* (RequestsConfirmed of NwkNode).
Fairness == \A n \in Nodes : WF_vars(Assigns(n)) /\ WF_vars(ReplySent(n))

FairSpec == Spec /\ Fairness

-----------------------------------------------------------------------------
(* Properties *)

\* "If didnt get ack, means the address is free": no two nodes that pinged
\* their addresses have the same one.
Unique ==
  \A m, n \in Nodes :
    m # n /\ pc[m] = "done" /\ pc[n] = "done" => addr[m] # addr[n]

\* A node that looks for an address finds one, and begin returns, unless it
\* was asked for its EUI as often as its buffer has places.
AllAssigned ==
  \A n \in Nodes : Looks(n) ~> pc[n] = "done" \/ asks[n] >= TxSize

=============================================================================
