--------------------------- MODULE AquilaProtocol ---------------------------
(***************************************************************************)
(* AquilaProtocol on one node: commands of the hub and events of other     *)
(* nodes arrive one packet at a time, and the entries of EventStore say    *)
(* which actions an event runs.                                            *)
(*                                                                         *)
(* An action is a callback of the sketch.  It may emit events, and if it   *)
(* delays, the yield of the examples calls Mesh.loop and Aquila.loop, so   *)
(* that the next packet is parsed while an event is still being worked on. *)
(* The call stack is therefore a variable.  A reset may come at any time.  *)
(***************************************************************************)
EXTENDS EventStore, SequencesExt

CONSTANTS
  Asks,         \* what packets may ask for
  Subs,         \* the conditions of each subscription of the sketch, in order of "on"
  MaxOnSubs,    \* PROTOCOL_MAXONSUBS
  MaxActions,   \* PROTOCOL_MAXACTIONS
  Tables,       \* tables the node may start with, if its EEPROM is not erased
  Setups,       \* what the sketch may register in its setup, call by call
  TxSize,       \* MESHTXBUFFER_SIZE
  MaxDepth,     \* bound: frames on the stack
  MaxPackets, MaxEmits, MaxResets   \* bounds of what happens

ASSUME AquilaProtocolAssumption ==
  /\ \A p \in Asks : /\ p.type \in {"addEntry", "setEntry"} => p.entry \in Entry
                     /\ p.type \in {"setEntry", "delEntry", "action"} => p.n \in 0..255
                     /\ p.type = "event" => p.cond \in Conds
  /\ \A entries \in Tables : entries \in Seq(Entry) /\ Len(entries) <= MaxEntries
  /\ Subs \in Seq(SUBSET Conds) /\ MaxOnSubs \in Nat /\ MaxActions \in Nat
  /\ TxSize \in Nat \ {0}
  /\ MaxDepth \in Nat /\ MaxPackets \in Nat /\ MaxEmits \in Nat /\ MaxResets \in Nat

VARIABLES
  on,           \* setup is done and the sketch runs
  received,     \* receivedPacket
  got,          \* flagGotPacket > 0
  actions, nActions,
  stack,        \* what is being executed, innermost last
  packets, emits, resets,   \* what has happened
  answers,      \* waiting: packets in Mesh's buffer; owed: commands that have
                \* arrived and were neither answered nor lost with an excuse;
                \* crowd: commands that came, and packets of the sketch that
                \* went in, while the node was not idle
  stored        \* the entries a slot may hold: what the hub was told, or asked for

counts == <<packets, emits, resets>>
setup == <<on, actions, nActions>>
radio == <<received, got, packets>>
vars == <<storeVars, setup, radio, stack, emits, resets, answers, stored>>

NoPacket == [type |-> "none"]

\* The entries a reader of the whole table gets, in their order.
Visible ==
  LET n == IF nEntries > Cardinality(Used) THEN Cardinality(Used) ELSE nEntries
  IN  [k \in 1..n |-> EntryAt(CHOOSE s \in SlotOf(k - 1) : TRUE)]
Whole == nEntries >= Cardinality(Used) /\ nEntries <= MaxEntries
List == IF eeprom[Signature] THEN [list |-> Visible, whole |-> Whole]
                             ELSE [list |-> <<>>, whole |-> TRUE]

\* The frames: EEPROM being written, an event being looked up, a callback.
\* "reply" is whether a command waits for the outcome.
Top == Last(stack)
Running(place) == stack # <<>> /\ Top.place = place
Writing(operation, reply, legal) ==
  [place |-> "write", reply |-> reply, operation |-> operation, then |-> legal,
   before |-> List]

\* Code of the sketch is running: its loop, or a callback.
InSketch == on /\ (stack = <<>> \/ Running("callback"))
Push(frame) == stack' = Append(stack, frame)
Pop == stack' = Front(stack)

-----------------------------------------------------------------------------
(* send, which takes no notice of whether Mesh has room for the packet *)

\* A command in receivedPacket has not been looked at; the stack works on others.
Expected(p) == p.type \notin {"none", "silent", "event"}
InHand == IF got /\ Expected(received) THEN 1 ELSE 0
Commands == InHand + Cardinality({k \in DOMAIN stack : stack[k].reply})

NoAnswers == [waiting |-> 0, owed |-> 0, crowd |-> 0]
HasPlace == answers.waiting < TxSize

\* That an answer is refused is an excuse only if enough came in between to
\* fill the buffer; more is not counted.
More(crowd) == IF crowd < TxSize THEN crowd + 1 ELSE crowd
Crowded == answers.crowd = TxSize
Answered ==
  IF HasPlace THEN [answers EXCEPT !.waiting = @ + 1, !.owed = @ - 1]
  ELSE IF Crowded THEN [answers EXCEPT !.owed = @ - 1]
  ELSE answers

SentAlong ==
  IF HasPlace THEN [answers EXCEPT !.waiting = @ + 1, !.crowd = More(@)] ELSE answers

\* A packet takes the place of one that was not looked at, which is its excuse.
Arrived(p) ==
  LET idle == answers.waiting = 0 /\ Commands = 0
      after == [answers EXCEPT !.owed = @ - InHand, !.crowd = IF idle THEN 0 ELSE @]
  IN  IF Expected(p) THEN [after EXCEPT !.owed = @ + 1, !.crowd = IF idle THEN 0 ELSE More(@)]
                     ELSE after

\* AquilaMesh::sendNow, in Mesh.loop: the oldest packet goes to the network.
sendNow ==
  /\ InSketch /\ answers.waiting > 0
  /\ answers' = [answers EXCEPT !.waiting = @ - 1,
                    !.crowd = IF answers.waiting = 1 /\ Commands = 0 THEN 0 ELSE @]
  /\ UNCHANGED <<storeVars, setup, radio, stack, emits, resets, stored>>

-----------------------------------------------------------------------------
(* Registering actions: setAction and addAction *)

Table == [used |-> {}, n |-> 0]
SetAction(table, n) ==
  IF n >= MaxActions THEN table
  ELSE [used |-> table.used \cup {n},
        n |-> IF n \in table.used THEN table.n ELSE table.n + 1]
Add == -1
AddAction(table) == SetAction(table, table.n)
Registered(calls) ==
  FoldLeft(LAMBDA table, call : IF call = Add THEN AddAction(table)
                                ELSE SetAction(table, call), Table, calls)

\* The subscriptions that were accepted.
OnSubs == SubSeq(Subs, 1, IF Len(Subs) > MaxOnSubs THEN MaxOnSubs ELSE Len(Subs))

-----------------------------------------------------------------------------
(* begin, and the radio *)

\* PDB_init formats a store that has another signature, before the sketch's
\* own setup goes on.
begin ==
  /\ ~on /\ todo = <<>> /\ stack = <<>>
  /\ got' = FALSE
  /\ \E calls \in Setups :
       actions' = Registered(calls).used /\ nActions' = Registered(calls).n
  /\ IF eeprom[Signature]
       THEN on' = TRUE /\ UNCHANGED <<todo, stack, stored>>
       ELSE /\ Writes(FormatBytes) /\ Push(Writing("clear", FALSE, [s \in Slots |-> {}]))
            /\ UNCHANGED <<on, stored>>
  /\ UNCHANGED <<eeprom, iterator, received, counts, answers>>

FormatDone ==
  /\ Running("write") /\ ~Top.reply /\ todo = <<>>
  /\ on' = TRUE /\ Pop
  /\ UNCHANGED <<storeVars, actions, nActions, radio, emits, resets, answers, stored>>

\* Protocol__rxHandler, called by Mesh.loop: there is room for one packet, and
\* the one that was not looked at yet is lost.
Protocol__rxHandler ==
  /\ InSketch /\ packets < MaxPackets
  /\ packets' = packets + 1
  /\ \E p \in Asks :
       /\ received' = p
       /\ answers' = Arrived(p)
  /\ got' = TRUE
  /\ UNCHANGED <<storeVars, setup, stack, emits, resets, stored>>

-----------------------------------------------------------------------------
(* parsePacket.  What is left in receivedPacket is not looked at again. *)

Parses(types) ==
  /\ InSketch /\ got /\ received.type \in types
  /\ Len(stack) < MaxDepth
  /\ got' = FALSE /\ received' = NoPacket
  /\ UNCHANGED <<setup, counts>>

\* A callback entered the library again, so the iterator and the entries may
\* not be what the lookups below it on the stack take them for.
Disturbed(frames) ==
  [k \in DOMAIN frames |->
     IF frames[k].place = "event" THEN [frames[k] EXCEPT !.alone = FALSE] ELSE frames[k]]

\* Wrong on purpose: takes a refused packet for an answer.
ParseNothingSilent ==
  /\ Parses({"silent", "refused"})
  /\ UNCHANGED <<storeVars, stack, answers, stored>>

\* Packets that are refused and packets there is no answer to: answers
\* themselves among them.
ParseNothing ==
  \/ /\ Parses({"silent"}) /\ UNCHANGED <<storeVars, stack, answers, stored>>
  \/ /\ Parses({"refused", "info"})
     /\ answers' = Answered
     /\ UNCHANGED <<storeVars, stack, stored>>

\* sendEntry, and sendAction or sendEvent: an answer whether or not there is
\* what is asked for.
ParseGetEntry ==
  /\ Parses({"getEntry"})
  /\ answers' = Answered
  /\ UNCHANGED <<storeVars, stack, stored>>

ParseGetAction ==
  /\ Parses({"getAction"})
  /\ answers' = Answered
  /\ UNCHANGED <<storeVars, stack, stored>>

\* Starts to write for a command, or answers that it cannot.
Store(operation, possible, bytes, legal) ==
  /\ IF possible
       THEN /\ Writes(bytes)
            /\ stack' = Append(Disturbed(stack), Writing(operation, TRUE, legal))
            /\ UNCHANGED answers
       ELSE answers' = Answered /\ UNCHANGED <<todo, stack>>
  /\ UNCHANGED <<eeprom, iterator>>

Mixed(a, b) == [cond: {a.cond, b.cond}, act: {a.act, b.act}]

clearEntries ==
  /\ Parses({"clear"})
  /\ Store("clear", TRUE, FormatBytes, [s \in Slots |-> {}])
  /\ UNCHANGED stored

addEntry ==
  /\ Parses({"addEntry"})
  /\ LET entry == received.entry
         after == [stored EXCEPT ![FreeSlot] = {entry}]
     IN  /\ Store("insert", HasRoom, AppendBytes(entry), after)
         /\ stored' = IF HasRoom THEN [stored EXCEPT ![FreeSlot] = @ \cup {entry}] ELSE stored

setEntry ==
  /\ Parses({"setEntry"})
  /\ LET slots == SlotOf(received.n)
         s == CHOOSE t \in slots : TRUE
         entry == received.entry
     IN  IF slots = {}
           THEN Store("replace", FALSE, <<>>, stored) /\ UNCHANGED stored
           ELSE /\ Store("replace", TRUE, SetBytes(s, entry), [stored EXCEPT ![s] = {entry}])
                /\ stored' = [stored EXCEPT ![s] = @ \cup Mixed(EntryAt(s), entry)]

delEntry ==
  /\ Parses({"delEntry"})
  /\ LET slots == SlotOf(received.n)
         s == CHOOSE t \in slots : TRUE
     IN  Store("remove", slots # {}, DelBytes(s), [stored EXCEPT ![s] = {}])
  /\ UNCHANGED stored

\* The last byte is there, and the hub is told.
Acknowledge ==
  /\ Running("write") /\ Top.reply /\ todo = <<>>
  /\ Pop /\ answers' = Answered
  /\ stored' = Top.then
  /\ UNCHANGED <<storeVars, setup, radio, emits, resets>>

-----------------------------------------------------------------------------
(* Actions and events *)

Callback(reply) == [place |-> "callback", reply |-> reply]

\* doAction for a command: FALSE, and a Nack, if there is no such action.
ParseAction ==
  /\ Parses({"action"})
  /\ IF received.n \in actions /\ received.n < MaxActions
       THEN stack' = Append(Disturbed(stack), Callback(TRUE)) /\ UNCHANGED answers
       ELSE answers' = Answered /\ UNCHANGED stack
  /\ UNCHANGED <<storeVars, stored>>

\* checkEvent: first the subscriptions of the sketch, then the entries.  A
\* count that cannot be is taken for none.
Lookup(cond) ==
  [place |-> "event", reply |-> FALSE, cond |-> cond, sub |-> 1, i |-> 0, n |-> -1,
   ran |-> <<>>, alone |-> TRUE]

ParseEvent ==
  /\ Parses({"event"})
  /\ stack' = Append(Disturbed(stack), Lookup(received.cond))
  /\ UNCHANGED <<storeVars, answers, stored>>

\* emit: the event goes out, and is looked up here too.
emit(cond) ==
  /\ InSketch /\ emits < MaxEmits /\ Len(stack) < MaxDepth
  /\ emits' = emits + 1 /\ answers' = SentAlong
  /\ stack' = Append(Disturbed(stack), Lookup(cond))
  /\ UNCHANGED <<storeVars, setup, radio, resets, stored>>

\* requestAction for another node is a packet and no more.
requestActionThere ==
  /\ InSketch /\ emits < MaxEmits
  /\ emits' = emits + 1 /\ answers' = SentAlong
  /\ UNCHANGED <<storeVars, setup, radio, stack, resets, stored>>

\* For this one it is doAction.
requestAction(n) ==
  /\ InSketch /\ emits < MaxEmits /\ Len(stack) < MaxDepth /\ n \in actions
  /\ emits' = emits + 1
  /\ Push(Callback(FALSE))
  /\ UNCHANGED <<storeVars, setup, radio, resets, answers, stored>>

Stays == UNCHANGED <<setup, radio, counts, answers, stored>>
Updated(frame) == [stack EXCEPT ![Len(stack)] = frame]

checkLocalEvent ==
  /\ Running("event") /\ Top.sub <= Len(OnSubs)
  /\ LET next == Updated([Top EXCEPT !.sub = @ + 1])
     IN  stack' = IF Top.cond \in OnSubs[Top.sub] THEN Append(next, Callback(FALSE)) ELSE next
  /\ UNCHANGED storeVars /\ Stays

IterateBegin ==
  /\ Running("event") /\ Top.sub > Len(OnSubs) /\ Top.n = -1
  /\ iterator' = IteratorStart
  /\ stack' = Updated([Top EXCEPT !.n = IF nEntries > MaxEntries THEN 0 ELSE nEntries])
  /\ UNCHANGED <<eeprom, todo>> /\ Stays

\* The entry the iterator comes to, as a set.
Found == Seek(iterator.entry, iterator.place, iterator.count)

Iterate ==
  /\ Running("event") /\ Top.i < Top.n
  /\ IteratorNext
  /\ LET matching == {s \in Found : EntryAt(s).cond = Top.cond}
         next == Updated([Top EXCEPT !.i = @ + 1, !.ran = @ \o SetToSeq(matching)])
     IN  stack' = IF \E s \in matching : EntryAt(s).act \in actions
                    THEN Append(next, Callback(FALSE)) ELSE next
  /\ UNCHANGED <<eeprom, todo>> /\ Stays

EventDone ==
  /\ Running("event") /\ Top.i = Top.n
  /\ Pop /\ UNCHANGED storeVars /\ Stays

\* The callback returns, and with it doAction: a command gets its Ack or Nack.
CallbackReturns ==
  /\ Running("callback")
  /\ Pop /\ answers' = IF Top.reply THEN Answered ELSE answers
  /\ UNCHANGED <<storeVars, setup, radio, emits, resets, stored>>

-----------------------------------------------------------------------------
(* A reset, and the whole node *)

Byte ==
  /\ WriteByte
  /\ UNCHANGED <<iterator, setup, radio, stack, emits, resets, answers, stored>>

\* What is in memory is gone; the EEPROM stays as it is.
Reset ==
  /\ resets < MaxResets /\ resets' = resets + 1
  /\ on' = FALSE /\ todo' = <<>> /\ stack' = <<>>
  /\ received' = NoPacket /\ got' = FALSE /\ answers' = NoAnswers
  /\ iterator' = IteratorStart /\ actions' = {} /\ nActions' = 0
  /\ UNCHANGED <<eeprom, packets, emits, stored>>

Init ==
  /\ StoreInit
  /\ \/ eeprom = Erased /\ stored = [s \in Slots |-> {}]
     \/ \E entries \in Tables :
          /\ eeprom = Filled(entries)
          /\ stored = [s \in Slots |-> IF s < Len(entries) THEN {entries[s + 1]} ELSE {}]
  /\ on = FALSE /\ received = NoPacket /\ got = FALSE
  /\ actions = {} /\ nActions = 0 /\ stack = <<>>
  /\ packets = 0 /\ emits = 0 /\ resets = 0 /\ answers = NoAnswers

Parse ==
  \/ ParseNothing \/ ParseGetEntry \/ ParseGetAction \/ clearEntries \/ addEntry
  \/ setEntry \/ delEntry \/ ParseAction \/ ParseEvent

Step ==
  \/ begin \/ FormatDone \/ Byte \/ Acknowledge
  \/ checkLocalEvent \/ IterateBegin \/ Iterate \/ EventDone \/ CallbackReturns

Next ==
  \/ Step \/ Parse \/ Protocol__rxHandler \/ sendNow \/ requestActionThere
  \/ \E cond \in Conds : emit(cond)
  \/ \E n \in 0..(MaxActions - 1) : requestAction(n)
  \/ Reset

Spec == Init /\ [][Next]_vars

\* The processor runs, callbacks return, the sketch calls Aquila.loop, and Mesh
\* hands over packet after packet.
FairSpec ==
  Spec /\ WF_vars(Step) /\ WF_vars(stack = <<>> /\ Parse) /\ WF_vars(stack = <<>> /\ sendNow)

-----------------------------------------------------------------------------
(* Properties *)

\* The variables have their types; and the commands without an answer or an
\* excuse are those in hand.
TypeOK ==
  /\ on \in BOOLEAN /\ got \in BOOLEAN /\ received \in Asks \cup {NoPacket}
  /\ actions \subseteq 0..(MaxActions - 1) /\ nActions = Cardinality(actions)
  /\ nEntries \in 0..255 /\ Len(stack) <= MaxDepth + 1
  /\ answers.waiting \in 0..TxSize /\ answers.crowd \in 0..TxSize
  /\ ~Crowded => answers.waiting + Commands <= 1 + answers.crowd
  /\ answers.owed = Commands

\* An action that an event runs stands in an entry the hub has stored and was
\* not told is gone: no reset, at whatever byte of whatever operation, and no
\* change in the middle of a lookup makes an old entry or erased memory act.
RunsAreStored ==
  Running("event") /\ Top.i < Top.n =>
    \A s \in Found : EntryAt(s).cond = Top.cond => EntryAt(s) \in stored[s]

\* An event whose callbacks let nothing else in runs every entry it is in,
\* once and in the order of the table.
VisibleSlots == UNION {SlotOf(n) : n \in 0..(MaxEntries - 1)}
EventRunsAll ==
  Running("event") /\ Top.i = Top.n /\ Top.alone /\ nEntries <= MaxEntries =>
    /\ Range(Top.ran) = {s \in VisibleSlots : EntryAt(s).cond = Top.cond}
    /\ \A j, k \in DOMAIN Top.ran : j < k => Top.ran[j] < Top.ran[k]

\* An event runs what is stored, and all of it.
EventsRunEntries == RunsAreStored /\ EventRunsAll

\* A command is answered and the answer is on its way, unless a reset comes, or
\* the next packet before the command is looked at, or the answer finds no place
\* and, since the node was idle, as many commands of others and packets of the
\* sketch have come as the buffer holds: a hub that waits for its answers gets
\* them while sketch and other hubs keep within that.
AlwaysAnswered ==
  answers.owed > 0 \/ answers.waiting > 0 ~> answers.owed = 0 /\ answers.waiting = 0

\* What EntryList sees: an operation under way has not happened yet.
Written == Running("write") /\ todo # <<>>
Promised == INSTANCE EntryList WITH
  Content <- [cond: Conds \cup {Blank}, act: Acts \cup {Blank}],
  list <- IF Written THEN Top.before.list ELSE List.list,
  whole <- IF Written THEN Top.before.whole ELSE List.whole,
  busy <- IF Written THEN Top.operation ELSE "no"
\* The entries in the EEPROM are the list of EntryList, through resets:
\* append and set do their work or leave it undone or half done, and only a
\* delete or clear that a reset cuts short may break the list until a clear.
ImplementsList == Promised!Spec

=============================================================================
