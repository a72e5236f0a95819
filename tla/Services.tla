------------------------------- MODULE Services -------------------------------
(***************************************************************************)
(* AquilaServices: a node asks another for a service and gets its callback *)
(* with the response, or with R408 if none came in time.  The module is    *)
(* the asking node, the packets on their way and the node that answers.    *)
(*                                                                         *)
(* A request is its number, so that the properties can tell which request  *)
(* a response answers, and a response says which table of the answering    *)
(* node it comes from.  The packets carry neither, and the code never sees *)
(* them.  A sketch registers with names and pointers that are not NULL.    *)
(*                                                                         *)
(* A callback may enter Mesh.loop and Services.loop, as one does that      *)
(* waits with a yield that calls them.  millis goes round, and the times   *)
(* are kept as floating point numbers, so that lastRequestTime plus the    *)
(* timeout does not; what such a number rounds off is left out.            *)
(***************************************************************************)
EXTENDS Integers, Sequences, FiniteSets

CONSTANTS
  Timeout,     \* AQUILASERVICES_TIMEOUT
  Wrap,        \* millis counts 0 .. Wrap - 1 and starts again
  MaxDepth,    \* bound: callbacks that run one inside another
  Callbacks,   \* {TRUE}: every request comes with a callback
  MaxRequests, \* bound: requests that are sent
  Setups,      \* what the answering sketch may register, call by call
  Asks,        \* Asks[r]: the name request r is made with
  VarMax, FuncMax, ServiceMax  \* room in the tables

\* What a node serves: the tables a call may put an entry in.
Kinds == {"int", "float", "function", "service"}

ASSUME ServicesAssumption ==
  /\ Timeout \in Nat /\ MaxRequests \in Nat
  /\ Wrap \in Nat \ {0} /\ MaxDepth \in Nat \ {0}
  /\ Callbacks \subseteq BOOLEAN
  /\ VarMax \in Nat /\ FuncMax \in Nat /\ ServiceMax \in Nat
  /\ 1..MaxRequests \subseteq DOMAIN Asks
  /\ \A calls \in Setups : /\ calls \in Seq({calls[k] : k \in DOMAIN calls})
                           /\ \A k \in DOMAIN calls : calls[k].kind \in Kinds

VARIABLES
  setup,           \* the calls the answering sketch makes before its loop
  made,            \* how many of them it has made
  tables,          \* for each table, the names in its places, those in use
  lastReqCb,       \* the request whose callback it is, 0 for NULL
  waitingResponse,
  lastRequestTime,
  now,             \* millis
  running,         \* the requests whose callbacks run, the innermost last
  over,            \* the requests whose callback has returned
  sent,            \* requests sent
  wantsAnswer,     \* those that came with a callback and from none
  asked,           \* requests on their way
  answers,         \* responses on their way
  unknown,         \* requests for a service there is not that arrived
  told,            \* told[r]: responses the callback of r was called with
  prompt           \* so far no packet was under way when a timeout ran out

registry == <<setup, made, tables>>
asker == <<lastReqCb, waitingResponse, lastRequestTime, sent, wantsAnswer>>
callbacks == <<running, over, told>>
vars == <<registry, asker, callbacks, now, asked, answers, unknown, prompt>>

Requests == 1..MaxRequests
Statuses == {"R200", "R404", "R405", "R500"}
Response == [to: Requests, status: Statuses, by: Kinds]
R408 == [to |-> 0, status |-> "R408", by |-> "none"]

Old == lastRequestTime + Timeout < now

\* A request made just before millis starts again never gets old.
GetsOld == lastRequestTime + Timeout < Wrap - 1

-----------------------------------------------------------------------------
(* The asking node *)

Sends(cb) ==
  /\ sent < MaxRequests
  /\ sent' = sent + 1
  /\ asked' = asked \cup {sent'}
  /\ IF cb
       THEN /\ lastReqCb' = sent' /\ waitingResponse' = TRUE /\ lastRequestTime' = now
            /\ wantsAnswer' = IF running = <<>> THEN wantsAnswer \cup {sent'} ELSE wantsAnswer
       ELSE UNCHANGED <<lastReqCb, waitingResponse, lastRequestTime, wantsAnswer>>
  /\ UNCHANGED <<registry, callbacks, now, answers, unknown, prompt>>

\* Wrong on purpose: does not look whether a response is awaited.
requestAnyway(cb) == Sends(cb)

\* request, from the sketch's loop or from inside a callback.  While a
\* response is awaited the request is dropped, and so while the callback that
\* runs is kept.
request(cb) == ~waitingResponse /\ Sends(cb)

\* The callback is kept while it runs.
Calls(response) ==
  IF lastReqCb # 0
    THEN /\ running' = Append(running, lastReqCb)
         /\ told' = [told EXCEPT ![lastReqCb] = Append(@, response)]
         /\ UNCHANGED <<lastReqCb, waitingResponse, over>>
    ELSE waitingResponse' = FALSE /\ UNCHANGED <<lastReqCb, callbacks>>

\* rxHandler with a response: whatever it answers, it goes to the callback
\* that is there.
ResponseArrives ==
  /\ Len(running) < MaxDepth
  /\ \E a \in answers : Calls(a) /\ answers' = answers \ {a}
  /\ UNCHANGED <<registry, lastRequestTime, now, sent, wantsAnswer, asked, unknown, prompt>>

\* Wrong on purpose: looks at the time alone, and calls nobody.
loopSilent ==
  /\ Len(running) < MaxDepth /\ Old
  /\ lastReqCb' = 0 /\ waitingResponse' = FALSE
  /\ UNCHANGED <<registry, lastRequestTime, callbacks, now, sent, wantsAnswer, asked, answers,
                 unknown, prompt>>

\* loop.  After a timeout it also clears waitingResponse when nothing waits.
loop ==
  /\ Len(running) < MaxDepth /\ Old
  /\ Calls(R408)
  /\ UNCHANGED <<registry, lastRequestTime, now, sent, wantsAnswer, asked, answers,
                 unknown, prompt>>

Innermost == running[Len(running)]

Returns ==
  /\ running # <<>>
  /\ running' = SubSeq(running, 1, Len(running) - 1)
  /\ over' = over \cup {Innermost}
  /\ UNCHANGED <<registry, lastRequestTime, now, sent, wantsAnswer, asked, answers, unknown,
                 told, prompt>>

\* Wrong on purpose: keeps the callback.
CallbackReturnsKept == Returns /\ waitingResponse' = FALSE /\ UNCHANGED lastReqCb

\* The innermost callback returns to rxHandler or loop, which make NULL what
\* is kept by then: the callback itself, or that of a request it has made.
CallbackReturns == Returns /\ lastReqCb' = 0 /\ waitingResponse' = FALSE

\* millis goes on.
Time ==
  /\ now' = (now + 1) % Wrap
  /\ UNCHANGED <<registry, asker, callbacks, asked, answers, unknown>>
  /\ prompt' = (prompt /\ (Old' => asked = {} /\ answers = {}))

-----------------------------------------------------------------------------
(* The answering node and the packets *)

\* A call takes the first free place; nothing is ever taken out, so the free
\* places are the last.  With no place left the call does nothing, and does
\* not say so.
Put(kind, room, name) ==
  tables' = IF Len(tables[kind]) < room
              THEN [tables EXCEPT ![kind] = Append(@, name)] ELSE tables

\* variable, for an int and for a float, function and add.
variable(name) == Put("int", VarMax, name)
variableFloat(name) == Put("float", VarMax, name)
function(name) == Put("function", FuncMax, name)
add(name) == Put("service", ServiceMax, name)

\* The sketch's setup makes its next call.
Registers ==
  /\ made < Len(setup)
  /\ made' = made + 1
  /\ LET call == setup[made']
     IN \/ call.kind = "int" /\ variable(call.name)
        \/ call.kind = "float" /\ variableFloat(call.name)
        \/ call.kind = "function" /\ function(call.name)
        \/ call.kind = "service" /\ add(call.name)
  /\ UNCHANGED <<setup, asker, callbacks, now, asked, answers, unknown, prompt>>

\* The entries that hold a name, and the order rxHandler compares them in:
\* the two tables of variables side by side, then functions, then services.
Holding(name) == {e \in Kinds \X (1..VarMax + FuncMax + ServiceMax) :
                    e[2] \in DOMAIN tables[e[1]] /\ tables[e[1]][e[2]] = name}
Comes(e) == CASE e[1] = "int" -> 2 * e[2]
              [] e[1] = "float" -> 2 * e[2] + 1
              [] e[1] = "function" -> 2 * (VarMax + 1) + e[2]
              [] OTHER -> 2 * (VarMax + 1) + FuncMax + e[2]
Found(name) == CHOOSE e \in Holding(name) : \A f \in Holding(name) : Comes(e) <= Comes(f)

\* A variable or a function answers with its value, a service with whatever
\* status it likes, or not at all.
Answers(r, kind) ==
  IF kind = "service"
    THEN {{}} \cup {{[to |-> r, status |-> s, by |-> kind]} : s \in Statuses}
    ELSE {{[to |-> r, status |-> "R200", by |-> kind]}}

\* rxHandler with a request.
Serve(r) ==
  /\ made = Len(setup)
  /\ r \in asked /\ asked' = asked \ {r}
  /\ Holding(Asks[r]) # {}
  /\ \E a \in Answers(r, Found(Asks[r])[1]) : answers' = answers \cup a
  /\ UNCHANGED <<registry, asker, callbacks, now, unknown, prompt>>

\* rxHandler with a request for a service there is not: FALSE, and no more.
ServeUnknown(r) ==
  /\ made = Len(setup)
  /\ r \in asked /\ asked' = asked \ {r}
  /\ Holding(Asks[r]) = {}
  /\ unknown' = unknown \cup {r}
  /\ UNCHANGED <<registry, asker, callbacks, now, answers, prompt>>

\* The packet is lost, or not even queued: sendPacket is not looked at.
LoseRequest(r) ==
  /\ r \in asked /\ asked' = asked \ {r}
  /\ UNCHANGED <<registry, asker, callbacks, now, answers, unknown, prompt>>

LoseResponse(a) ==
  /\ a \in answers /\ answers' = answers \ {a}
  /\ UNCHANGED <<registry, asker, callbacks, now, asked, unknown, prompt>>

-----------------------------------------------------------------------------

\* The constructor.  No request was ever made: lastRequestTime is 0.
Init ==
  /\ setup \in Setups /\ made = 0 /\ tables = [kind \in Kinds |-> <<>>]
  /\ lastReqCb = 0 /\ waitingResponse = FALSE /\ lastRequestTime = 0 /\ now = 0
  /\ running = <<>> /\ over = {}
  /\ sent = 0 /\ wantsAnswer = {} /\ asked = {} /\ answers = {} /\ unknown = {}
  /\ told = [r \in Requests |-> <<>>] /\ prompt = TRUE

Next ==
  \/ \E cb \in Callbacks : request(cb)
  \/ ResponseArrives \/ loop \/ CallbackReturns
  \/ Time \/ Registers
  \/ \E r \in asked : Serve(r) \/ ServeUnknown(r) \/ LoseRequest(r)
  \/ \E a \in answers : LoseResponse(a)

Spec == Init /\ [][Next]_vars

\* The sketches come to their loops and call Services.loop for ever, their
\* callbacks return, and time passes; a packet that is under way stops being
\* so.  Old holds again in every round of millis, and a loop that comes round
\* often enough does not miss it in all of them.
Fairness ==
  /\ SF_vars(loop) /\ WF_vars(CallbackReturns) /\ WF_vars(Time)
  /\ WF_vars(ResponseArrives) /\ WF_vars(Registers)
  /\ WF_vars(\E r \in asked : Serve(r) \/ ServeUnknown(r) \/ LoseRequest(r))

FairSpec == Spec /\ Fairness

-----------------------------------------------------------------------------
(* Properties *)

\* A callback that has returned is over, however the response races the
\* timeout and whatever the callbacks do: "NULL out lastReqCb so it only works
\* once".  It is called again only before that, from a loop it has entered
\* itself: once, where no callback enters one.  The next request is let in
\* exactly when none is kept.
OverOnReturn ==
  /\ lastReqCb \notin over
  /\ \A r \in Requests : Len(told[r]) <= MaxDepth
  /\ waitingResponse <=> lastReqCb # 0

\* Every request that was sent with a callback, and not from inside another,
\* gets it called, unless it was made so late that it never gets old.
AlwaysCalled ==
  \A r \in Requests :
    r \in wantsAnswer /\ (lastReqCb = r => GetsOld) ~> told[r] # <<>>

\* The callback of a request is called with the response of this request, or
\* with a timeout.
OwnResponse ==
  \A r \in Requests : \A k \in DOMAIN told[r] : told[r][k] = R408 \/ told[r][k].to = r

\* What the sketch and the network must do for it: every request comes with a
\* callback and from none, and each packet arrives before the timeout or is
\* lost.
Orderly == prompt /\ wantsAnswer = 1..sent

\* The names a node serves from each table, read off the calls of its sketch:
\* those of the first calls of their kind, as many as there is room for.
Room == [int |-> VarMax, float |-> VarMax, function |-> FuncMax, service |-> ServiceMax]
Served(kind) ==
  {setup[k].name : k \in {j \in DOMAIN setup :
     /\ setup[j].kind = kind
     /\ Cardinality({i \in 1..j : setup[i].kind = kind}) <= Room[kind]}}

\* A request goes unanswered as unknown only if no table has room for the name;
\* and under orderly use a response comes from a table that serves the name
\* this request asked for, so never another request's.
AnsweredAsAsked ==
  /\ \A r \in unknown : \A kind \in Kinds : Asks[r] \notin Served(kind)
  /\ Orderly => /\ OwnResponse
                /\ \A r \in Requests : \A k \in DOMAIN told[r] :
                     told[r][k] = R408 \/ Asks[r] \in Served(told[r][k].by)

\* R404, "Service not found", is what a node that looks for a service there
\* is not gets to know.
NotFoundIsTold ==
  \A r \in unknown : \A k \in DOMAIN told[r] : told[r][k].status = "R404"

=============================================================================
