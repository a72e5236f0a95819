------------------------------- MODULE MCLinks -------------------------------
(* Five components that must come to an end with what they begin, side by    *)
(* side: one of them is chosen at the start and the others rest.  Of WSerial  *)
(* one half is chosen, the writing or the reading one.                       *)
(*                                                                           *)
(* Routes are looked for in a triangle with one poor link, so that the way   *)
(* round is the better route, and in a square with two ways from one corner  *)
(* to the other.                                                             *)
EXTENDS NwkRouteDiscovery, Wire, LowPower, WSerial, AquilaBridge

CONSTANTS s, a, b, d

VARIABLE part

-----------------------------------------------------------------------------
(* Instances *)

Links(poor, absent) ==
  [x \in {s, a, b, d} |-> [y \in {s, a, b, d} |->
     IF x = y \/ {x, y} \in absent THEN 0 ELSE IF {x, y} \in poor THEN 3 ELSE 7]]

Triangle == Links({{s, d}}, {{x, b} : x \in {s, a, d}})
Square == Links({{s, b}}, {{s, d}})

Choice(chosen, links, traffic, fixed, most) ==
  [build |-> chosen, links |-> links, traffic |-> traffic, fixed |-> fixed, tries |-> most]

SetupChoices ==
  {Choice("learning", Triangle, <<>>, fixed, 4) : fixed \in BOOLEAN} \cup
  {Choice("discovery", Triangle, <<d, d>>, FALSE, 1), Choice("discovery", Triangle, <<Group>>, TRUE, 1),
   Choice("discovery", Square, <<d>>, FALSE, 0)}

Role(name, registered, calls, foreign, errors) ==
  [role |-> name, registered |-> registered, calls |-> calls, foreign |-> foreign,
   errors |-> errors]

RoleChoices ==
  {Role("master", FALSE, 2, 0, 1), Role("both", TRUE, 1, 1, 0)} \cup
  {Role("slave", registered, 0, 2, 1) : registered \in BOOLEAN}

\* New options, a packet with the bytes that are escaped, and a question
\* about security and its answer.
PcCommands ==
  {<<CMD_SET_OPT, 0, 91, 202, 20, 192, 0>>, <<CMD_GET_SECURITY>>,
   <<CMD_DATA, 0, 0, 0, 0, 219, 0, 1, 1, 2, 192, 7>>,
   <<CMD_SET_SECURITY, 1>> \o [k \in 1..16 |-> 5]}

MeshPackets ==
  {[lqi |-> 200, rssi |-> 60, srcAddr |-> 300, dstAddr |-> 255, srcEndpoint |-> 1,
    dstEndpoint |-> 2, data |-> <<7, 192>>]}

LineNoise == {SLIP_END, SLIP_ESC}

-----------------------------------------------------------------------------

allVars == <<vars, wireVars, lowPowerVars, wserialVars, bridgeVars, part>>

\* What rests begins in one state.
Rests ==
  /\ part # "routes" => setup = CHOOSE c \in Setups : TRUE
  /\ part # "wire" => sketch.role = "master"
  /\ part # "lowPower" => chip = "328P" /\ tccr = {}

MCInit ==
  /\ part \in {"routes", "wire", "lowPower", "writes", "reads", "bridge"}
  /\ Init /\ WireInit /\ LowPowerInit /\ WSerialInit /\ BridgeInit
  /\ Rests

MCNext ==
  /\ UNCHANGED part
  /\ \/ part = "routes" /\ Next
     \/ part # "routes" /\ UNCHANGED vars
  /\ \/ part = "wire" /\ WireNext
     \/ part # "wire" /\ UNCHANGED wireVars
  /\ \/ part = "lowPower" /\ LowPowerNext
     \/ part # "lowPower" /\ UNCHANGED lowPowerVars
  /\ \/ part = "writes" /\ WSerialNext /\ UNCHANGED inVars
     \/ part = "reads" /\ WSerialNext /\ UNCHANGED <<outVars, timeVars>>
     \/ part \notin {"writes", "reads"} /\ UNCHANGED wserialVars
  /\ \/ part = "bridge" /\ BridgeNext
     \/ part # "bridge" /\ UNCHANGED bridgeVars

\* The fairness of the components, each for the part that runs: what rests is
\* fair anyway.  What a timer handler changes and what hearing takes from the
\* air follows from these actions; said first, it spares TLC most of them.
On(name) == part = name

Fires(n) ==
  On("routes") /\ (discovery'[n] # discovery[n] \/ timer'[n] # timer[n]) /\ TimerHandler(n)
Hears == On("routes") /\ ~(air \subseteq air') /\ HearSome

MCFair ==
  /\ \A n \in Nodes : \/ []<>~(On("routes") /\ timer[n] /\ Timely(n))
                      \/ []<><<Fires(n)>>_vars
  /\ []<>(On("routes") => air = {}) \/ []<><<Hears>>_vars
  /\ WF_wireVars(On("wire") /\ TWI_vect) /\ WF_wireVars(On("wire") /\ SketchGoesOn)
  /\ WF_wireVars(On("wire") /\ BusGoesOn)
  /\ WF_lowPowerVars(On("lowPower") /\ FallAsleep) /\ WF_lowPowerVars(On("lowPower") /\ GoOn)
  /\ WF_lowPowerVars(On("lowPower") /\ WatchdogVector)
  /\ WF_wserialVars(On("writes") /\ appDataCb) /\ WF_wserialVars(On("writes") /\ MillisecondPasses)
  /\ WF_wserialVars(On("writes") /\ \E accepted \in BOOLEAN : loop(accepted))

MCSpec == MCInit /\ [][MCNext]_allVars /\ MCFair

\* A call of Wire ends, whatever happens on the bus, and so does a sleep with
\* a period, without any interrupt but the watchdog's; and when a call of
\* LowPower has ended, what it turned off has its power again, though timer 2
\* not always its clock.  (CallsReturn and TimedSleepEnds in one formula, which
\* TLC checks sooner: where one part runs the other's call has not begun.)
EveryCallReturns ==
  /\ InCall \/ InTimedSleep ~> (InCall => Deaf) /\ ~InTimedSleep
  /\ []ModulesBack

=============================================================================
