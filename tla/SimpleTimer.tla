----------------------------- MODULE SimpleTimer -----------------------------
(***************************************************************************)
(* SimpleTimer: a table of timers, and run, which first collects what is   *)
(* due and then calls it back, slot by slot.  Callbacks set, delete and    *)
(* switch timers, their own too, while the second pass goes on.            *)
(***************************************************************************)
EXTENDS Integers, FiniteSets, FiniteSetsExt

CONSTANTS
  MaxTimers,      \* MAX_TIMERS
  Delays, Runs,   \* what setTimer is called with; RunForever \in Runs
  ClockRange,     \* the range of millis()
  MaxClock,       \* bound: time
  MaxChanges      \* bound: calls of the sketch

ASSUME SimpleTimerAssumption ==
  /\ MaxTimers \in Nat \ {0} /\ ClockRange \in Nat \ {0}
  /\ Delays \subseteq Nat /\ Runs \subseteq Nat

RunForever == 0
Slots == 0..MaxTimers - 1

VARIABLES
  slot,         \* callbacks, delays, maxNumRuns, numRuns, enabled, prev_millis;
                \* born and called say when the timer was set and how often it
                \* has been called back since
  numTimers,
  toBeCalled,
  pass,         \* where run is: -1 outside, or the slot of the second pass
  called,       \* the case run is in while that slot's callback runs, or "no"
  clock,
  changes,
  orderly,      \* whether callbacks leave their own timer alone
  cut           \* whether run has deleted a timer that had runs left

simpleTimerVars == <<slot, numTimers, toBeCalled, pass, called, clock, changes, orderly, cut>>

elapsedNow == clock % ClockRange
NoTimer == [callback |-> FALSE, delay |-> 0, max |-> 0, runs |-> 0, enabled |-> FALSE,
            prev |-> 0, born |-> 0, called |-> 0]

-----------------------------------------------------------------------------
(* The sketch's calls, from loop or from a callback *)

Sketch == (pass = -1 \/ called # "no") /\ changes < MaxChanges /\ changes' = changes + 1
Own(i) == called # "no" /\ pass = i

findFirstFreeSlot ==
  IF numTimers >= MaxTimers THEN {} ELSE {Min({i \in Slots : ~slot[i].callback})}

\* numRuns is not reset here.
setTimer(d, n) ==
  /\ Sketch
  /\ \E i \in findFirstFreeSlot :
       slot' = [slot EXCEPT ![i] =
                  [@ EXCEPT !.callback = TRUE, !.delay = d, !.max = n, !.enabled = TRUE,
                            !.prev = elapsedNow, !.born = clock, !.called = 0]]
  /\ numTimers' = numTimers + 1
  /\ UNCHANGED <<toBeCalled, pass, called, clock, orderly, cut>>

\* Wrong on purpose: the runs of the deleted timer count for the next one.
DeletesButRuns(i) ==
  IF slot[i].callback
    THEN /\ slot' = [slot EXCEPT ![i] = [NoTimer EXCEPT !.prev = slot[i].prev, !.max = slot[i].max,
                                                        !.runs = slot[i].runs]]
         /\ toBeCalled' = [toBeCalled EXCEPT ![i] = "dontRun"]
         /\ numTimers' = numTimers - 1
    ELSE UNCHANGED <<slot, toBeCalled, numTimers>>

\* What deleteTimer does to the table.
Deletes(i) ==
  IF slot[i].callback
    THEN /\ slot' = [slot EXCEPT ![i] = [NoTimer EXCEPT !.prev = slot[i].prev, !.max = slot[i].max]]
         /\ toBeCalled' = [toBeCalled EXCEPT ![i] = "dontRun"]
         /\ numTimers' = numTimers - 1
    ELSE UNCHANGED <<slot, toBeCalled, numTimers>>

deleteTimer(i) ==
  /\ Sketch /\ (orderly => ~Own(i))
  /\ Deletes(i)
  /\ UNCHANGED <<pass, called, clock, orderly, cut>>

restartTimer(i) ==
  /\ Sketch
  /\ slot' = [slot EXCEPT ![i].prev = elapsedNow]
  /\ UNCHANGED <<numTimers, toBeCalled, pass, called, clock, orderly, cut>>

\* enable, disable and toggle, of a slot with or without a timer.
Switch(i) ==
  /\ Sketch
  /\ \E on \in {TRUE, FALSE, ~slot[i].enabled} : slot' = [slot EXCEPT ![i].enabled = on]
  /\ UNCHANGED <<numTimers, toBeCalled, pass, called, clock, orderly, cut>>

-----------------------------------------------------------------------------
(* run *)

IsDue(s) == s.callback /\ (elapsedNow - s.prev) % ClockRange >= s.delay
Counts(s) == IsDue(s) /\ s.enabled /\ s.max # RunForever /\ s.runs < s.max

Collected(s) ==
  IF Counts(s) THEN IF s.runs + 1 >= s.max THEN "runAndDel" ELSE "runOnly"
  ELSE IF IsDue(s) /\ s.enabled /\ s.max = RunForever THEN "runOnly"
  ELSE "dontRun"

Collect ==
  /\ pass = -1 /\ pass' = 0
  /\ toBeCalled' = [i \in Slots |-> Collected(slot[i])]
  /\ slot' = [i \in Slots |->
       [slot[i] EXCEPT !.prev = IF IsDue(slot[i]) THEN (@ + slot[i].delay) % ClockRange ELSE @,
                       !.runs = IF Counts(slot[i]) THEN @ + 1 ELSE @]]
  /\ UNCHANGED <<numTimers, called, clock, changes, orderly, cut>>

After(i) == IF i + 1 = MaxTimers THEN -1 ELSE i + 1

PassesOver ==
  /\ pass # -1 /\ called = "no" /\ toBeCalled[pass] = "dontRun"
  /\ pass' = After(pass)
  /\ UNCHANGED <<slot, numTimers, toBeCalled, called, clock, changes, orderly, cut>>

CallsBack ==
  /\ pass # -1 /\ called = "no" /\ toBeCalled[pass] # "dontRun"
  /\ called' = toBeCalled[pass]
  /\ slot' = [slot EXCEPT ![pass].called = @ + 1]
  /\ UNCHANGED <<numTimers, toBeCalled, pass, clock, changes, orderly, cut>>

Returns ==
  /\ called # "no" /\ called' = "no" /\ pass' = After(pass)
  /\ IF called = "runAndDel"
       THEN /\ Deletes(pass)
            /\ cut' = (cut \/ (slot[pass].callback /\ slot[pass].called < slot[pass].max))
       ELSE UNCHANGED <<slot, toBeCalled, numTimers, cut>>
  /\ UNCHANGED <<clock, changes, orderly>>

ClockTicks ==
  /\ clock < MaxClock /\ clock' = clock + 1
  /\ UNCHANGED <<slot, numTimers, toBeCalled, pass, called, changes, orderly, cut>>

SimpleTimerInit ==
  /\ slot = [i \in Slots |-> NoTimer] /\ numTimers = 0
  /\ toBeCalled = [i \in Slots |-> "dontRun"]
  /\ pass = -1 /\ called = "no" /\ clock = 0 /\ changes = 0
  /\ orderly \in BOOLEAN /\ cut = FALSE

SimpleTimerNext ==
  \/ \E d \in Delays, n \in Runs : setTimer(d, n)
  \/ \E i \in Slots : deleteTimer(i) \/ restartTimer(i) \/ Switch(i)
  \/ Collect \/ PassesOver \/ CallsBack \/ Returns
  \/ ClockTicks

-----------------------------------------------------------------------------
(* Properties *)

\* What is called back is a timer, and not earlier or more often than its
\* delay says since it was set, although callbacks delete timers that are
\* collected and set others in their slots.
CallsAreDue ==
  /\ pass # -1 /\ called = "no" /\ toBeCalled[pass] # "dontRun" => slot[pass].callback
  /\ \A i \in Slots : slot[i].callback => slot[i].called * slot[i].delay <= clock - slot[i].born

\* numTimers counts the timers, and run ends a timer only when it has been
\* called back as often as it was set for, unless a callback deletes the timer
\* it belongs to and sets another.
RunsAreFull ==
  /\ numTimers = Cardinality({i \in Slots : slot[i].callback})
  /\ orderly => ~cut

\* A timer is called back when it is due, and as often as it was set for.
TimersAreExact == CallsAreDue /\ RunsAreFull

=============================================================================
