------------------------------ MODULE SysTimer ------------------------------
(***************************************************************************)
(* The system timers of sysTimer.c: a list in the order of firing, each    *)
(* entry with the time after its predecessor.  The handler walks it while  *)
(* the handlers it calls start and stop timers.                            *)
(***************************************************************************)
EXTENDS Integers, Sequences, SequencesExt

CONSTANTS
  SysTimers, Interval, Periodic,   \* the timers, and those that are periodic
  CountRange,     \* the range of the uint8_t that counts milliseconds
  MaxMillis,      \* bound: time
  MaxStarts       \* bound: calls of SYS_TimerStart and SYS_TimerStop

ASSUME SysTimerAssumption ==
  /\ \A t \in SysTimers : Interval[t] \in Nat \ {0}
  /\ Periodic \subseteq SysTimers
  /\ CountRange \in Nat \ {0}

VARIABLES
  timers,     \* the list
  prev,
  elapsed,
  handling,   \* where SYS_TimerTaskHandler is: "no", "loop", or "handler"
  millis,     \* halTimerIrqCount, which is millis()
  starts

sysTimerVars == <<timers, prev, elapsed, handling, millis, starts>>

SYS_TimerStarted(t) == \E i \in DOMAIN timers : timers[i].timer = t

\* The time left after the first i entries of a list.
Sum(list, i) ==
  LET sum[k \in 0..Len(list)] == IF k = 0 THEN 0 ELSE sum[k - 1] + list[k].timeout
  IN  sum[i]

Behind(list, i, time) ==
  [k \in DOMAIN list |-> IF k = i + 1 THEN [list[k] EXCEPT !.timeout = @ - time] ELSE list[k]]

\* The timer comes behind all that fire no later, and the next one counts
\* from it.
placeTimer(list, t) ==
  LET before == {i \in 0..Len(list) : Sum(list, i) <= Interval[t]}
      i == CHOOSE i \in before : \A j \in before : j <= i
      timeout == Interval[t] - Sum(list, i)
  IN  InsertAt(Behind(list, i, timeout), i + 1, [timer |-> t, timeout |-> timeout])

\* Wrong on purpose: what comes behind a removed timer does not take over its
\* time.
RemovedLosing(list, i) == RemoveAt(list, i)

Removed(list, i) == RemoveAt(Behind(list, i, -list[i].timeout), i)

Free == handling # "loop"
Bounded == starts < MaxStarts /\ starts' = starts + 1

SYS_TimerStart(t) ==
  /\ Free /\ Bounded
  /\ timers' = IF SYS_TimerStarted(t) THEN timers ELSE placeTimer(timers, t)
  /\ UNCHANGED <<prev, elapsed, handling, millis>>

SYS_TimerStop(t) ==
  /\ Free /\ Bounded
  /\ \/ \E i \in DOMAIN timers : timers[i].timer = t /\ timers' = Removed(timers, i)
     \/ ~SYS_TimerStarted(t) /\ UNCHANGED timers
  /\ UNCHANGED <<prev, elapsed, handling, millis>>

\* SYS_TimerTaskHandler up to the loop.  millis() is wider than prev and is
\* compared as it is, so that later calls go on with no time elapsed, too.
SYS_TimerTaskHandler ==
  /\ handling = "no" /\ millis # prev
  /\ elapsed' = (millis - prev) % CountRange
  /\ prev' = millis % CountRange
  /\ handling' = "loop"
  /\ UNCHANGED <<timers, millis, starts>>

Due == timers # <<>> /\ timers[1].timeout <= elapsed

Fires ==
  /\ handling = "loop" /\ Due
  /\ elapsed' = elapsed - timers[1].timeout
  /\ timers' = IF timers[1].timer \in Periodic THEN placeTimer(Tail(timers), timers[1].timer)
               ELSE Tail(timers)
  /\ handling' = "handler"
  /\ UNCHANGED <<prev, millis, starts>>

HandlerReturns ==
  /\ handling = "handler" /\ handling' = "loop"
  /\ UNCHANGED <<timers, prev, elapsed, millis, starts>>

LoopEnds ==
  /\ handling = "loop" /\ ~Due
  /\ timers' = Behind(timers, 0, elapsed)
  /\ elapsed' = 0 /\ handling' = "no"
  /\ UNCHANGED <<prev, millis, starts>>

Time ==
  /\ millis < MaxMillis
  /\ millis' = millis + 1
  /\ UNCHANGED <<timers, prev, elapsed, handling, starts>>

SysTimerInit ==
  /\ timers = <<>> /\ prev = 0 /\ elapsed = 0 /\ handling = "no" /\ millis = 0 /\ starts = 0

SysTimerNext ==
  \/ \E t \in SysTimers : SYS_TimerStart(t) \/ SYS_TimerStop(t)
  \/ SYS_TimerTaskHandler \/ Fires \/ HandlerReturns \/ LoopEnds
  \/ Time

-----------------------------------------------------------------------------
(* Properties *)

Remaining ==
  [t \in {timers[i].timer : i \in DOMAIN timers} |->
     Sum(timers, CHOOSE i \in DOMAIN timers : timers[i].timer = t)]

Abstract == INSTANCE Countdown WITH remaining <- Remaining

\* The list of differences keeps the remaining time of every timer, whatever
\* the handlers start and stop while it is walked: timers fire in their order
\* and none is moved by another.
KeepsTime == Abstract!CountdownSpec

=============================================================================
