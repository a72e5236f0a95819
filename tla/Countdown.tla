------------------------------ MODULE Countdown ------------------------------
(***************************************************************************)
(* What the system timers promise: every started timer has a time that     *)
(* remains.  The handler is given an amount of time to account for, fires  *)
(* what falls into it in the order of what remains, and what is started or *)
(* stopped by a handler counts from the moment the fired timer was due.    *)
(***************************************************************************)
EXTENDS Integers

CONSTANTS SysTimers, Interval, Periodic

VARIABLES
  remaining,  \* of the started timers
  elapsed     \* what the handler has still to account for

Started == DOMAIN remaining
Without(t) == [u \in Started \ {t} |-> remaining[u]]
Passed(f, time) == [u \in DOMAIN f |-> f[u] - time]
With(f, t) == [u \in DOMAIN f \cup {t} |-> IF u = t THEN Interval[t] ELSE f[u]]

CountdownInit == remaining = [t \in {} |-> 0] /\ elapsed = 0

Start(t) ==
  /\ t \notin Started
  /\ remaining' = With(remaining, t)
  /\ UNCHANGED elapsed

Stop(t) ==
  /\ t \in Started
  /\ remaining' = Without(t)
  /\ UNCHANGED elapsed

Account ==
  /\ elapsed = 0 /\ elapsed' \in Nat
  /\ UNCHANGED remaining

Fire(t) ==
  /\ t \in Started /\ remaining[t] <= elapsed
  /\ \A u \in Started : remaining[t] <= remaining[u]
  /\ elapsed' = elapsed - remaining[t]
  /\ LET others == Passed(Without(t), remaining[t])
     IN  remaining' = IF t \in Periodic THEN With(others, t) ELSE others

\* The handler returns once nothing is due any more.
Return ==
  /\ \A u \in Started : remaining[u] > elapsed
  /\ remaining' = Passed(remaining, elapsed)
  /\ elapsed' = 0

CountdownNext ==
  \/ \E t \in SysTimers : Start(t) \/ Stop(t) \/ Fire(t)
  \/ Account \/ Return

CountdownSpec == CountdownInit /\ [][CountdownNext]_<<remaining, elapsed>>

=============================================================================
