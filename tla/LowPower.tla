------------------------------ MODULE LowPower ------------------------------
(***************************************************************************)
(* LowPower: a call turns off what the sketch names, starts the watchdog   *)
(* if the sleep has a period, stops the processor until an interrupt, and  *)
(* turns everything on again.  Which peripherals there are depends on the  *)
(* chip the library is built for.                                          *)
(*                                                                         *)
(* The registers outlive a call, so what an earlier sleep left behind      *)
(* meets the next one: the watchdog of a sleep that a pin ended still      *)
(* runs.  The brown-out detector, which the hardware turns on again by     *)
(* itself, is left out.                                                    *)
(***************************************************************************)
EXTENDS Integers, FiniteSets

VARIABLES
  chip,   \* what the library is built for
  prr,    \* peripherals without power
  aden,   \* the converter is enabled
  tccr,   \* clock select bits of timer 2 that are set (CS20, CS21, CS22 as 0, 1, 2)
  clockSource,
  wdt,    \* the watchdog runs, and will interrupt
  sleep,  \* the call and what it was asked for
  before, \* what was on when it was made
  phase   \* awake, or the call: ready to stop, stopped, going on

lowPowerVars == <<chip, prr, aden, tccr, clockSource, wdt, sleep, before, phase>>

Chips == {"328P", "32U4", "2560", "RFR2", "SAMD21"}
Periods == {"timed", "forever"}
ClockBits == 0..2

Timers(n) == CASE n = "328P" -> {"timer0", "timer1", "timer2"}
               [] n = "32U4" -> {"timer0", "timer1", "timer3", "timer4"}
               [] OTHER -> {"timer0", "timer1", "timer2", "timer3", "timer4", "timer5"}

\* Bound: a sketch asks to have nothing turned off, one thing or everything;
\* no two of them meet in the code.
Selections(modules) == {{}, modules} \cup {{m} : m \in modules}

-----------------------------------------------------------------------------
(* Before the processor stops *)

\* TCCR2B & CS2x: CS20, CS21 and CS22 are the numbers of the bits, so each
\* test looks at the bits of that number.
Tests(bit) == IF bit = 0 THEN {} ELSE {bit - 1}
BitsThatTest(set) == {bit \in ClockBits : Tests(bit) \cap set # {}}

\* What the sketch has on: power, the converter, the clock of timer 2.
NowOn == [prr |-> prr, aden |-> aden, tccr |-> tccr]

\* timer2 == TIMER2_OFF
StopClock(off) ==
  IF "timer2" \in off THEN tccr' = {} /\ clockSource' = BitsThatTest(tccr)
  ELSE UNCHANGED tccr /\ clockSource' = {}

\* period != SLEEP_FOREVER: wdt_enable and WDIE
StartWatchdog(period) == wdt' = (wdt \/ period = "timed")

\* The first half of every call: what is named loses its power in the idle
\* mode; in the others the converter is disabled, and the processor's own
\* sleep stops the rest.
Call(mode, period, off) ==
  /\ phase = "awake" /\ phase' = "ready"
  /\ sleep' = [mode |-> mode, period |-> period, off |-> off]
  /\ before' = NowOn
  /\ aden' = (aden /\ "adc" \notin off)
  /\ prr' = IF mode = "idle" THEN prr \cup off ELSE prr
  /\ StopClock(off) /\ StartWatchdog(period)
  /\ UNCHANGED chip

\* The peripherals idle turns off, by chip.
idle328P(period) ==
  /\ chip = "328P"
  /\ \E off \in Selections(Timers(chip) \cup {"adc", "spi", "usart0", "twi"}) :
       Call("idle", period, off)

idle32U4(period) ==
  /\ chip = "32U4"
  /\ \E off \in Selections(Timers(chip) \cup {"adc", "spi", "usart1", "twi", "usb"}) :
       Call("idle", period, off)

idle2560(period) ==
  /\ chip = "2560"
  /\ \E off \in Selections(Timers(chip) \cup {"adc", "spi", "twi"}
                        \cup {"usart0", "usart1", "usart2", "usart3"}) :
       Call("idle", period, off)

idleRFR2(period) ==
  /\ chip = "RFR2"
  /\ \E off \in Selections(Timers(chip) \cup {"adc", "spi", "usart0", "usart1", "twi"}) :
       Call("idle", period, off)

\* The other modes turn off the converter and, where there is one, timer 2.
AdcAndTimer2 == IF chip = "32U4" THEN {"adc"} ELSE {"adc", "timer2"}

adcNoiseReduction(period) ==
  chip # "SAMD21" /\ \E off \in Selections(AdcAndTimer2) : Call("adc", period, off)

powerDown(period) ==
  chip # "SAMD21" /\ \E off \in Selections({"adc"}) : Call("down", period, off)

powerSave(period) ==
  chip # "SAMD21" /\ \E off \in Selections(AdcAndTimer2) : Call("save", period, off)

powerStandby(period) ==
  chip # "SAMD21" /\ \E off \in Selections({"adc"}) : Call("standby", period, off)

powerExtStandby(period) ==
  chip # "SAMD21" /\ \E off \in Selections(AdcAndTimer2) : Call("extended", period, off)

\* The SAMD21 has two calls, which set the depth and wait for an interrupt.
idleSAMD21 == chip = "SAMD21" /\ Call("idle", "forever", {})
standbySAMD21 == chip = "SAMD21" /\ Call("standby", "forever", {})

-----------------------------------------------------------------------------
(* The processor stops and goes on *)

\* lowPowerBodOn, lowPowerBodOff: sei takes effect after the instruction
\* that stops the processor, so no interrupt comes between the two.
FallAsleep ==
  /\ phase = "ready" /\ phase' = "stopped"
  /\ UNCHANGED <<chip, prr, aden, tccr, clockSource, wdt, sleep, before>>

\* A pin, the radio, a timer: any interrupt ends the sleep.
InterruptWakes ==
  /\ phase = "stopped" /\ phase' = "going on"
  /\ UNCHANGED <<chip, prr, aden, tccr, clockSource, wdt, sleep, before>>

\* WDT_vect.  The watchdog does not run out between its start and the stop
\* of the processor: its shortest period is 15 ms.
WatchdogVector ==
  /\ wdt /\ ~(phase = "ready" /\ sleep.period = "timed")
  /\ wdt' = FALSE
  /\ phase' = IF phase = "stopped" THEN "going on" ELSE phase
  /\ UNCHANGED <<chip, prr, aden, tccr, clockSource, sleep, before>>

\* The second half of every call: what was turned off is turned on, and the
\* clock source put back with the same tests it was taken with.
GoOn ==
  /\ phase = "going on" /\ phase' = "awake"
  /\ aden' = (aden \/ "adc" \in sleep.off)
  /\ prr' = IF sleep.mode = "idle" THEN prr \ sleep.off ELSE prr
  /\ tccr' = IF "timer2" \in sleep.off THEN tccr \cup BitsThatTest(clockSource) ELSE tccr
  /\ UNCHANGED <<chip, clockSource, wdt, sleep, before>>

-----------------------------------------------------------------------------

\* The Arduino core has everything on and timer 2 at a clock of its own
\* (init in wiring.c sets CS22); a sketch may choose another one.
LowPowerInit ==
  /\ chip \in Chips
  /\ prr = {} /\ aden = TRUE /\ tccr \in SUBSET ClockBits
  /\ clockSource = {} /\ wdt = FALSE /\ phase = "awake"
  /\ sleep = [mode |-> "idle", period |-> "forever", off |-> {}]
  /\ before = NowOn

Sleeps ==
  \/ \E period \in Periods :
       \/ idle328P(period) \/ idle32U4(period) \/ idle2560(period) \/ idleRFR2(period)
       \/ adcNoiseReduction(period) \/ powerDown(period) \/ powerSave(period)
       \/ powerStandby(period) \/ powerExtStandby(period)
  \/ idleSAMD21 \/ standbySAMD21

LowPowerNext == Sleeps \/ FallAsleep \/ InterruptWakes \/ WatchdogVector \/ GoOn

LowPowerSpec == LowPowerInit /\ [][LowPowerNext]_lowPowerVars

\* The processor runs when it is not stopped, and a running watchdog runs out.
LowPowerFair ==
  /\ WF_lowPowerVars(FallAsleep) /\ WF_lowPowerVars(GoOn)
  /\ WF_lowPowerVars(WatchdogVector)

-----------------------------------------------------------------------------

\* The clock timer 2 has after a sleep: a call that turns it off puts back the
\* bit CS22 alone, and only if CS20 was set.  With the one the core selects,
\* and with every other that has CS20 clear, it stays stopped.
ClockLeft(off, clock) ==
  IF "timer2" \notin off THEN clock ELSE IF 0 \in clock THEN {2} ELSE {}

\* After a sleep every peripheral has its power and the converter is enabled
\* if they were before it, whichever of them the call turned off and whatever
\* ended it; and timer 2 has the clock it had, unless the call turned it off.
ModulesBack ==
  phase = "awake" => /\ prr \subseteq before.prr
                     /\ before.aden => aden
                     /\ tccr = ClockLeft(sleep.off, before.tccr)

\* A sleep with a period ends, whatever it follows: no interrupt but the
\* watchdog's is needed.
InTimedSleep == phase # "awake" /\ sleep.period = "timed"
TimedSleepEnds == InTimedSleep ~> ~InTimedSleep

=============================================================================
