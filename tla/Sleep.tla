------------------------------- MODULE Sleep -------------------------------
(***************************************************************************)
(* sleepSec() (src/sleep.cpp) with the watchdog (src/watchdog_abuse.cpp):  *)
(* a sleep is made up of power-down phases that the watchdog's interrupt   *)
(* ends after eight seconds, and of busy seconds for the rest.  While it   *)
(* runs, all modules of the processor are powered down.                    *)
(***************************************************************************)
EXTENDS Naturals

CONSTANTS WatchdogSec,  \* WATCHDOG_DURATION_SEC: 8
          WordMod,      \* 2^16
          ByteMod,      \* 2^8
          Durations     \* the durations callers pass

ASSUME SleepAssumption ==
  /\ WatchdogSec \in Nat \ {0} /\ WatchdogSec <= ByteMod
  /\ ByteMod \in Nat /\ WordMod \in Nat /\ WordMod > 0
  /\ Durations \subseteq 0 .. WordMod - 1

Modules == {"twi", "timers", "usart", "spi", "adc"}

\* What powerSavingSettings() shuts down in production mode.
Unused == {"twi", "timers", "usart"}

VARIABLES
  phase,       \* of sleepSec(): "awake", "ticks", "delay" or "wake"
  duration,    \* duration_in_sec
  needed,      \* neededSleepTicks
  ticked,      \* watchdogTicks
  remaining,   \* seconds of delay left
  prr,         \* the modules that are powered down
  prevPRR,     \* those that were when sleepSec() was called
  adcOn,       \* ADEN
  watchdogOn,  \* the watchdog interrupts
  slept        \* history: seconds since sleepSec() was called, up to a period
               \* more than the duration

sleepVars == <<phase, duration, needed, ticked, remaining, prr, prevPRR,
               adcOn, watchdogOn, slept>>

----------------------------------------------------------------------------
Pass(sec) == slept' = IF slept + sec > duration + WatchdogSec
                        THEN duration + WatchdogSec ELSE slept + sec

StartWatchDogTimer == watchdogOn' = TRUE
StopWatchDogTimer == watchdogOn' = FALSE

\* enterSleepMode() and the interrupt that ends it, whose handler is empty.
EnterSleepMode == Pass(WatchdogSec)

BeginSleep(d) ==
  /\ phase = "awake"
  /\ duration' = d /\ needed' = d \div WatchdogSec /\ ticked' = 0
  /\ remaining' = (d - needed' * WatchdogSec) % ByteMod
  /\ prevPRR' = prr /\ prr' = Modules /\ adcOn' = FALSE
  /\ IF needed' # 0 THEN phase' = "ticks" /\ StartWatchDogTimer
                    ELSE phase' = "delay" /\ UNCHANGED watchdogOn
  /\ slept' = 0

\* Mutant: a counter of eight bits.
WatchdogTickByte ==
  /\ phase = "ticks"
  /\ ticked' = (ticked + 1) % ByteMod /\ EnterSleepMode
  /\ IF ticked' = needed THEN phase' = "delay" /\ StopWatchDogTimer
                         ELSE UNCHANGED <<phase, watchdogOn>>
  /\ UNCHANGED <<duration, needed, remaining, prr, prevPRR, adcOn>>

WatchdogTick ==
  /\ phase = "ticks"
  /\ ticked' = (ticked + 1) % WordMod /\ EnterSleepMode
  /\ IF ticked' = needed THEN phase' = "delay" /\ StopWatchDogTimer
                         ELSE UNCHANGED <<phase, watchdogOn>>
  /\ UNCHANGED <<duration, needed, remaining, prr, prevPRR, adcOn>>

DelaySecond ==
  /\ phase = "delay" /\ remaining > 0
  /\ remaining' = remaining - 1 /\ Pass(1)
  /\ UNCHANGED <<phase, duration, needed, ticked, prr, prevPRR, adcOn,
                 watchdogOn>>

\* Mutant: the ADC is not enabled again.
EndDelayNoAdc ==
  /\ phase = "delay" /\ remaining = 0 /\ phase' = "wake"
  /\ prr' = prevPRR
  /\ UNCHANGED <<duration, needed, ticked, remaining, prevPRR, adcOn, watchdogOn,
                 slept>>

EndDelay ==
  /\ phase = "delay" /\ remaining = 0 /\ phase' = "wake"
  /\ prr' = prevPRR /\ adcOn' = TRUE
  /\ UNCHANGED <<duration, needed, ticked, remaining, prevPRR, watchdogOn,
                 slept>>

\* The locals are gone with the return.
ReturnFromSleep ==
  /\ phase = "wake" /\ phase' = "awake"
  /\ duration' = 0 /\ needed' = 0 /\ ticked' = 0 /\ remaining' = 0
  /\ prevPRR' = {} /\ slept' = 0
  /\ UNCHANGED <<prr, adcOn, watchdogOn>>

----------------------------------------------------------------------------
\* After setup().
SleepInit ==
  /\ phase = "awake" /\ duration = 0 /\ needed = 0 /\ ticked = 0
  /\ remaining = 0 /\ prr = Unused /\ prevPRR = {} /\ adcOn = TRUE
  /\ watchdogOn = FALSE /\ slept = 0

SleepStep == WatchdogTick \/ DelaySecond \/ EndDelay \/ ReturnFromSleep

SleepNext == SleepStep \/ \E d \in Durations : BeginSleep(d)

SleepSpec == SleepInit /\ [][SleepNext]_sleepVars

----------------------------------------------------------------------------
SleepTypeOK ==
  /\ phase \in {"awake", "ticks", "delay", "wake"}
  /\ duration \in 0 .. WordMod - 1 /\ needed \in 0 .. WordMod - 1
  /\ ticked \in 0 .. WordMod - 1 /\ remaining \in 0 .. ByteMod - 1
  /\ prr \subseteq Modules /\ prevPRR \subseteq Modules
  /\ adcOn \in BOOLEAN /\ watchdogOn \in BOOLEAN
  /\ slept \in 0 .. WordMod + WatchdogSec

(***************************************************************************)
(* A sleep lasts exactly as long as it was asked to and never longer: the  *)
(* two divisions lose no second, no tick is missed on the way to the test  *)
(* for equality, and a duration below a watchdog period does not run       *)
(* through the 2^16 values of the tick counter.  The watchdog's interrupts *)
(* are on while the processor is powered down and at no other time.        *)
(***************************************************************************)
SleepExact ==
  /\ SleepTypeOK
  /\ slept <= duration
  /\ phase = "wake" => slept = duration
  /\ watchdogOn <=> phase = "ticks"
============================================================================
