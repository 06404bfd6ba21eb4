------------------------------ MODULE Drivers ------------------------------
(***************************************************************************)
(* The routines under loop() and checkMoisture() that drive the hardware:  *)
(* power outputs, measurements and sleeps.  The program is one thread: it  *)
(* calls them in any order, each after the one before has returned.        *)
(***************************************************************************)
EXTENDS ShiftRegister, Sleep, Measurement

driverVars == <<shiftVars, sleepVars, measureVars>>

\* No routine is running.
Idle == ShiftIdle /\ phase = "awake" /\ sensor = NoSensor

CallUpdate ==
  /\ Idle /\ ShiftStart
  /\ UNCHANGED <<sleepVars, measureVars>>

CallSleep ==
  /\ Idle /\ \E d \in Durations : BeginSleep(d)
  /\ UNCHANGED <<shiftVars, measureVars>>

CallMeasurement ==
  /\ Idle /\ \E lo, hi \in Raw : BeginMeasurement(lo, hi)
  /\ UNCHANGED <<shiftVars, sleepVars>>

RunRoutine ==
  \/ ShiftStep /\ UNCHANGED <<sleepVars, measureVars>>
  \/ SleepStep /\ UNCHANGED <<shiftVars, measureVars>>
  \/ MeasureStep /\ UNCHANGED <<shiftVars, sleepVars>>

DriversInit == ShiftInit /\ SleepInit /\ MeasureInit

DriversNext == CallUpdate \/ CallSleep \/ CallMeasurement \/ RunRoutine

DriversSpec == DriversInit /\ [][DriversNext]_driverVars

----------------------------------------------------------------------------
(***************************************************************************)
(* A measurement finds its converter powered and enabled, and no watchdog  *)
(* interrupts it, whatever sleeps came before: a sleep powers everything   *)
(* down and must restore it on its way out.                                *)
(***************************************************************************)
ConverterReady ==
  sensor # NoSensor => adcOn /\ prr = Unused /\ ~watchdogOn
============================================================================
