--------------------------- MODULE CheckMoisture ---------------------------
(***************************************************************************)
(* checkMoisture() of the microcontroller (src/main.cpp): one call         *)
(* irrigates one plant in bursts.  Before every burst the soil is measured *)
(* once; during a burst the water level is measured once per cycle, and    *)
(* the pump is switched on after the first good water reading.             *)
(*                                                                         *)
(* A measurement is five conversions with four pauses of 200 ms between    *)
(* them, and the code charges it as five pauses.  So each measurement is a *)
(* step that takes some of the time in between, and the readings are the   *)
(* environment's choice.  The local variables of the call are the          *)
(* variables of the "frame"; they are reset when the call returns.         *)
(*                                                                         *)
(* Raw readings are stored beside the percentages by the same statements   *)
(* and are not represented.                                                *)
(***************************************************************************)
EXTENDS Integers

CONSTANTS
  MaxPlants,   \* MAX_MOISTURE_SENSOR_COUNT
  MaxLevel,    \* largest percentage a calibrated sensor yields (100)
  Undefined,   \* UNDEFINED_LEVEL_8: "not measured in this round" (255)
  ByteMod,     \* 2^8, the values of an uint8_t
  WordMod,     \* 2^16, the values of an uint16_t
  IntMax,      \* INT_MAX of the 16-bit int of the AVR
  MeasureTimes, \* the milliseconds a measurement may take
  Configs      \* the per-plant configurations a call may find

Plant  == 0 .. MaxPlants - 1
Sensor == 0 .. 1                 \* the two water sensors
Level  == 0 .. MaxLevel
Byte   == 0 .. ByteMod - 1
Word   == 0 .. WordMod - 1

Config ==
  [target : Byte, maxBursts : Byte, burstDuration : Byte, burstDelay : Byte,
   sensor : Sensor, warn : Byte, empty : Byte]

\* Milliseconds.  A measurement waits MEASURE_DELAY_MS before every
\* conversion but the first of ADC_MEASUREMENTS, and the code charges the
\* product of the two; POWER_ON_DELAY_MS passes before the first one.
Second              == 1000
MeasurementPauses   == (5 - 1) * 200
MeasurementDuration == 5 * 200
PowerOnDelay        == 500

ASSUME CheckAssumption ==
  /\ MaxPlants \in Nat \ {0}
  /\ MaxLevel \in Nat /\ Undefined \in Nat /\ Undefined > MaxLevel
  /\ ByteMod \in Nat \ {0} /\ WordMod \in Nat \ {0}
  /\ IntMax \in 0 .. WordMod - 1
  /\ MeasureTimes \subseteq MeasurementPauses .. MeasurementDuration
  /\ Configs \subseteq Config

VARIABLES
  pc,              \* where the call is; "idle" when no call is running
  plant, conf,     \* the frame: the index and its configuration,
  burst,           \* the loop counters,
  burstCycle,
  soilIsTooDry,    \* the results of the last two comparisons,
  hasWaterLeft,
  moist, water,    \* and the last readings of this call
  power,           \* outputs latched in the power shift register
  outputOn,        \* its output enable
  status,          \* the levels reported to the server
  secondsPassed,   \* uint16_t, shared by all calls of a round
  hardwareFailure, \* settings.hardwareFailure
  retCode          \* result of the last call, a set of <<sensor, bit>>

\* History of the call, read by no action of the program.
VARIABLES pumped,   \* measurements, and seconds of delay, with the pump on
          elapsed,  \* milliseconds the call has really taken so far
          dryReads, \* soil readings below the target
          sawEmpty  \* a water reading was at or below the empty threshold

frame    == <<plant, conf, burst, burstCycle, soilIsTooDry, hasWaterLeft,
              moist, water>>
register == <<power, outputOn>>
history  == <<pumped, elapsed, dryReads, sawEmpty>>
results  == <<status, secondsPassed, hardwareFailure, retCode>>
checkVars == <<pc, frame, register, results, history>>

----------------------------------------------------------------------------
MoistPower(i) == <<"moist", i>>
WaterPower(w) == <<"water", w>>

PumpPower(i)  == <<"pump", i>>
Pumps == {PumpPower(i) : i \in Plant}

\* What the board really supplies: the latched outputs while enabled.
Driven == IF outputOn THEN power ELSE {}

PumpOn == PumpPower(plant) \in Driven

SensorPower(i, c) == {MoistPower(i), WaterPower(c.sensor)}

(***************************************************************************)
(* Measurement periods per burst: burstDuration seconds, rounded up to     *)
(* whole periods of 5 * 200 ms, in an uint8_t.                             *)
(***************************************************************************)
BurstCycles(c) ==
  ((c.burstDuration * 1000 + MeasurementDuration - 1)
      \div MeasurementDuration) % ByteMod

UndefStatus ==
  [beforeMoist |-> [i \in Plant |-> Undefined],
   afterMoist  |-> [i \in Plant |-> Undefined],
   beforeWater |-> [w \in Sensor |-> Undefined],
   afterWater  |-> [w \in Sensor |-> Undefined]]

\* Mutant: the "before" levels follow every measurement.
InitCheckOverwrites(st, i, w, m, x) ==
  [st EXCEPT !.beforeMoist[i] = m, !.beforeWater[w] = x]

\* The first values of a round are kept, later ones do not replace them.
InitCheck(st, i, w, m, x) ==
  [st EXCEPT !.beforeMoist[i] = IF @ = Undefined THEN m ELSE @,
             !.beforeWater[w] = IF @ = Undefined THEN x ELSE @]

(***************************************************************************)
(* The seconds the code charges for its measurements.  The product is      *)
(* computed in the 16-bit int of the AVR: beyond IntMax the behaviour is   *)
(* undefined and any word may result.                                      *)
(***************************************************************************)
MeasurementSecs(b, n, k) ==
  LET periods == b * (n + 1) + k
  IN IF periods <= IntMax
       THEN {((periods * MeasurementDuration) \div 1000) % WordMod}
       ELSE Word

NoConf == [target |-> 0, maxBursts |-> 0, burstDuration |-> 0,
           burstDelay |-> 0, sensor |-> 0, warn |-> 0, empty |-> 0]

EmptyFrame ==
  /\ plant = 0 /\ conf = NoConf /\ burst = 0 /\ burstCycle = 0
  /\ soilIsTooDry = FALSE /\ hasWaterLeft = FALSE
  /\ moist = Undefined /\ water = Undefined
  /\ pumped = 0 /\ elapsed = 0 /\ dryReads = 0 /\ sawEmpty = FALSE

\* On return the locals are gone: written in the same form as EmptyFrame.
DropFrame ==
  /\ plant' = 0 /\ conf' = NoConf /\ burst' = 0 /\ burstCycle' = 0
  /\ soilIsTooDry' = FALSE /\ hasWaterLeft' = FALSE
  /\ moist' = Undefined /\ water' = Undefined
  /\ pumped' = 0 /\ elapsed' = 0 /\ dryReads' = 0 /\ sawEmpty' = FALSE

----------------------------------------------------------------------------
(***************************************************************************)
(* The call: power the two sensors, then enter the burst loop.             *)
(***************************************************************************)
Call(i, c) ==
  /\ pc = "idle"
  /\ plant' = i /\ conf' = c
  /\ power' = SensorPower(i, c)
  /\ elapsed' = elapsed + PowerOnDelay
  /\ pc' = IF c.maxBursts > 0 THEN "soil" ELSE "stop"
  /\ UNCHANGED <<burst, burstCycle, soilIsTooDry, hasWaterLeft, moist, water,
                 outputOn, results, pumped, dryReads, sawEmpty>>

\* The time of a measurement passes; the pump runs on if it is on.
Measuring ==
  /\ \E t \in MeasureTimes : elapsed' = elapsed + t
  /\ pumped' = pumped + (IF PumpOn THEN 1 ELSE 0)

\* Mutant: moist soil does not end the call.
MeasureSoilGoesOn(m) ==
  /\ pc = "soil"
  /\ moist' = m
  /\ soilIsTooDry' = (m < conf.target)
  /\ pc' = IF burstCycle < BurstCycles(conf) THEN "water" ELSE "burstEnd"
  /\ Measuring
  /\ dryReads' = dryReads + (IF m < conf.target THEN 1 ELSE 0)
  /\ UNCHANGED <<plant, conf, burst, burstCycle, hasWaterLeft, water,
                 register, results, sawEmpty>>

(***************************************************************************)
(* isSoilTooDry(): once before every burst; moist soil ends the call.      *)
(***************************************************************************)
MeasureSoil(m) ==
  /\ pc = "soil"
  /\ moist' = m
  /\ soilIsTooDry' = (m < conf.target)
  /\ pc' = IF m >= conf.target THEN "stop"
           ELSE IF burstCycle < BurstCycles(conf) THEN "water"
           ELSE "burstEnd"
  /\ Measuring
  /\ dryReads' = dryReads + (IF m < conf.target THEN 1 ELSE 0)
  /\ UNCHANGED <<plant, conf, burst, burstCycle, hasWaterLeft, water,
                 register, results, sawEmpty>>

(***************************************************************************)
(* waterTankNotEmpty(): once per cycle.  An empty tank ends the call; the  *)
(* first good reading of a burst switches the pump on.                     *)
(***************************************************************************)
WaterEmpty(x) ==
  /\ x <= conf.empty
  /\ hasWaterLeft' = FALSE
  /\ sawEmpty' = TRUE
  /\ pc' = "stop"
  /\ UNCHANGED <<burstCycle, power, status>>

WaterLeft(x) ==
  /\ x > conf.empty
  /\ hasWaterLeft' = TRUE
  /\ power' = IF burstCycle = 0
                THEN SensorPower(plant, conf) \cup {PumpPower(plant)}
                ELSE power
  /\ status' = IF burstCycle = 0 /\ burst = 0
                 THEN InitCheck(status, plant, conf.sensor, moist, x)
                 ELSE status
  /\ burstCycle' = burstCycle + 1
  /\ pc' = IF burstCycle + 1 < BurstCycles(conf) THEN "water" ELSE "burstEnd"
  /\ UNCHANGED sawEmpty

MeasureWater(x) ==
  /\ pc = "water"
  /\ water' = x
  /\ Measuring
  /\ WaterEmpty(x) \/ WaterLeft(x)
  /\ UNCHANGED <<plant, conf, burst, soilIsTooDry, moist, outputOn,
                 secondsPassed, hardwareFailure, retCode, dryReads>>

\* Mutants: the pump runs on through the delay; the delay is not charged;
\* the board sleeps for a delay of zero, from which no timer wakes it.
EndBurstPumpOn ==
  /\ pc = "burstEnd"
  /\ burstCycle' = 0 /\ burst' = burst + 1
  /\ secondsPassed' = (secondsPassed + conf.burstDelay) % WordMod
  /\ elapsed' = elapsed + Second * conf.burstDelay
  /\ pumped' = pumped + (IF PumpOn THEN conf.burstDelay ELSE 0)
  /\ pc' = IF burst + 1 < conf.maxBursts THEN "soil" ELSE "stop"
  /\ UNCHANGED <<plant, register, conf, soilIsTooDry, hasWaterLeft, moist,
                 water, status, hardwareFailure, retCode, dryReads, sawEmpty>>

EndBurstUncharged ==
  /\ pc = "burstEnd"
  /\ burstCycle' = 0 /\ burst' = burst + 1
  /\ power' = IF conf.burstDelay > 0 THEN SensorPower(plant, conf) ELSE power
  /\ elapsed' = elapsed + Second * conf.burstDelay
  /\ pc' = IF burst + 1 < conf.maxBursts THEN "soil" ELSE "stop"
  /\ UNCHANGED <<plant, outputOn, conf, soilIsTooDry, hasWaterLeft, moist,
                 water, status, secondsPassed, hardwareFailure, retCode,
                 pumped, dryReads, sawEmpty>>

EndBurstSleepsOn ==
  /\ pc = "burstEnd"
  /\ IF conf.burstDelay = 0
       THEN UNCHANGED checkVars
       ELSE /\ burstCycle' = 0 /\ burst' = burst + 1
            /\ power' = SensorPower(plant, conf)
            /\ secondsPassed' = (secondsPassed + conf.burstDelay) % WordMod
            /\ elapsed' = elapsed + Second * conf.burstDelay
            /\ pc' = IF burst + 1 < conf.maxBursts THEN "soil" ELSE "stop"
            /\ UNCHANGED <<plant, outputOn, conf, soilIsTooDry, hasWaterLeft,
                           moist, water, status, hardwareFailure, retCode,
                           pumped, dryReads, sawEmpty>>

(***************************************************************************)
(* After a burst: with a burst delay the pump is switched off and the      *)
(* board sleeps; without one the pump stays on into the next measurement.  *)
(***************************************************************************)
EndBurst ==
  /\ pc = "burstEnd"
  /\ burstCycle' = 0
  /\ burst' = burst + 1
  /\ power' = IF conf.burstDelay > 0 THEN SensorPower(plant, conf) ELSE power
  /\ secondsPassed' = (secondsPassed + conf.burstDelay) % WordMod
  /\ elapsed' = elapsed + Second * conf.burstDelay
  /\ UNCHANGED <<plant, outputOn>>
  /\ pumped' = pumped + (IF PumpOn' THEN conf.burstDelay ELSE 0)
  /\ pc' = IF burst + 1 < conf.maxBursts THEN "soil" ELSE "stop"
  /\ UNCHANGED <<conf, soilIsTooDry, hasWaterLeft, moist, water, status,
                 hardwareFailure, retCode, dryReads,
                 sawEmpty>>

(***************************************************************************)
(* stop_irrigation: everything off, the time charged, the failure flag and *)
(* the report computed, and the frame dropped.                             *)
(***************************************************************************)
AfterLevels(st) ==
  [st EXCEPT !.afterMoist[plant] = moist, !.afterWater[conf.sensor] = water]

RetCode ==
  {<<conf.sensor, bit>> :
     bit \in (IF hasWaterLeft THEN {} ELSE {"empty"})
             \cup (IF water <= conf.warn THEN {"warn"} ELSE {})}

\* Mutants: the register keeps the pump's bit; water is not looked at.
StopIrrigationLatched ==
  /\ pc = "stop"
  /\ outputOn' = TRUE /\ UNCHANGED power
  /\ \E s \in MeasurementSecs(burst, BurstCycles(conf), burstCycle) :
        secondsPassed' = (secondsPassed + s) % WordMod
  /\ hardwareFailure' = (soilIsTooDry /\ hasWaterLeft)
  /\ status' = AfterLevels(InitCheck(status, plant, conf.sensor, moist, water))
  /\ retCode' = RetCode
  /\ pc' = "idle" /\ DropFrame

StopIrrigationDryOnly ==
  /\ pc = "stop"
  /\ power' = {} /\ outputOn' = TRUE
  /\ \E s \in MeasurementSecs(burst, BurstCycles(conf), burstCycle) :
        secondsPassed' = (secondsPassed + s) % WordMod
  /\ hardwareFailure' = soilIsTooDry
  /\ status' = AfterLevels(InitCheck(status, plant, conf.sensor, moist, water))
  /\ retCode' = RetCode
  /\ pc' = "idle" /\ DropFrame

StopIrrigation ==
  /\ pc = "stop"
  /\ power' = {} /\ outputOn' = TRUE
  /\ \E s \in MeasurementSecs(burst, BurstCycles(conf), burstCycle) :
        secondsPassed' = (secondsPassed + s) % WordMod
  /\ hardwareFailure' = (soilIsTooDry /\ hasWaterLeft)
  /\ status' = AfterLevels(InitCheck(status, plant, conf.sensor, moist, water))
  /\ retCode' = RetCode
  /\ pc' = "idle"
  /\ DropFrame

CheckStep ==
  \/ \E m \in Level : MeasureSoil(m) \/ MeasureWater(m)
  \/ EndBurst
  \/ StopIrrigation

----------------------------------------------------------------------------
(***************************************************************************)
(* The component alone: any caller that, like loop(), starts a round with  *)
(* fresh results and stops calling once the failure flag is set.           *)
(***************************************************************************)
NewRound ==
  /\ pc = "idle"
  /\ power' = {} /\ outputOn' = TRUE
  /\ status' = UndefStatus /\ secondsPassed' = 0
  /\ hardwareFailure' = FALSE /\ retCode' = {}
  /\ UNCHANGED <<pc, frame, history>>

CheckInit ==
  /\ pc = "idle" /\ EmptyFrame
  /\ power = {} /\ outputOn = TRUE
  /\ status = UndefStatus /\ secondsPassed = 0
  /\ hardwareFailure = FALSE /\ retCode = {}

CheckNext ==
  \/ NewRound
  \/ \E i \in Plant, c \in Configs :
        /\ ~hardwareFailure
        /\ status.afterMoist[i] = Undefined   \* loop() calls once per plant
        /\ Call(i, c)
  \/ CheckStep

\* The processor runs until it is switched off: every call goes on.
CheckSpec == CheckInit /\ [][CheckNext]_checkVars /\ WF_checkVars(CheckStep)

----------------------------------------------------------------------------
LevelOrUndef == Level \cup {Undefined}

Outputs == {<<k, i>> : k \in {"moist", "water", "pump", "eth"},
                       i \in Plant \cup Sensor}

StatusType == [beforeMoist : [Plant -> LevelOrUndef],
               afterMoist  : [Plant -> LevelOrUndef],
               beforeWater : [Sensor -> LevelOrUndef],
               afterWater  : [Sensor -> LevelOrUndef]]

TypeOK ==
  /\ pc \in {"idle", "soil", "water", "burstEnd", "stop"}
  /\ plant \in Plant /\ conf \in Configs \cup {NoConf}
  /\ burst \in Nat /\ burstCycle \in Nat
  /\ soilIsTooDry \in BOOLEAN /\ hasWaterLeft \in BOOLEAN
  /\ moist \in LevelOrUndef /\ water \in LevelOrUndef
  /\ power \subseteq Outputs
  /\ outputOn \in BOOLEAN
  /\ status \in StatusType
  /\ secondsPassed \in Word
  /\ hardwareFailure \in BOOLEAN
  /\ retCode \subseteq Sensor \X {"empty", "warn"}
  /\ pumped \in Nat /\ elapsed \in Nat /\ dryReads \in Nat
  /\ sawEmpty \in BOOLEAN

(***************************************************************************)
(* Flood bound (main.cpp:72, "timeout to ensure we are not stuck here      *)
(* forever (and flood the plants)"): a call never powers the pump for      *)
(* longer than its bursts; without a burst delay the pump also runs        *)
(* through the soil measurements between them.  The counters that bound it *)
(* keep their widths.                                                      *)
(***************************************************************************)
PumpPeriods(c) == BurstCycles(c) + (IF c.burstDelay > 0 THEN 0 ELSE 1)

WithinBudget == pumped <= conf.maxBursts * PumpPeriods(conf)

PumpBudget == TypeOK /\ WithinBudget

(***************************************************************************)
(* The pump runs only on fresh evidence: as long as the call has not been  *)
(* stopped, a running pump means that the last soil reading was too dry    *)
(* and that the last water reading was above the empty threshold.          *)
(***************************************************************************)
PumpJustified ==
  PumpOn /\ pc # "stop" =>
    /\ moist < conf.target
    /\ water > conf.empty /\ water # Undefined
    /\ ~sawEmpty

(***************************************************************************)
(* No pump outlives its call: between calls nothing pumps.                 *)
(***************************************************************************)
PumpsOffBetweenCalls == pc = "idle" => Driven \cap Pumps = {}

(***************************************************************************)
(* The failure detector (main.cpp:157) is exact: the flag is raised when,  *)
(* and only when, every allowed burst was started on dry soil, every burst *)
(* had at least one cycle and no water reading was empty.                  *)
(***************************************************************************)
Failed ==
  /\ conf.maxBursts > 0 /\ BurstCycles(conf) > 0
  /\ dryReads = conf.maxBursts /\ ~sawEmpty

FlagExact == pc = "stop" => hardwareFailure' = Failed

FailureExact == [][FlagExact]_checkVars

(***************************************************************************)
(* Every call returns, whatever the sensors read.                          *)
(***************************************************************************)
CallReturns == pc # "idle" ~> pc = "idle"
=============================================================================
