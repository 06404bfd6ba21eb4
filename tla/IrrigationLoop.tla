--------------------------- MODULE IrrigationLoop ---------------------------
(***************************************************************************)
(* loop() of the microcontroller in production mode (src/main.cpp): wake   *)
(* up, fetch the settings, irrigate every plant that is due with           *)
(* checkMoisture() (module CheckMoisture), report over the network, sleep. *)
(*                                                                         *)
(* The network is the environment here: a fetch leaves the settings as     *)
(* they are or replaces them, a report reaches the server or does not.     *)
(***************************************************************************)
EXTENDS CheckMoisture, Sequences, FiniteSets

CONSTANTS
  SettingsSet,      \* settings the server may hand out
  DefaultSettings,  \* defaultInitSettings()
  SleepPeriod,      \* SLEEP_PERIOD_MIN * 60, in seconds
  SessionTimes,     \* the milliseconds a network session may take,
  LongestSession    \* and the most it takes before a timeout ends it

Settings ==
  [numPlants : 0 .. MaxPlants, conf : [Plant -> Configs],
   ticksBetween : [Plant -> Byte], skip : SUBSET Plant, debug : BOOLEAN]

ASSUME LoopAssumption ==
  /\ SettingsSet \subseteq Settings
  /\ DefaultSettings \in Settings
  /\ SleepPeriod \in Word
  /\ LongestSession \in Nat /\ SessionTimes \subseteq 0 .. LongestSession

VARIABLES
  lpc,            \* where loop() is
  settings,       \* Settings, except hardwareFailure
  idx,            \* the plant loop()'s for statement is at
  ticks,          \* status.ticksSinceIrrigation, kept across rounds
  statusChanged,
  resCode,        \* the report bits collected in this round
  inputs,         \* sensors whose analog pin is an input (else driven low)
  sent,           \* the messages of this round's report
  sleepSecs       \* argument of the last sleepSec()

\* History of the round, read by no action of the program.
VARIABLES checked,     \* plants checkMoisture() was called for
          firstMoist,  \* first soil reading of each plant
          firstWater,  \* first reading of each water sensor
          emptySeen,   \* sensors that gave a reading at or below empty
          failedPlant, \* plant whose call raised the failure flag, or -1
          roundTime    \* milliseconds from waking up to where loop() is,
                       \* without those of the call that is running

loopState   == <<settings, idx, ticks, statusChanged, resCode, inputs, sent,
                 sleepSecs>>
loopHistory == <<checked, firstMoist, firstWater, emptySeen, failedPlant>>
vars == <<checkVars, lpc, loopState, loopHistory, roundTime>>

----------------------------------------------------------------------------
Ethernet == <<"eth", 0>>

\* getUsedWaterSens(): looks at the mapping of all plants, active or not.
UsedWaterSens(s) == IF \E i \in Plant : s.conf[i].sensor = 1 THEN 2 ELSE 1

AllSensors == {MoistPower(i) : i \in Plant} \cup {WaterPower(w) : w \in Sensor}

\* deinitUnusedAnalogPins(): what stays an input under settings s.
UsedSensors(s) ==
  {MoistPower(i) : i \in 0 .. s.numPlants - 1}
    \cup {WaterPower(w) : w \in 0 .. UsedWaterSens(s) - 1}

\* Mutant: one tick more than asked for, which a byte may not reach.
SkipOneMore(i) == ticks[i] <= settings.ticksBetween[i] \/ i \in settings.skip

\* loop()'s "skip": not due yet, or excluded by the user.
Skip(i) == ticks[i] < settings.ticksBetween[i] \/ i \in settings.skip

\* ++t on an uint8_t; max(t, t + 1) of the failure branch computes the same.
Ticked == [i \in Plant |-> (ticks[i] + 1) % ByteMod]

InCheck == pc # "idle"

\* From powering the Ethernet module up to powering it down.
NetworkSession == \E t \in SessionTimes : roundTime' = roundTime + t

----------------------------------------------------------------------------
(***************************************************************************)
(* Waking up: all sensor pins become inputs and the Ethernet module is     *)
(* powered.                                                                *)
(***************************************************************************)
WakeUp ==
  /\ lpc = "sleep" /\ lpc' = "fetch"
  /\ inputs' = AllSensors
  /\ power' = {Ethernet} /\ outputOn' = TRUE
  /\ sent' = <<>> /\ sleepSecs' = 0
  /\ checked' = {} /\ emptySeen' = {} /\ failedPlant' = -1
  /\ firstMoist' = [i \in Plant |-> Undefined]
  /\ firstWater' = [w \in Sensor |-> Undefined]
  /\ roundTime' = 0
  /\ UNCHANGED <<pc, frame, results, history, settings, idx, ticks,
                 statusChanged, resCode>>

(***************************************************************************)
(* updateSettings(): the server's settings, its failure flag included,     *)
(* replace ours as a whole, or nothing is received.                        *)
(***************************************************************************)
Receive(s, f) == settings' = s /\ hardwareFailure' = f
ReceiveNothing == UNCHANGED <<settings, hardwareFailure>>

\* Mutant: the unused pins are given up before the settings are fetched.
FetchSettingsLate ==
  /\ lpc = "fetch" /\ lpc' = "begin"
  /\ \/ \E s \in SettingsSet, f \in BOOLEAN : Receive(s, f)
     \/ ReceiveNothing
  /\ inputs' = inputs \cap UsedSensors(settings)
  /\ power' = {} /\ outputOn' = TRUE
  /\ secondsPassed' = 0 /\ NetworkSession
  /\ UNCHANGED <<pc, frame, status, retCode, history, idx, ticks,
                 statusChanged, resCode, sent, sleepSecs, loopHistory>>

FetchSettings ==
  /\ lpc = "fetch" /\ lpc' = "begin"
  /\ \/ \E s \in SettingsSet, f \in BOOLEAN : Receive(s, f)
     \/ ReceiveNothing
  /\ inputs' = inputs \cap UsedSensors(settings')
  /\ power' = {} /\ outputOn' = TRUE
  /\ secondsPassed' = 0 /\ NetworkSession
  /\ UNCHANGED <<pc, frame, status, retCode, history, idx, ticks,
                 statusChanged, resCode, sent, sleepSecs, loopHistory>>

BeginRound ==
  /\ lpc = "begin" /\ ~hardwareFailure
  /\ lpc' = "plants"
  /\ status' = UndefStatus
  /\ statusChanged' = FALSE /\ resCode' = {} /\ idx' = 0
  /\ power' = {} /\ outputOn' = TRUE
  /\ UNCHANGED <<pc, frame, secondsPassed, hardwareFailure, retCode, history,
                 settings, ticks, inputs, sent, sleepSecs, loopHistory,
                 roundTime>>

\* With the failure flag set only the tick counters move.
HoldRound ==
  /\ lpc = "begin" /\ hardwareFailure
  /\ lpc' = "rest"
  /\ inputs' = {}
  /\ ticks' = Ticked
  /\ UNCHANGED <<checkVars, settings, idx, statusChanged, resCode, sent,
                 sleepSecs, loopHistory, roundTime>>

(***************************************************************************)
(* The plant loop: !hardwareFailure && idx < numPlants.                    *)
(***************************************************************************)
AtPlant == lpc = "plants" /\ ~InCheck

\* Mutant: a failure does not end the round.
MorePlantsAnyway == idx < settings.numPlants

MorePlants == ~hardwareFailure /\ idx < settings.numPlants

\* Mutant: a plant that is skipped ends the loop.
SkipPlantBreaks ==
  /\ AtPlant /\ MorePlants /\ Skip(idx)
  /\ idx' = settings.numPlants
  /\ UNCHANGED <<checkVars, lpc, settings, ticks, statusChanged, resCode,
                 inputs, sent, sleepSecs, loopHistory, roundTime>>

SkipPlant ==
  /\ AtPlant /\ MorePlants /\ Skip(idx)
  /\ idx' = idx + 1
  /\ UNCHANGED <<checkVars, lpc, settings, ticks, statusChanged, resCode,
                 inputs, sent, sleepSecs, loopHistory, roundTime>>

CheckPlant ==
  /\ AtPlant /\ MorePlants /\ ~Skip(idx)
  /\ ticks' = [ticks EXCEPT ![idx] = ByteMod - 1]
  /\ statusChanged' = TRUE
  /\ Call(idx, settings.conf[idx])
  /\ checked' = checked \cup {idx}
  /\ UNCHANGED <<lpc, settings, idx, resCode, inputs, sent, sleepSecs,
                 firstMoist, firstWater, emptySeen, failedPlant, roundTime>>

\* Inside checkMoisture(): its readings enter the round's history.
StepInCheck ==
  /\ lpc = "plants" /\ pc \in {"soil", "water", "burstEnd"}
  /\ CheckStep
  /\ firstMoist' = IF pc = "soil" /\ firstMoist[plant] = Undefined
                     THEN [firstMoist EXCEPT ![plant] = moist']
                     ELSE firstMoist
  /\ firstWater' = IF pc = "water" /\ firstWater[conf.sensor] = Undefined
                     THEN [firstWater EXCEPT ![conf.sensor] = water']
                     ELSE firstWater
  /\ emptySeen' = IF pc = "water" /\ water' <= conf.empty
                    THEN emptySeen \cup {conf.sensor}
                    ELSE emptySeen
  /\ UNCHANGED <<lpc, loopState, checked, failedPlant, roundTime>>

\* checkMoisture() returns: collect its result, go to the next plant.
ReturnFromCheck ==
  /\ lpc = "plants" /\ pc = "stop"
  /\ CheckStep
  /\ resCode' = resCode \cup retCode'
  /\ idx' = idx + 1
  /\ failedPlant' = IF hardwareFailure' THEN plant ELSE failedPlant
  /\ roundTime' = roundTime + elapsed
  /\ UNCHANGED <<lpc, settings, ticks, statusChanged, inputs, sent, sleepSecs,
                 checked, firstMoist, firstWater, emptySeen>>

(***************************************************************************)
(* After the plants: everything off, tick counters advanced, and the       *)
(* Ethernet module powered if there is something to report.                *)
(***************************************************************************)
EndPlants ==
  /\ AtPlant /\ ~MorePlants
  /\ ticks' = Ticked
  /\ inputs' = {}
  /\ statusChanged' = (statusChanged \/ settings.debug)
  /\ IF statusChanged' \/ hardwareFailure
       THEN lpc' = "report" /\ power' = {Ethernet} /\ outputOn' = TRUE
       ELSE lpc' = "rest" /\ power' = {} /\ outputOn' = FALSE
  /\ UNCHANGED <<pc, frame, results, history, settings, idx, resCode, sent,
                 sleepSecs, loopHistory, roundTime>>

(***************************************************************************)
(* The report.  An error text numbers its reservoir from 1, a warning text *)
(* its sensor from 0, a failure text its plant from 1 (src/lan.cpp).       *)
(***************************************************************************)
Msg(t, n) == [type |-> t, label |-> n]

\* Mutant: the warning is looked at first.
WaterReportWarnFirst(w) ==
  IF <<w, "warn">> \in resCode THEN <<Msg("warn", w)>>
  ELSE IF <<w, "empty">> \in resCode THEN <<Msg("error", w + 1)>>
  ELSE <<>>

WaterReport(w) ==
  IF <<w, "empty">> \in resCode THEN <<Msg("error", w + 1)>>
  ELSE IF <<w, "warn">> \in resCode THEN <<Msg("warn", w)>>
  ELSE <<>>

ReportMessages ==
  (IF statusChanged
     THEN <<Msg("status", 0)>> \o WaterReport(0) \o WaterReport(1)
     ELSE <<>>)
  \o (IF hardwareFailure THEN <<Msg("failure", (idx - 1) + 1)>> ELSE <<>>)

\* Mutant: the Ethernet module stays on.
ReportPowered ==
  /\ lpc = "report" /\ lpc' = "rest"
  /\ sent' \in {ReportMessages, <<>>}
  /\ NetworkSession
  /\ UNCHANGED <<power, outputOn, pc, frame, results, history, settings, idx,
                 ticks, statusChanged, resCode, inputs, sleepSecs,
                 loopHistory>>

Report ==
  /\ lpc = "report" /\ lpc' = "rest"
  /\ sent' \in {ReportMessages, <<>>}    \* connected or not
  /\ power' = {} /\ outputOn' = TRUE
  /\ NetworkSession
  /\ UNCHANGED <<pc, frame, results, history, settings, idx, ticks,
                 statusChanged, resCode, inputs, sleepSecs, loopHistory>>

\* Mutant: the seconds of the round are left out.
SleepPeriodLong ==
  /\ lpc = "rest" /\ lpc' = "sleep"
  /\ sleepSecs' = SleepPeriod
  /\ UNCHANGED <<checkVars, settings, idx, ticks, statusChanged, resCode,
                 inputs, sent, loopHistory, roundTime>>

\* The rest of the period, computed in an uint16_t.
Sleep ==
  /\ lpc = "rest" /\ lpc' = "sleep"
  /\ sleepSecs' = (SleepPeriod - secondsPassed) % WordMod
  /\ UNCHANGED <<checkVars, settings, idx, ticks, statusChanged, resCode,
                 inputs, sent, loopHistory, roundTime>>

----------------------------------------------------------------------------
\* setup(): the Ethernet module is set up and powered down again.
Init ==
  /\ CheckInit
  /\ lpc = "sleep" /\ settings = DefaultSettings /\ idx = 0
  /\ ticks = [i \in Plant |-> ByteMod - 1]
  /\ statusChanged = FALSE /\ resCode = {} /\ inputs = {} /\ sent = <<>>
  /\ sleepSecs = 0
  /\ checked = {} /\ emptySeen = {} /\ failedPlant = -1
  /\ firstMoist = [i \in Plant |-> Undefined]
  /\ firstWater = [w \in Sensor |-> Undefined]
  /\ roundTime = 0

Next ==
  \/ WakeUp \/ FetchSettings \/ BeginRound \/ HoldRound
  \/ SkipPlant \/ CheckPlant \/ StepInCheck \/ ReturnFromCheck
  \/ EndPlants \/ Report \/ Sleep

\* One processor runs one program: it never stops taking its next step.
Spec == Init /\ [][Next]_vars /\ WF_vars(Next)

----------------------------------------------------------------------------
LoopTypeOK ==
  /\ TypeOK
  /\ lpc \in {"sleep", "fetch", "begin", "plants", "report", "rest"}
  /\ settings \in SettingsSet \cup {DefaultSettings}
  /\ idx \in 0 .. MaxPlants
  /\ ticks \in [Plant -> Byte]
  /\ statusChanged \in BOOLEAN
  /\ resCode \subseteq Sensor \X {"empty", "warn"}
  /\ inputs \subseteq AllSensors
  /\ sent \in Seq([type : {"status", "error", "warn", "failure"}, label : Nat])
  /\ sleepSecs \in Word
  /\ checked \subseteq Plant /\ emptySeen \subseteq Sensor
  /\ failedPlant \in Plant \cup {-1}
  /\ firstMoist \in [Plant -> LevelOrUndef]
  /\ firstWater \in [Sensor -> LevelOrUndef]
  /\ roundTime \in Nat

(***************************************************************************)
(* The latch: from the moment the failure flag is set, by the detector or  *)
(* by the server, no plant is irrigated (main.cpp:382, 397).               *)
(***************************************************************************)
NoIrrigationWhileFailed ==
  hardwareFailure => ~InCheck /\ Driven \cap Pumps = {}

(***************************************************************************)
(* On every path through a round nothing is powered while the board        *)
(* sleeps, neither pumps and sensors nor the Ethernet module.              *)
(***************************************************************************)
NothingPoweredAsleep == lpc = "sleep" => Driven = {} /\ inputs = {}

(***************************************************************************)
(* A measured pin is an input whose sensor is powered: the pins freed for  *)
(* the new settings (main.cpp:248) never belong to a plant of the round.   *)
(***************************************************************************)
SensorsReadable ==
  pc \in {"soil", "water"} =>
    SensorPower(plant, conf) \subseteq inputs \cap Driven

(***************************************************************************)
(* The reported status is that of this round: the "before" levels are the  *)
(* first readings taken, even of a sensor two plants share, and only a     *)
(* plant that was checked has moisture after it.  Bursts without a cycle   *)
(* are the exception: they keep no first reading, so that both levels of   *)
(* the plant are the last one.                                             *)
(***************************************************************************)
StatusFaithful ==
  lpc = "report" =>
    /\ \A i \in Plant :
         status.beforeMoist[i] = IF BurstCycles(settings.conf[i]) > 0
                                   THEN firstMoist[i] ELSE status.afterMoist[i]
    /\ status.beforeWater = firstWater
    /\ \A i \in Plant : status.afterMoist[i] # Undefined => i \in checked

Sent(t, n) == \E k \in DOMAIN sent : sent[k] = Msg(t, n)

\* A report tells of every reservoir found empty, even if another plant on
\* the same reservoir fared better.
EmptyReported ==
  sent # <<>> => \A w \in emptySeen : Sent("error", w + 1)

\* It tells of a failure raised in this round, and names the plant whose
\* irrigation timed out (main.cpp:439).
FailureReported ==
  sent # <<>> =>
    \A n \in 0 .. MaxPlants + 1 :
      Sent("failure", n) <=> failedPlant # -1 /\ n = failedPlant + 1

(***************************************************************************)
(* A report that gets through tells of all that went wrong in its round:   *)
(* the empty reservoirs, shared ones included, and the failed plant.       *)
(***************************************************************************)
ProblemsReported == EmptyReported /\ FailureReported

(***************************************************************************)
(* The charge (main.cpp:145, "also add the measurement delays to the       *)
(* seconds passed!").  The counters keep their widths, and short of an     *)
(* overflow the charge is near the time the round has taken since the      *)
(* board woke up: no measurement is charged that was not made, so that a   *)
(* charged second stands for at least the four pauses of one; and all is   *)
(* charged but two measurements and the power-on delay per plant and the   *)
(* two network sessions.                                                   *)
(***************************************************************************)
Uncharged ==
  (2 * MeasurementDuration + PowerOnDelay) * Cardinality(checked)
    + 2 * LongestSession

RoundCharged ==
  /\ LoopTypeOK
  /\ ~InCheck /\ lpc \notin {"sleep", "fetch"}
       /\ roundTime <= MeasurementPauses * IntMax =>
       /\ MeasurementPauses * secondsPassed <= roundTime
       /\ roundTime <= Second * secondsPassed + Uncharged

(***************************************************************************)
(* The period (main.cpp:453): after a round that fits into it, the board   *)
(* wakes up early by no more than the 200 ms each charged second may be    *)
(* too long, and late by no more than the time that is not charged.        *)
(***************************************************************************)
PeriodKept ==
  [][lpc = "rest" /\ lpc' = "sleep"
       /\ roundTime <= MeasurementPauses * IntMax
       /\ roundTime <= MeasurementPauses * SleepPeriod =>
       roundTime + Second * sleepSecs' \in
         Second * SleepPeriod - (Second - MeasurementPauses) * secondsPassed
           .. Second * SleepPeriod + Uncharged]_vars

(***************************************************************************)
(* Time accounting: the drift of the period, from the charge to the sleep. *)
(***************************************************************************)
TimeAccounting == []RoundCharged /\ PeriodKept

(***************************************************************************)
(* A plant that stays active, unskipped and untroubled by a failure is     *)
(* checked again and again, whatever its tick threshold.                   *)
(***************************************************************************)
InRotation(i) ==
  ~hardwareFailure /\ i < settings.numPlants /\ i \notin settings.skip

EveryPlantServed ==
  \A i \in Plant : <>[]InRotation(i) => []<>(i \in checked)

(***************************************************************************)
(* Every round of the plant loop brings every plant in rotation forward:   *)
(* it has been checked, or it was not due and its wait is one round        *)
(* shorter, as a counter below its threshold does not wrap.                *)
(***************************************************************************)
DueChecked ==
  [][lpc = "plants" /\ lpc' \in {"report", "rest"} =>
       \A i \in Plant : InRotation(i) =>
         \/ i \in checked
         \/ /\ ticks[i] < settings.ticksBetween[i]
            /\ ticks'[i] = ticks[i] + 1]_vars

----------------------------------------------------------------------------
(***************************************************************************)
(* Not so in the code: the failure branch means to "prevent overflows!" of *)
(* the tick counters (main.cpp:448), but the maximum of t and t + 1 is     *)
(* taken in an int and stored in an uint8_t, so 255 becomes 0.             *)
(***************************************************************************)
TicksSaturate ==
  [][HoldRound => \A i \in Plant : ticks'[i] >= ticks[i]]_vars

(***************************************************************************)
(* Not so in the code: bit 0x02 of checkMoisture() is there "to send an    *)
(* error that the water is empty!" (main.cpp:388), but it is also set when *)
(* the water was never measured because the soil was moist enough.         *)
(***************************************************************************)
ErrorMeansEmpty ==
  \A w \in Sensor : Sent("error", w + 1) => w \in emptySeen

(***************************************************************************)
(* Not so in the code: the time between checks is SLEEP_PERIOD_MIN         *)
(* (config.hpp:56).  A round that takes longer than the period makes the   *)
(* difference wrap, and the board sleeps for far longer than the period.   *)
(* PeriodKept is what the code keeps of it.                                *)
(***************************************************************************)
SleepWithinPeriod == sleepSecs <= SleepPeriod
=============================================================================
