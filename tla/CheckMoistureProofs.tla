------------------------ MODULE CheckMoistureProofs ------------------------
(***************************************************************************)
(* Theorems about one call of checkMoisture(), for every value of the      *)
(* constants.  Type correctness is inductive by itself.                    *)
(***************************************************************************)
EXTENDS CheckMoisture, TLAPS

----------------------------------------------------------------------------
(***************************************************************************)
(* Arithmetic and data.                                                    *)
(***************************************************************************)
LEMMA ModRange ==
  ASSUME NEW a \in Int, NEW m \in Nat \ {0}
  PROVE  a % m \in 0 .. m - 1
OBVIOUS

LEMMA WordRange == \A a \in Int : a % WordMod \in Word
BY ModRange, CheckAssumption DEF Word

LEMMA ConfigsAreConfig == Configs \cup {NoConf} \subseteq Config
BY CheckAssumption DEF Config, NoConf, Byte, Sensor

LEMMA BurstCyclesByte == \A c \in Config : BurstCycles(c) \in Byte
<1> TAKE c \in Config
<1>1. c.burstDuration \in Nat
  BY CheckAssumption DEF Config, Byte
<1>2. (c.burstDuration * 1000 + MeasurementDuration - 1)
          \div MeasurementDuration \in Int
  BY <1>1 DEF MeasurementDuration
<1> QED
  BY <1>2, ModRange, CheckAssumption DEF BurstCycles, Byte

LEMMA MeasurementSecsWord ==
  ASSUME NEW b \in Nat, NEW n \in Nat, NEW k \in Nat
  PROVE  MeasurementSecs(b, n, k) \subseteq Word
<1> DEFINE periods == b * (n + 1) + k
<1>1. periods \in Nat
  OBVIOUS
<1>2. (periods * MeasurementDuration) \div 1000 \in Int
  BY <1>1 DEF MeasurementDuration
<1> HIDE DEF periods
<1>3. ((periods * MeasurementDuration) \div 1000) % WordMod \in Word
  BY <1>2, ModRange, CheckAssumption DEF Word
<1> QED
  BY <1>3 DEF MeasurementSecs, periods

----------------------------------------------------------------------------
(***************************************************************************)
(* Type correctness.                                                       *)
(***************************************************************************)
LEMMA PowerType ==
  ASSUME NEW i \in Plant, NEW c \in Config
  PROVE  /\ SensorPower(i, c) \subseteq Outputs
         /\ PumpPower(i) \in Outputs
BY DEF SensorPower, MoistPower, WaterPower, PumpPower, Outputs, Config

LEMMA InitCheckType ==
  ASSUME NEW st \in StatusType, NEW i \in Plant, NEW w \in Sensor,
         NEW m \in LevelOrUndef, NEW x \in LevelOrUndef
  PROVE  InitCheck(st, i, w, m, x) \in StatusType
BY DEF InitCheck, StatusType

LEMMA AfterLevelsType ==
  ASSUME TypeOK, conf.sensor \in Sensor, NEW st \in StatusType
  PROVE  AfterLevels(st) \in StatusType
BY DEF AfterLevels, StatusType, TypeOK

LEMMA UndefStatusType == UndefStatus \in StatusType
BY DEF UndefStatus, StatusType, LevelOrUndef

LEMMA MeasureTimesNat ==
  /\ MeasureTimes \subseteq Nat
  /\ \A t \in MeasureTimes : t \in 800 .. 1000
BY CheckAssumption DEF MeasurementPauses, MeasurementDuration

LEMMA TypeInit == CheckInit => TypeOK
<1> SUFFICES ASSUME CheckInit PROVE TypeOK
  OBVIOUS
<1>1. 0 \in Plant /\ 0 \in Word
  BY CheckAssumption DEF Plant, Word
<1>2. status \in StatusType
  BY UndefStatusType DEF CheckInit
<1> QED
  BY <1>1, <1>2 DEF CheckInit, EmptyFrame, TypeOK, LevelOrUndef

LEMMA TypeStep == TypeOK /\ [CheckNext]_checkVars => TypeOK'
<1> SUFFICES ASSUME TypeOK, [CheckNext]_checkVars PROVE TypeOK'
  OBVIOUS
<1> USE CheckAssumption
<1>a. conf \in Config /\ BurstCycles(conf) \in Nat /\ conf.burstDelay \in Nat
  BY ConfigsAreConfig, BurstCyclesByte DEF TypeOK, Config, Byte
<1>b. 0 \in Plant /\ 0 \in Word /\ Level \subseteq LevelOrUndef
  BY DEF Plant, Word, LevelOrUndef
<1>c. status \in StatusType /\ plant \in Plant /\ conf.sensor \in Sensor
  BY <1>a DEF TypeOK, Config
<1>d. secondsPassed \in Nat
  BY DEF TypeOK, Word
<1>e. /\ pumped \in Nat /\ elapsed \in Nat /\ burstCycle \in Nat
      /\ sawEmpty \in BOOLEAN
  BY DEF TypeOK
<1>1. CASE NewRound
  <2>1. status' \in StatusType
    BY <1>1, UndefStatusType DEF NewRound
  <2> QED
    BY <1>1, <1>b, <2>1 DEF NewRound, TypeOK, frame, history, LevelOrUndef
<1>2. ASSUME NEW i \in Plant, NEW c \in Configs, Call(i, c) PROVE TypeOK'
  <2>1. power' \subseteq Outputs
    BY <1>2, PowerType, ConfigsAreConfig DEF Call
  <2> QED
    BY <1>2, <2>1
    DEF Call, TypeOK, results, LevelOrUndef, PowerOnDelay
<1>3. ASSUME NEW m \in Level, MeasureSoil(m) PROVE TypeOK'
  BY <1>3, <1>b, MeasureTimesNat
  DEF MeasureSoil, Measuring, TypeOK, register, results, LevelOrUndef
<1>4. ASSUME NEW m \in Level, MeasureWater(m) PROVE TypeOK'
  <2>1. power' \subseteq Outputs
    BY <1>4, <1>a, PowerType
    DEF MeasureWater, WaterEmpty, WaterLeft, TypeOK
  <2>2. status' \in StatusType
    BY <1>4, <1>b, <1>c, InitCheckType
    DEF MeasureWater, WaterEmpty, WaterLeft, TypeOK
  <2>3. /\ pc' \in {"stop", "water", "burstEnd"}
        /\ burstCycle' \in Nat /\ hasWaterLeft' \in BOOLEAN
        /\ sawEmpty' \in BOOLEAN
    <3>1. CASE WaterEmpty(m)
      BY <3>1, <1>e DEF WaterEmpty
    <3>2. CASE WaterLeft(m)
      BY <3>2, <1>e DEF WaterLeft
    <3> QED
      BY <1>4, <3>1, <3>2 DEF MeasureWater
  <2>4. pumped' \in Nat /\ elapsed' \in Nat
    BY <1>4, <1>e, MeasureTimesNat DEF MeasureWater, Measuring
  <2>5. water' \in LevelOrUndef
    BY <1>4, <1>b DEF MeasureWater
  <2> QED
    BY <1>4, <2>1, <2>2, <2>3, <2>4, <2>5 DEF MeasureWater, TypeOK
<1>5. CASE EndBurst
  <2>1. power' \subseteq Outputs
    BY <1>5, <1>a, <1>c, PowerType DEF EndBurst, TypeOK
  <2>2. secondsPassed' \in Word
    <3>1. secondsPassed + conf.burstDelay \in Int
      BY <1>a, <1>d
    <3>2. (secondsPassed + conf.burstDelay) % WordMod \in Word
      BY <3>1, WordRange
    <3> QED
      BY <1>5, <3>2 DEF EndBurst
  <2>3. pumped' \in Nat /\ elapsed' \in Nat
    BY <1>5, <1>a, <1>e DEF EndBurst, Second
  <2> QED
    BY <1>5, <2>1, <2>2, <2>3 DEF EndBurst, TypeOK
<1>6. CASE StopIrrigation
  <2>1. secondsPassed' \in Word
    <3>1. PICK s \in MeasurementSecs(burst, BurstCycles(conf), burstCycle) :
            secondsPassed' = (secondsPassed + s) % WordMod
      BY <1>6 DEF StopIrrigation
    <3>2. s \in Nat
      BY <1>a, MeasurementSecsWord DEF TypeOK, Word
    <3> QED
      BY <1>d, <3>1, <3>2, ModRange DEF Word
  <2>2. status' \in StatusType
    <3>1. InitCheck(status, plant, conf.sensor, moist, water) \in StatusType
      BY <1>c, InitCheckType DEF TypeOK
    <3> QED
      BY <1>6, <1>c, <3>1, AfterLevelsType DEF StopIrrigation
  <2>3. retCode' \subseteq Sensor \X {"empty", "warn"}
    BY <1>6, <1>c DEF StopIrrigation, RetCode
  <2>4. hardwareFailure' \in BOOLEAN
    BY <1>6 DEF StopIrrigation, TypeOK
  <2> QED
    BY <1>6, <1>b, <2>1, <2>2, <2>3, <2>4
    DEF StopIrrigation, DropFrame, TypeOK, LevelOrUndef
<1>7. CASE UNCHANGED checkVars
  BY <1>7
  DEF checkVars, frame, register, results, history, TypeOK, LevelOrUndef
<1> QED
  BY <1>1, <1>2, <1>3, <1>4, <1>5, <1>6, <1>7 DEF CheckNext, CheckStep

(***************************************************************************)
(* Every variable of the call keeps its type, whatever the sensors read    *)
(* and whatever configurations the settings hold.                          *)
(***************************************************************************)
THEOREM TypeCorrect == CheckSpec => []TypeOK
BY TypeInit, TypeStep, PTL DEF CheckSpec

----------------------------------------------------------------------------
(***************************************************************************)
(* The inductive invariant: what is true at each point of the call.        *)
(***************************************************************************)
InLoop == pc \in {"soil", "water", "burstEnd"}

\* The loop counters, and nothing left over between calls.
FrameInv ==
  /\ pc = "idle" => EmptyFrame /\ power \cap Pumps = {}
  /\ InLoop => burst < conf.maxBursts
  /\ pc = "soil" => burstCycle = 0
  /\ pc = "water" => burstCycle < BurstCycles(conf)
  /\ pc = "burstEnd" => burstCycle = BurstCycles(conf)

\* How long the pump can have run by now: PumpPeriods for every burst
\* behind us; without a delay, one soil measurement of this burst.
BudgetSoFar ==
  burst * PumpPeriods(conf)
    + (PumpPeriods(conf) - BurstCycles(conf)) + burstCycle

BudgetInv ==
  /\ pc = "soil" =>
       /\ pumped <= burst * PumpPeriods(conf)
       /\ conf.burstDelay > 0 => ~PumpOn
  /\ pc \in {"water", "burstEnd"} => pumped <= BudgetSoFar
  /\ pc = "stop" => WithinBudget

\* What the call has read so far in order to be where it is.
EvidenceInv ==
  /\ InLoop => ~sawEmpty
  /\ pc \in {"water", "burstEnd"} => moist < conf.target
  /\ InLoop /\ PumpPower(plant) \in power =>
       moist < conf.target /\ water > conf.empty /\ water # Undefined

\* What the failure detector will find.
DetectorInv ==
  /\ pc = "soil" => /\ dryReads = burst
                    /\ (hasWaterLeft <=> burst > 0 /\ BurstCycles(conf) > 0)
  /\ pc \in {"water", "burstEnd"} => dryReads = burst + 1 /\ soilIsTooDry
  /\ pc = "burstEnd" => (hasWaterLeft <=> BurstCycles(conf) > 0)
  /\ pc = "stop" => (soilIsTooDry /\ hasWaterLeft <=> Failed)

CallInv == FrameInv /\ BudgetInv /\ EvidenceInv /\ DetectorInv

----------------------------------------------------------------------------
(***************************************************************************)
(* Facts about the configuration of the call and about products.           *)
(***************************************************************************)
LEMMA ConfFacts ==
  ASSUME NEW c \in Config
  PROVE  /\ c.maxBursts \in Nat /\ c.burstDelay \in Nat
         /\ BurstCycles(c) \in Nat /\ PumpPeriods(c) \in Nat
         /\ PumpPeriods(c) - BurstCycles(c) \in {0, 1}
         /\ c.burstDelay > 0 => PumpPeriods(c) = BurstCycles(c)
<1>1. c.maxBursts \in Nat /\ c.burstDelay \in Nat
  BY CheckAssumption DEF Config, Byte
<1>2. BurstCycles(c) \in Nat
  BY BurstCyclesByte DEF Byte
<1> QED
  BY <1>1, <1>2 DEF PumpPeriods

LEMMA Products ==
  ASSUME NEW b \in Nat, NEW B \in Nat, NEW k \in Nat, b < B
  PROVE  /\ b * k \in Nat /\ (b + 1) * k = b * k + k
         /\ (b + 1) * k <= B * k
<1>1. (b + 1) * k <= B * k
  <2>1. PICK d \in Nat : B = b + 1 + d
    <3>1. B - b - 1 \in Nat /\ B = b + 1 + (B - b - 1)
      OBVIOUS
    <3> QED
      BY <3>1
  <2>2. B * k = (b + 1) * k + d * k
    BY <2>1
  <2>3. d * k \in Nat /\ (b + 1) * k \in Nat
    BY <2>1
  <2> QED
    BY <2>2, <2>3
<1> QED
  BY <1>1

LEMMA PumpIsNoSensor ==
  ASSUME NEW i, NEW j, NEW c
  PROVE  PumpPower(j) \notin SensorPower(i, c)
BY DEF PumpPower, SensorPower, MoistPower, WaterPower

LEMMA LevelDefined == \A x \in Level : x # Undefined /\ x \in Nat
BY CheckAssumption DEF Level

----------------------------------------------------------------------------
(***************************************************************************)
(* The invariant holds initially and is kept by every step of the call.    *)
(***************************************************************************)
LEMMA InvInit == CheckInit => CallInv
BY DEF CheckInit, EmptyFrame, CallInv, FrameInv, BudgetInv, EvidenceInv,
       DetectorInv, InLoop

LEMMA InvCall ==
  ASSUME TypeOK, CallInv, NEW i \in Plant, NEW c \in Configs, Call(i, c)
  PROVE  CallInv'
<1>1. /\ EmptyFrame
      /\ UNCHANGED <<burst, burstCycle, soilIsTooDry, hasWaterLeft, pumped,
                     dryReads, sawEmpty>>
      /\ conf' = c /\ power' = SensorPower(i, c) /\ plant' = i
      /\ pc' = IF c.maxBursts > 0 THEN "soil" ELSE "stop"
  BY DEF CallInv, FrameInv, Call
<1>2. /\ c \in Config /\ c.maxBursts \in Nat
      /\ PumpPeriods(c) \in Nat /\ PumpPeriods(conf)' = PumpPeriods(c)
      /\ BurstCycles(conf)' = BurstCycles(c)
  BY <1>1, ConfigsAreConfig, ConfFacts DEF PumpPeriods, BurstCycles
<1>3. PumpPower(plant)' \notin power'
  BY <1>1, PumpIsNoSensor DEF PumpPower
<1>4. FrameInv'
  BY <1>1, <1>2 DEF FrameInv, InLoop, EmptyFrame
<1>5. BudgetInv'
  <2>1. pumped' = 0 /\ burst' = 0
    BY <1>1 DEF EmptyFrame
  <2>2. ~PumpOn'
    BY <1>3 DEF PumpOn, Driven
  <2>3. 0 <= c.maxBursts * PumpPeriods(c) /\ 0 * PumpPeriods(c) = 0
    BY <1>2
  <2> QED
    BY <1>1, <1>2, <2>1, <2>2, <2>3 DEF BudgetInv, WithinBudget
<1>6. EvidenceInv'
  BY <1>1, <1>3 DEF EvidenceInv, InLoop, EmptyFrame
<1>7. DetectorInv'
  BY <1>1, <1>2 DEF DetectorInv, Failed, EmptyFrame
<1> QED
  BY <1>4, <1>5, <1>6, <1>7 DEF CallInv

LEMMA InvMeasureSoil ==
  ASSUME TypeOK, CallInv, NEW m \in Level, MeasureSoil(m)
  PROVE  CallInv'
<1> DEFINE N == BurstCycles(conf)
           P == PumpPeriods(conf)
<1>1. /\ pc = "soil" /\ burstCycle = 0 /\ burst < conf.maxBursts
      /\ pumped <= burst * P /\ (conf.burstDelay > 0 => ~PumpOn)
      /\ ~sawEmpty /\ dryReads = burst
      /\ (hasWaterLeft <=> burst > 0 /\ N > 0)
  BY DEF MeasureSoil, CallInv, FrameInv, BudgetInv, EvidenceInv, DetectorInv,
         InLoop
<1>2. /\ burst \in Nat /\ pumped \in Nat /\ dryReads \in Nat
      /\ conf \in Config /\ m \in Nat
  BY ConfigsAreConfig, LevelDefined DEF TypeOK
<1>3. /\ conf.maxBursts \in Nat /\ conf.burstDelay \in Nat
      /\ N \in Nat /\ P \in Nat /\ P - N \in {0, 1}
      /\ conf.burstDelay > 0 => P = N
      /\ conf.target \in Nat
  BY <1>2, ConfFacts, CheckAssumption DEF Config, Byte
<1>4. /\ burst * P \in Nat /\ (burst + 1) * P = burst * P + P
      /\ (burst + 1) * P <= conf.maxBursts * P
  BY <1>1, <1>2, <1>3, Products
<1>5. /\ UNCHANGED <<plant, conf, burst, burstCycle, hasWaterLeft, water,
                     power, outputOn, sawEmpty>>
      /\ moist' = m /\ soilIsTooDry' = (m < conf.target)
      /\ pumped' = pumped + (IF PumpOn THEN 1 ELSE 0)
      /\ dryReads' = dryReads + (IF m < conf.target THEN 1 ELSE 0)
      /\ pc' = IF m >= conf.target THEN "stop"
               ELSE IF burstCycle < N THEN "water" ELSE "burstEnd"
  BY DEF MeasureSoil, Measuring, register
<1>6. N' = N /\ P' = P
  BY <1>5 DEF BurstCycles, PumpPeriods
<1>7. pumped' <= burst * P + (P - N)
  <2>1. CASE conf.burstDelay > 0
    BY <2>1, <1>1, <1>2, <1>3, <1>4, <1>5
  <2>2. CASE ~(conf.burstDelay > 0)
    <3>1. P - N = 1
      BY <2>2, <1>3 DEF PumpPeriods
    <3> QED
      BY <3>1, <1>1, <1>2, <1>4, <1>5
  <2> QED
    BY <2>1, <2>2
<1> HIDE DEF N, P
<1>8. FrameInv'
  BY <1>1, <1>2, <1>3, <1>5, <1>6 DEF FrameInv, InLoop, N
<1>9. BudgetInv'
  BY <1>1, <1>2, <1>3, <1>4, <1>5, <1>6, <1>7
  DEF BudgetInv, BudgetSoFar, WithinBudget, P, N
<1>10. EvidenceInv'
  BY <1>1, <1>2, <1>3, <1>5 DEF EvidenceInv, InLoop, PumpPower, CallInv
<1>11. DetectorInv'
  <2>1. CASE m >= conf.target
    <3>a. ~(m < conf.target)
      BY <2>1, <1>2, <1>3
    <3>b. ~soilIsTooDry'
      BY <3>a, <1>5, Zenon
    <3>1. pc' = "stop" /\ ~soilIsTooDry' /\ dryReads' < conf.maxBursts
      BY <2>1, <3>a, <3>b, <1>1, <1>2, <1>3, <1>5
    <3> QED
      BY <3>1, <1>2, <1>3, <1>5 DEF DetectorInv, Failed
  <2>2. CASE ~(m >= conf.target)
    <3>a. m < conf.target
      BY <2>2, <1>2, <1>3
    <3>b. soilIsTooDry'
      BY <3>a, <1>5, Zenon
    <3>1. /\ soilIsTooDry' /\ dryReads' = burst + 1
          /\ pc' = IF 0 < N THEN "water" ELSE "burstEnd"
          /\ (hasWaterLeft' <=> burst > 0 /\ N > 0)
      BY <2>2, <3>a, <3>b, <1>1, <1>2, <1>3, <1>5
    <3> QED
      BY <3>1, <1>2, <1>3, <1>5, <1>6 DEF DetectorInv, N
  <2> QED
    BY <2>1, <2>2
<1> QED
  BY <1>8, <1>9, <1>10, <1>11 DEF CallInv

LEMMA InvMeasureWater ==
  ASSUME TypeOK, CallInv, NEW x \in Level, MeasureWater(x)
  PROVE  CallInv'
<1> DEFINE N == BurstCycles(conf)
           P == PumpPeriods(conf)
<1>1. /\ pc = "water" /\ burstCycle < N /\ burst < conf.maxBursts
      /\ pumped <= burst * P + (P - N) + burstCycle
      /\ ~sawEmpty /\ moist < conf.target
      /\ PumpPower(plant) \in power => water > conf.empty /\ water # Undefined
      /\ dryReads = burst + 1 /\ soilIsTooDry
  BY DEF MeasureWater, CallInv, FrameInv, BudgetInv, BudgetSoFar, EvidenceInv,
         DetectorInv, InLoop
<1>2. /\ burst \in Nat /\ burstCycle \in Nat /\ pumped \in Nat
      /\ conf \in Config /\ x \in Nat /\ x # Undefined
  BY ConfigsAreConfig, LevelDefined DEF TypeOK
<1>3. /\ conf.maxBursts \in Nat /\ conf.burstDelay \in Nat
      /\ N \in Nat /\ P \in Nat /\ P - N \in {0, 1}
      /\ conf.empty \in Nat
  BY <1>2, ConfFacts, CheckAssumption DEF Config, Byte
<1>4. /\ burst * P \in Nat /\ (burst + 1) * P = burst * P + P
      /\ (burst + 1) * P <= conf.maxBursts * P
  BY <1>1, <1>2, <1>3, Products
<1>5. /\ UNCHANGED <<plant, conf, burst, soilIsTooDry, moist, dryReads>>
      /\ water' = x
      /\ pumped' = pumped + (IF PumpOn THEN 1 ELSE 0)
  BY DEF MeasureWater, Measuring
<1>6. N' = N /\ P' = P /\ PumpPower(plant)' = PumpPower(plant)
  BY <1>5 DEF BurstCycles, PumpPeriods, PumpPower
<1>7. pumped' <= burst * P + (P - N) + burstCycle + 1
  BY <1>1, <1>2, <1>3, <1>4, <1>5
<1>8. CASE WaterEmpty(x)
  <2>1. pc' = "stop" /\ sawEmpty' /\ ~hasWaterLeft'
    BY <1>8 DEF WaterEmpty
  <2>2. pumped' <= conf.maxBursts * P
    <3> HIDE DEF N, P
    <3>1. conf.maxBursts * P \in Nat
      BY <1>3
    <3>2. pumped' \in Nat
      BY <1>2, <1>5
    <3>3. burst * P + (P - N) + burstCycle + 1 <= (burst + 1) * P
      BY <1>1, <1>2, <1>3, <1>4
    <3> QED
      BY <1>2, <1>3, <1>4, <1>7, <3>1, <3>2, <3>3
  <2> HIDE DEF N, P
  <2>3. FrameInv' /\ EvidenceInv'
    BY <2>1 DEF FrameInv, EvidenceInv, InLoop
  <2>4. BudgetInv'
    BY <2>1, <2>2, <1>5, <1>6 DEF BudgetInv, WithinBudget, P
  <2>5. DetectorInv'
    BY <2>1 DEF DetectorInv, Failed
  <2> QED
    BY <2>3, <2>4, <2>5 DEF CallInv
<1>9. CASE WaterLeft(x)
  <2>1. /\ x > conf.empty /\ hasWaterLeft' /\ burstCycle' = burstCycle + 1
        /\ pc' = IF burstCycle + 1 < N THEN "water" ELSE "burstEnd"
        /\ sawEmpty' = sawEmpty
    BY <1>9 DEF WaterLeft
  <2> HIDE DEF N, P
  <2>2. pc' = "burstEnd" => burstCycle' = N /\ N > 0
    BY <2>1, <1>1, <1>2, <1>3
  <2>3. FrameInv'
    BY <2>1, <2>2, <1>1, <1>5, <1>6 DEF FrameInv, InLoop, N
  <2>4. BudgetInv'
    <3>1. pumped' <= burst * P + (P - N) + burstCycle'
      BY <2>1, <1>2, <1>3, <1>4, <1>7
    <3> QED
      BY <2>1, <3>1, <1>5, <1>6 DEF BudgetInv, BudgetSoFar, P, N
  <2>5. EvidenceInv'
    BY <2>1, <1>1, <1>2, <1>5 DEF EvidenceInv, InLoop
  <2>6. DetectorInv'
    BY <2>1, <2>2, <1>1, <1>5, <1>6 DEF DetectorInv, N
  <2> QED
    BY <2>3, <2>4, <2>5, <2>6 DEF CallInv
<1> QED
  BY <1>8, <1>9 DEF MeasureWater

LEMMA InvEndBurst ==
  ASSUME TypeOK, CallInv, EndBurst
  PROVE  CallInv'
<1> DEFINE N == BurstCycles(conf)
           P == PumpPeriods(conf)
<1>1. /\ pc = "burstEnd" /\ burstCycle = N /\ burst < conf.maxBursts
      /\ pumped <= burst * P + (P - N) + burstCycle
      /\ ~sawEmpty /\ moist < conf.target
      /\ PumpPower(plant) \in power => water > conf.empty /\ water # Undefined
      /\ dryReads = burst + 1 /\ soilIsTooDry
      /\ (hasWaterLeft <=> N > 0)
  BY DEF EndBurst, CallInv, FrameInv, BudgetInv, BudgetSoFar, EvidenceInv,
         DetectorInv, InLoop
<1>2. burst \in Nat /\ pumped \in Nat /\ conf \in Config
  BY ConfigsAreConfig DEF TypeOK
<1>3. /\ conf.maxBursts \in Nat /\ conf.burstDelay \in Nat
      /\ N \in Nat /\ P \in Nat
  BY <1>2, ConfFacts
<1>4. /\ burst * P \in Nat /\ (burst + 1) * P = burst * P + P
      /\ (burst + 1) * P <= conf.maxBursts * P
  BY <1>1, <1>2, <1>3, Products
<1>5. /\ UNCHANGED <<plant, conf, soilIsTooDry, hasWaterLeft, moist, water,
                     dryReads, sawEmpty>>
      /\ burst' = burst + 1 /\ burstCycle' = 0
      /\ power' = IF conf.burstDelay > 0 THEN SensorPower(plant, conf)
                                         ELSE power
      /\ pumped' = pumped + (IF PumpOn' THEN conf.burstDelay ELSE 0)
      /\ pc' = IF burst + 1 < conf.maxBursts THEN "soil" ELSE "stop"
  BY DEF EndBurst
<1>6. N' = N /\ P' = P
  BY <1>5 DEF BurstCycles, PumpPeriods
<1>7. conf.burstDelay > 0 => ~PumpOn'
  BY <1>5, PumpIsNoSensor DEF PumpOn, Driven, PumpPower
<1>8. pumped' = pumped
  BY <1>2, <1>3, <1>5, <1>7
<1> HIDE DEF N, P
<1>9. pumped' <= burst' * P
  BY <1>1, <1>2, <1>3, <1>4, <1>5, <1>8
<1>10. FrameInv'
  BY <1>5 DEF FrameInv, InLoop
<1>11. BudgetInv'
  <2>1. pc' = "stop" => burst' = conf.maxBursts
    BY <1>1, <1>2, <1>3, <1>5
  <2> QED
    BY <2>1, <1>5, <1>6, <1>7, <1>9 DEF BudgetInv, WithinBudget, P
<1>12. EvidenceInv'
  <2>1. PumpPower(plant)' \in power' => PumpPower(plant) \in power
    BY <1>5, PumpIsNoSensor DEF PumpPower
  <2> QED
    BY <2>1, <1>1, <1>5 DEF EvidenceInv, InLoop
<1>13. DetectorInv'
  <2>1. CASE burst + 1 < conf.maxBursts
    BY <2>1, <1>1, <1>2, <1>5, <1>6 DEF DetectorInv, N
  <2>2. CASE ~(burst + 1 < conf.maxBursts)
    <3>1. conf.maxBursts = burst + 1 /\ conf.maxBursts > 0
      BY <2>2, <1>1, <1>2, <1>3
    <3>2. Failed' <=> N > 0
      BY <3>1, <1>1, <1>5, <1>6 DEF Failed, N
    <3> QED
      BY <2>2, <3>2, <1>1, <1>5 DEF DetectorInv
  <2> QED
    BY <2>1, <2>2
<1> QED
  BY <1>10, <1>11, <1>12, <1>13 DEF CallInv

LEMMA InvStop ==
  ASSUME StopIrrigation
  PROVE  CallInv'
<1>1. pc' = "idle" /\ power' = {} /\ EmptyFrame'
  BY DEF StopIrrigation, DropFrame, EmptyFrame
<1> QED
  BY <1>1 DEF CallInv, FrameInv, BudgetInv, EvidenceInv, DetectorInv, InLoop

LEMMA InvStep == TypeOK /\ CallInv /\ [CheckNext]_checkVars => CallInv'
<1> SUFFICES ASSUME TypeOK, CallInv, [CheckNext]_checkVars PROVE CallInv'
  OBVIOUS
<1>1. CASE NewRound
  <2>1. pc' = "idle" /\ power' = {} /\ EmptyFrame'
    BY <1>1 DEF NewRound, CallInv, FrameInv, EmptyFrame, frame, history
  <2> QED
    BY <2>1 DEF CallInv, FrameInv, BudgetInv, EvidenceInv, DetectorInv, InLoop
<1>2. CASE UNCHANGED checkVars
  BY <1>2
  DEF checkVars, frame, register, results, history, CallInv, FrameInv,
      EmptyFrame, BudgetInv, BudgetSoFar, WithinBudget, PumpPeriods, BurstCycles,
      PumpOn, Driven, PumpPower, EvidenceInv, DetectorInv, Failed, InLoop, Pumps
<1> QED
  BY <1>1, <1>2, InvCall, InvMeasureSoil, InvMeasureWater, InvEndBurst, InvStop
  DEF CheckNext, CheckStep

LEMMA InvCorrect == CheckSpec => [](TypeOK /\ CallInv)
<1>1. TypeOK /\ CallInv /\ [CheckNext]_checkVars => (TypeOK /\ CallInv)'
  BY TypeStep, InvStep
<1> QED
  BY <1>1, TypeInit, InvInit, PTL DEF CheckSpec

----------------------------------------------------------------------------
(***************************************************************************)
(* The flood bound: no call powers the pump for longer than its bursts     *)
(* allow, however the two sensors behave.                                  *)
\* What the invariant says of a state, and of the step that returns.
LEMMA BudgetHolds == TypeOK /\ CallInv => PumpBudget
<1> SUFFICES ASSUME TypeOK, CallInv PROVE WithinBudget
  BY DEF PumpBudget
<1> DEFINE N == BurstCycles(conf)
           P == PumpPeriods(conf)
<1>1. /\ conf \in Config /\ burst \in Nat /\ pumped \in Nat
      /\ pc \in {"idle", "soil", "water", "burstEnd", "stop"}
  BY ConfigsAreConfig DEF TypeOK
<1>2. /\ conf.maxBursts \in Nat /\ N \in Nat /\ P \in Nat
      /\ conf.maxBursts * P \in Nat
  BY <1>1, ConfFacts
<1>3. CASE InLoop
  <2>1. burst < conf.maxBursts
    BY <1>3 DEF CallInv, FrameInv
  <2>2. /\ burst * P \in Nat /\ (burst + 1) * P = burst * P + P
        /\ (burst + 1) * P <= conf.maxBursts * P
    BY <1>1, <1>2, <2>1, Products
  <2>3. pumped <= burst * P \/ pumped <= burst * P + (P - N) + burstCycle
    BY <1>3 DEF CallInv, BudgetInv, BudgetSoFar, InLoop
  <2>4. burstCycle \in Nat /\ burstCycle <= N
    BY <1>2, <1>3 DEF CallInv, FrameInv, InLoop, TypeOK
  <2> HIDE DEF N, P
  <2>5. pumped <= conf.maxBursts * P
    BY <1>1, <1>2, <2>2, <2>3, <2>4
  <2> QED
    BY <2>5 DEF WithinBudget, P
<1>4. CASE pc = "idle"
  <2>1. pumped = 0
    BY <1>4 DEF CallInv, FrameInv, EmptyFrame
  <2> HIDE DEF P
  <2>2. pumped <= conf.maxBursts * P
    BY <1>2, <2>1
  <2> QED
    BY <2>2 DEF WithinBudget, P
<1>5. CASE pc = "stop"
  BY <1>5 DEF CallInv, BudgetInv
<1> QED
  BY <1>1, <1>3, <1>4, <1>5 DEF InLoop

LEMMA EvidenceHolds == TypeOK /\ CallInv => PumpJustified
<1> SUFFICES ASSUME TypeOK, CallInv, PumpOn, pc # "stop"
             PROVE  /\ moist < conf.target
                    /\ water > conf.empty /\ water # Undefined
                    /\ ~sawEmpty
  BY DEF PumpJustified
<1>1. PumpPower(plant) \in power
  BY DEF PumpOn, Driven
<1>2. pc # "idle"
  BY <1>1 DEF CallInv, FrameInv, Pumps, TypeOK
<1> QED
  BY <1>1, <1>2 DEF CallInv, EvidenceInv, InLoop, TypeOK

LEMMA OffHolds == CallInv => PumpsOffBetweenCalls
BY DEF CallInv, FrameInv, PumpsOffBetweenCalls, Driven

LEMMA FlagHolds ==
  ASSUME CallInv, CheckStep
  PROVE  FlagExact
<1> SUFFICES ASSUME pc = "stop" PROVE hardwareFailure' = Failed
  BY DEF FlagExact
<1>1. StopIrrigation
  BY DEF CheckStep, MeasureSoil, MeasureWater, EndBurst
<1>2. hardwareFailure' = (soilIsTooDry /\ hasWaterLeft)
  BY <1>1 DEF StopIrrigation
<1>3. (soilIsTooDry /\ hasWaterLeft) <=> Failed
  BY DEF CallInv, DetectorInv
<1> QED
  BY <1>2, <1>3, Zenon DEF Failed

(***************************************************************************)
(* The flood bound: no call powers the pump for longer than its bursts     *)
(* allow, however the two sensors behave.                                  *)
(***************************************************************************)
THEOREM FloodBound == CheckSpec => []PumpBudget
BY BudgetHolds, InvCorrect, PTL

(***************************************************************************)
(* The pump never runs against the last reading of either sensor.          *)
(***************************************************************************)
THEOREM PumpOnEvidence == CheckSpec => []PumpJustified
BY EvidenceHolds, InvCorrect, PTL

(***************************************************************************)
(* No pump outlives the call that started it.                              *)
(***************************************************************************)
THEOREM PumpsStop == CheckSpec => []PumpsOffBetweenCalls
BY OffHolds, InvCorrect, PTL

(***************************************************************************)
(* The failure flag tells exactly the calls that used up all their bursts  *)
(* on dry soil with water in the tank.                                     *)
(***************************************************************************)
THEOREM DetectorExact == CheckSpec => FailureExact
<1>1. CallInv /\ [CheckNext]_checkVars => [FlagExact]_checkVars
  <2> SUFFICES ASSUME CallInv, CheckNext, pc = "stop" PROVE FlagExact
    BY DEF FlagExact
  <2>1. CheckStep
    BY DEF CheckNext, NewRound, Call
  <2> QED
    BY <2>1, FlagHolds
<1> QED
  BY <1>1, InvCorrect, PTL DEF CheckSpec, FailureExact

----------------------------------------------------------------------------
(***************************************************************************)
(* How many steps a call can still take: per burst one soil measurement,   *)
(* the cycles and the end of the burst, and the return after them all.     *)
(***************************************************************************)
BurstsLeft == (conf.maxBursts - burst) * (BurstCycles(conf) + 2)

StepsLeft ==
  CASE pc = "idle" -> 0
    [] pc = "stop" -> 1
    [] pc = "soil" -> BurstsLeft + 1
    [] OTHER       -> BurstsLeft - burstCycle

LEMMA BurstsLeftFacts ==
  ASSUME TypeOK, CallInv
  PROVE  /\ BurstCycles(conf) \in Nat /\ burst \in Nat /\ burstCycle \in Nat
         /\ InLoop => /\ burstCycle <= BurstCycles(conf)
                      /\ BurstsLeft \in Nat
                      /\ (conf.maxBursts - (burst + 1))
                            * (BurstCycles(conf) + 2)
                           = BurstsLeft - (BurstCycles(conf) + 2)
                      /\ BurstsLeft - (BurstCycles(conf) + 2) \in Nat
<1> DEFINE N == BurstCycles(conf)
           R == BurstsLeft
<1>1. /\ conf \in Config /\ N \in Nat /\ conf.maxBursts \in Nat
      /\ burst \in Nat /\ burstCycle \in Nat
  BY ConfigsAreConfig, ConfFacts DEF TypeOK
<1> SUFFICES ASSUME InLoop
             PROVE  /\ burstCycle <= N /\ R \in Nat
                    /\ (conf.maxBursts - (burst + 1)) * (N + 2) = R - (N + 2)
                    /\ R - (N + 2) \in Nat
  BY <1>1
<1>2. burst < conf.maxBursts /\ burstCycle <= N
  BY <1>1 DEF CallInv, FrameInv, InLoop
<1>3. PICK d \in Nat : conf.maxBursts = burst + 1 + d
  <2> DEFINE d == conf.maxBursts - burst - 1
  <2>1. d \in Nat /\ conf.maxBursts = burst + 1 + d
    BY <1>1, <1>2
  <2> HIDE DEF d
  <2> QED
    BY <2>1
<1>4. conf.maxBursts - burst = d + 1 /\ conf.maxBursts - (burst + 1) = d
  BY <1>1, <1>3
<1>5. R = (d + 1) * (N + 2)
  BY <1>4 DEF BurstsLeft
<1> HIDE DEF N, R
<1>6. (d + 1) * (N + 2) = d * (N + 2) + (N + 2) /\ d * (N + 2) \in Nat
  BY <1>1
<1> QED
  BY <1>1, <1>2, <1>4, <1>5, <1>6

LEMMA StepsLeftType ==
  ASSUME TypeOK, CallInv
  PROVE  StepsLeft \in Nat /\ (StepsLeft = 0 <=> pc = "idle")
<1> DEFINE N == BurstCycles(conf)
           R == BurstsLeft
<1>1. CASE InLoop
  <2>1. /\ R \in Nat /\ R - (N + 2) \in Nat /\ burstCycle <= N
        /\ N \in Nat /\ burstCycle \in Nat
    BY <1>1, BurstsLeftFacts
  <2>2. StepsLeft \in {R + 1, R - burstCycle} /\ pc # "idle"
    BY <1>1 DEF StepsLeft, InLoop
  <2> HIDE DEF N, R
  <2> QED
    BY <2>1, <2>2
<1>2. CASE ~InLoop
  BY <1>2 DEF TypeOK, InLoop, StepsLeft
<1> QED
  BY <1>1, <1>2

LEMMA StepsLeftStep ==
  ASSUME TypeOK, CallInv, CheckStep
  PROVE  StepsLeft' < StepsLeft
<1> DEFINE N == BurstCycles(conf)
           R == BurstsLeft
<1>1. N \in Nat /\ burst \in Nat /\ burstCycle \in Nat
  BY BurstsLeftFacts
<1>2. InLoop => /\ R \in Nat /\ burstCycle <= N
                /\ (conf.maxBursts - (burst + 1)) * (N + 2) = R - (N + 2)
                /\ R - (N + 2) \in Nat
  BY BurstsLeftFacts
<1>3. UNCHANGED conf => BurstCycles(conf)' = N
  BY DEF BurstCycles
<1>4. ASSUME NEW m \in Level, MeasureSoil(m)
      PROVE  StepsLeft' < StepsLeft
  <2>1. /\ pc = "soil" /\ burstCycle = 0
        /\ UNCHANGED <<conf, burst, burstCycle>>
        /\ pc' \in {"stop", "water", "burstEnd"}
    BY <1>4 DEF MeasureSoil, CallInv, FrameInv
  <2>2. R' = R
    BY <1>3, <2>1 DEF BurstsLeft
  <2>3. StepsLeft = R + 1 /\ StepsLeft' \in {1, R}
    BY <1>1, <1>2, <2>1, <2>2 DEF StepsLeft, InLoop
  <2> HIDE DEF N, R
  <2> QED
    BY <1>1, <1>2, <2>1, <2>3 DEF InLoop
<1>5. ASSUME NEW m \in Level, MeasureWater(m)
      PROVE  StepsLeft' < StepsLeft
  <2>1. /\ pc = "water" /\ burstCycle < N /\ UNCHANGED <<conf, burst>>
        /\ \/ pc' = "stop"
           \/ pc' \in {"water", "burstEnd"} /\ burstCycle' = burstCycle + 1
    BY <1>5 DEF MeasureWater, WaterEmpty, WaterLeft, CallInv, FrameInv
  <2>2. R' = R
    BY <1>3, <2>1 DEF BurstsLeft
  <2>3. /\ StepsLeft = R - burstCycle
        /\ StepsLeft' = 1 \/ StepsLeft' = R - (burstCycle + 1)
    BY <2>1, <2>2 DEF StepsLeft
  <2> HIDE DEF N, R
  <2> QED
    BY <1>1, <1>2, <2>1, <2>3 DEF InLoop
<1>6. CASE EndBurst
  <2>1. /\ pc = "burstEnd" /\ burstCycle = N /\ UNCHANGED conf
        /\ burst' = burst + 1 /\ pc' \in {"soil", "stop"}
    BY <1>6 DEF EndBurst, CallInv, FrameInv
  <2>2. R' = R - (N + 2)
    BY <1>2, <1>3, <2>1 DEF BurstsLeft, InLoop
  <2>3. /\ StepsLeft = R - N
        /\ StepsLeft' = 1 \/ StepsLeft' = R - (N + 2) + 1
    BY <2>1, <2>2 DEF StepsLeft
  <2> HIDE DEF N, R
  <2> QED
    BY <1>1, <1>2, <2>1, <2>3 DEF InLoop
<1>7. CASE StopIrrigation
  BY <1>7 DEF StopIrrigation, StepsLeft
<1> QED
  BY <1>4, <1>5, <1>6, <1>7 DEF CheckStep

(***************************************************************************)
(* No call can go on forever (main.cpp:72, "timeout to ensure we are not   *)
(* stuck here forever"): every step of a call leaves fewer steps to take,  *)
(* and none are left only when it has returned.                            *)
(***************************************************************************)
THEOREM CallsRunOut ==
  CheckSpec => /\ [](StepsLeft \in Nat /\ (StepsLeft = 0 <=> pc = "idle"))
               /\ [][CheckStep => StepsLeft' < StepsLeft]_checkVars
<1>1. TypeOK /\ CallInv => StepsLeft \in Nat /\ (StepsLeft = 0 <=> pc = "idle")
  BY StepsLeftType
<1>2. TypeOK /\ CallInv => (CheckStep => StepsLeft' < StepsLeft)
  BY StepsLeftStep
<1> QED
  BY <1>1, <1>2, InvCorrect, PTL DEF CheckSpec
============================================================================
