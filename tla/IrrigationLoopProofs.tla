------------------------ MODULE IrrigationLoopProofs ------------------------
(***************************************************************************)
(* Theorems about the rounds of loop(), for every number of plants, every  *)
(* set of settings and every width of the counters.  The calls of          *)
(* checkMoisture() keep the invariant of CheckMoistureProofs; here it is   *)
(* combined with what the rounds around them keep.                         *)
(***************************************************************************)
EXTENDS IrrigationLoop, CheckMoistureProofs, FiniteSetTheorems

Idle == UNCHANGED <<pc, frame, history>>

----------------------------------------------------------------------------
(***************************************************************************)
(* Types, as far as the proofs need them.                                  *)
(***************************************************************************)
RoundTypes ==
  /\ TypeOK
  /\ settings \in Settings /\ idx \in Nat

LEMMA SettingsFacts ==
  ASSUME settings \in Settings, idx \in Nat, idx < settings.numPlants
  PROVE  idx \in Plant /\ settings.conf[idx] \in Configs
BY CheckAssumption DEF Settings, Plant

LEMMA EthernetFacts == Ethernet \in Outputs /\ Ethernet \notin Pumps
BY DEF Ethernet, Outputs, Sensor, Pumps, PumpPower

LEMMA CallTypes ==
  ASSUME TypeOK, NEW i \in Plant, NEW c \in Configs, Call(i, c)
  PROVE  TypeOK'
<1>1. power' \subseteq Outputs
  BY PowerType, ConfigsAreConfig DEF Call
<1> QED
  BY <1>1 DEF Call, TypeOK, results, LevelOrUndef, PowerOnDelay

LEMMA StepTypes == TypeOK /\ CheckStep => TypeOK'
BY TypeStep DEF CheckNext

LEMMA RoundTypesInit == Init => RoundTypes
BY TypeInit, LoopAssumption DEF Init, RoundTypes

LEMMA RoundTypesStep == RoundTypes /\ [Next]_vars => RoundTypes'
<1> SUFFICES ASSUME RoundTypes, [Next]_vars PROVE RoundTypes'
  OBVIOUS
<1> USE DEF RoundTypes
<1>0. 0 \in Word /\ UndefStatus \in StatusType
  BY CheckAssumption, UndefStatusType DEF Word
<1>1. CASE WakeUp
  BY <1>1, EthernetFacts DEF WakeUp, TypeOK, frame, results, history
<1>2. CASE FetchSettings
  <2>1. settings' \in Settings /\ hardwareFailure' \in BOOLEAN
    BY <1>2, LoopAssumption
    DEF FetchSettings, Receive, ReceiveNothing, TypeOK
  <2> QED
    BY <1>0, <1>2, <2>1 DEF FetchSettings, TypeOK, frame, history
<1>3. CASE BeginRound
  BY <1>0, <1>3 DEF BeginRound, TypeOK, frame, history
<1>4. CASE HoldRound
  BY <1>4 DEF HoldRound, TypeOK, checkVars, frame, register, results, history
<1>5. CASE SkipPlant
  BY <1>5 DEF SkipPlant, TypeOK, checkVars, frame, register, results, history
<1>6. CASE CheckPlant
  <2>1. idx \in Plant /\ settings.conf[idx] \in Configs
    BY <1>6, SettingsFacts DEF CheckPlant, MorePlants
  <2>2. TypeOK'
    BY <1>6, <2>1, CallTypes DEF CheckPlant
  <2> QED
    BY <1>6, <2>2 DEF CheckPlant
<1>7. CASE StepInCheck
  BY <1>7, StepTypes DEF StepInCheck, loopState
<1>8. CASE ReturnFromCheck
  BY <1>8, StepTypes DEF ReturnFromCheck
<1>9. CASE EndPlants
  BY <1>9, EthernetFacts
  DEF EndPlants, TypeOK, frame, results, history
<1>10. CASE Report
  BY <1>10 DEF Report, TypeOK, frame, results, history
<1>11. CASE Sleep
  BY <1>11 DEF Sleep, TypeOK, checkVars, frame, register, results, history
<1>12. CASE UNCHANGED vars
  BY <1>12 DEF vars, TypeOK, checkVars, frame, register, results, history,
               loopState
<1> QED
  BY <1>1, <1>2, <1>3, <1>4, <1>5, <1>6, <1>7, <1>8, <1>9, <1>10, <1>11,
     <1>12 DEF Next

----------------------------------------------------------------------------
(***************************************************************************)
(* The call's invariant is kept by the rounds, which leave the frame alone *)
(* and power no pump.                                                      *)
(***************************************************************************)
LEMMA CallInvIdle ==
  ASSUME CallInv, pc = "idle", Idle, power' \cap Pumps = {}
  PROVE  CallInv'
<1>1. EmptyFrame' /\ pc' = "idle"
  BY DEF CallInv, FrameInv, EmptyFrame, Idle, frame, history
<1> QED
  BY <1>1 DEF CallInv, FrameInv, BudgetInv, EvidenceInv, DetectorInv, InLoop

LEMMA CallInvSame ==
  ASSUME TypeOK, CallInv, UNCHANGED checkVars
  PROVE  CallInv'
BY InvStep

LEMMA CallInvCheck ==
  ASSUME TypeOK, CallInv, CheckStep
  PROVE  CallInv'
BY InvStep DEF CheckNext

(***************************************************************************)
(* Where a call can be, and what is powered and readable at each place.    *)
(***************************************************************************)
PlaceInv ==
  /\ InCheck => /\ lpc = "plants" /\ MorePlants
                /\ plant = idx /\ conf = settings.conf[idx]
  /\ lpc = "plants" => outputOn

PowerInv ==
  /\ lpc \in {"sleep", "begin", "rest"} => power = {}
  /\ lpc = "plants" /\ ~InCheck => power = {}
  /\ InLoop => SensorPower(plant, conf) \subseteq power

InputsInv ==
  /\ lpc \in {"sleep", "report", "rest"} => inputs = {}
  /\ lpc = "fetch" => inputs = AllSensors
  /\ lpc \in {"begin", "plants"} => UsedSensors(settings) \subseteq inputs

RoundInv == CallInv /\ PlaceInv /\ PowerInv /\ InputsInv

LEMMA UsedAreSensors ==
  ASSUME NEW s \in Settings
  PROVE  UsedSensors(s) \subseteq AllSensors
BY CheckAssumption
DEF UsedSensors, AllSensors, UsedWaterSens, Settings, Plant, Sensor

\* The sensors of an active plant are in use.
LEMMA ActiveAreUsed ==
  ASSUME NEW s \in Settings, NEW i \in Plant, i < s.numPlants
  PROVE  SensorPower(i, s.conf[i]) \subseteq UsedSensors(s)
<1>1. s.conf[i] \in Config /\ s.conf[i].sensor \in {0, 1}
  BY ConfigsAreConfig DEF Settings, Config, Sensor
<1>2. i \in 0 .. s.numPlants - 1
  BY CheckAssumption DEF Settings, Plant
<1>3. s.conf[i].sensor \in 0 .. UsedWaterSens(s) - 1
  BY <1>1 DEF UsedWaterSens
<1> QED
  BY <1>2, <1>3 DEF SensorPower, UsedSensors

LEMMA RoundInvInit == Init => RoundInv
<1> SUFFICES ASSUME Init PROVE RoundInv
  OBVIOUS
<1>1. CallInv
  BY InvInit DEF Init
<1> QED
  BY <1>1 DEF Init, CheckInit, RoundInv, PlaceInv, PowerInv, InputsInv,
              InCheck, InLoop

\* What a step inside of the call leaves alone.
LEMMA CheckStepFrame ==
  ASSUME CheckStep
  PROVE  /\ pc # "idle"
         /\ pc # "stop" => UNCHANGED <<plant, conf, outputOn, hardwareFailure>>
         /\ pc # "stop" => pc' # "idle"
         /\ pc = "stop" => pc' = "idle" /\ power' = {} /\ outputOn' = TRUE
BY DEF CheckStep, MeasureSoil, MeasureWater, WaterEmpty, WaterLeft, EndBurst,
       StopIrrigation, register, results

LEMMA SensorsStayPowered ==
  ASSUME InLoop => SensorPower(plant, conf) \subseteq power, CheckStep
  PROVE  InLoop' => SensorPower(plant, conf)' \subseteq power'
<1>1. ASSUME NEW m \in Level, MeasureSoil(m)
      PROVE  InLoop' => SensorPower(plant, conf)' \subseteq power'
  BY <1>1 DEF MeasureSoil, InLoop, SensorPower, register
<1>2. ASSUME NEW x \in Level, MeasureWater(x)
      PROVE  InLoop' => SensorPower(plant, conf)' \subseteq power'
  BY <1>2 DEF MeasureWater, WaterEmpty, WaterLeft, InLoop, SensorPower
<1>3. CASE EndBurst
  BY <1>3 DEF EndBurst, InLoop, SensorPower
<1>4. CASE StopIrrigation
  BY <1>4 DEF StopIrrigation, InLoop
<1> QED
  BY <1>1, <1>2, <1>3, <1>4 DEF CheckStep

LEMMA RoundInvStep == RoundTypes /\ RoundInv /\ [Next]_vars => RoundInv'
<1> SUFFICES ASSUME RoundTypes, RoundInv, [Next]_vars PROVE RoundInv'
  OBVIOUS
<1> USE DEF RoundInv
<1>0. TypeOK /\ settings \in Settings /\ idx \in Nat
  BY DEF RoundTypes
<1>1. CASE WakeUp
  <2>1. pc = "idle"
    BY <1>1 DEF WakeUp, PlaceInv, InCheck
  <2>2. CallInv'
    BY <1>1, <2>1, EthernetFacts, CallInvIdle DEF WakeUp, Idle, history
  <2> QED
    BY <1>1, <2>1, <2>2
    DEF WakeUp, PlaceInv, PowerInv, InputsInv, InCheck, InLoop
<1>2. CASE FetchSettings
  <2>1. pc = "idle"
    BY <1>2 DEF FetchSettings, PlaceInv, InCheck
  <2>2. CallInv'
    BY <1>2, <2>1, CallInvIdle DEF FetchSettings, Idle
  <2>3. settings' \in Settings
    BY <1>0, <1>2, LoopAssumption DEF FetchSettings, Receive, ReceiveNothing
  <2>4. inputs' = UsedSensors(settings')
    BY <1>2, <2>3, UsedAreSensors DEF FetchSettings, InputsInv
  <2>5. UsedSensors(settings)' = UsedSensors(settings')
    BY DEF UsedSensors, UsedWaterSens
  <2> QED
    BY <1>2, <2>1, <2>2, <2>4, <2>5
    DEF FetchSettings, PlaceInv, PowerInv, InputsInv, InCheck, InLoop
<1>3. CASE BeginRound
  <2>1. pc = "idle"
    BY <1>3 DEF BeginRound, PlaceInv, InCheck
  <2>2. CallInv'
    BY <1>3, <2>1, CallInvIdle DEF BeginRound, Idle, history
  <2> QED
    BY <1>3, <2>1, <2>2
    DEF BeginRound, PlaceInv, PowerInv, InputsInv, InCheck, InLoop,
        UsedSensors, UsedWaterSens
<1>4. CASE HoldRound
  <2>1. pc = "idle"
    BY <1>4 DEF HoldRound, PlaceInv, InCheck
  <2>2. CallInv'
    BY <1>0, <1>4, CallInvSame DEF HoldRound
  <2> QED
    BY <1>4, <2>1, <2>2
    DEF HoldRound, PlaceInv, PowerInv, InputsInv, InCheck, InLoop,
        checkVars, register
<1>5. CASE SkipPlant
  <2>1. pc = "idle" /\ lpc = "plants"
    BY <1>5 DEF SkipPlant, AtPlant, InCheck
  <2>2. CallInv'
    BY <1>0, <1>5, CallInvSame DEF SkipPlant
  <2> QED
    BY <1>5, <2>1, <2>2
    DEF SkipPlant, PlaceInv, PowerInv, InputsInv, InCheck, InLoop,
        checkVars, register, UsedSensors, UsedWaterSens
<1>6. CASE CheckPlant
  <2>1. lpc = "plants" /\ MorePlants /\ idx \in Plant
          /\ settings.conf[idx] \in Configs
    BY <1>0, <1>6, SettingsFacts DEF CheckPlant, MorePlants, AtPlant
  <2>2. CallInv'
    BY <1>0, <1>6, <2>1, InvCall DEF CheckPlant
  <2>3. PlaceInv'
    BY <1>6, <2>1
    DEF CheckPlant, Call, PlaceInv, MorePlants, InCheck, results
  <2>4. PowerInv'
    BY <1>6, <2>1
    DEF CheckPlant, Call, PowerInv, InCheck, InLoop, SensorPower
  <2>5. InputsInv'
    BY <1>6 DEF CheckPlant, InputsInv, UsedSensors, UsedWaterSens
  <2> QED
    BY <2>2, <2>3, <2>4, <2>5
<1>7. CASE StepInCheck
  <2>1. /\ CheckStep /\ lpc = "plants" /\ UNCHANGED <<lpc, loopState>>
        /\ pc # "stop" /\ pc # "idle"
    BY <1>7 DEF StepInCheck
  <2>2. CallInv'
    BY <1>0, <2>1, CallInvCheck
  <2>3. PlaceInv'
    BY <2>1, CheckStepFrame
    DEF PlaceInv, MorePlants, InCheck, loopState
  <2>4. PowerInv'
    BY <2>1, CheckStepFrame, SensorsStayPowered DEF PowerInv, InCheck
  <2>5. InputsInv'
    BY <2>1 DEF InputsInv, loopState, UsedSensors, UsedWaterSens
  <2> QED
    BY <2>2, <2>3, <2>4, <2>5
<1>8. CASE ReturnFromCheck
  <2>1. /\ CheckStep /\ lpc = "plants" /\ pc = "stop"
        /\ UNCHANGED <<lpc, settings, inputs>>
    BY <1>8 DEF ReturnFromCheck
  <2>2. pc' = "idle" /\ power' = {} /\ outputOn'
    BY <2>1, CheckStepFrame
  <2>3. CallInv'
    BY <1>0, <2>1, CallInvCheck
  <2> QED
    BY <2>1, <2>2, <2>3
    DEF PlaceInv, PowerInv, InputsInv, InCheck, InLoop, UsedSensors,
        UsedWaterSens
<1>9. CASE EndPlants
  <2>1. pc = "idle"
    BY <1>9 DEF EndPlants, AtPlant, InCheck
  <2>2. power' = {} \/ power' = {Ethernet}
    BY <1>9 DEF EndPlants
  <2>3. CallInv'
    BY <1>9, <2>1, <2>2, EthernetFacts, CallInvIdle
    DEF EndPlants, Idle, history
  <2>4. lpc' = "report" \/ (lpc' = "rest" /\ power' = {})
    BY <1>9 DEF EndPlants
  <2>5. inputs' = {} /\ pc' = "idle"
    BY <1>9, <2>1 DEF EndPlants
  <2> QED
    BY <2>3, <2>4, <2>5
    DEF PlaceInv, PowerInv, InputsInv, InCheck, InLoop
<1>10. CASE Report
  <2>1. pc = "idle"
    BY <1>10 DEF Report, PlaceInv, InCheck
  <2>2. CallInv'
    BY <1>10, <2>1, CallInvIdle DEF Report, Idle, history
  <2> QED
    BY <1>10, <2>1, <2>2
    DEF Report, PlaceInv, PowerInv, InputsInv, InCheck, InLoop
<1>11. CASE Sleep
  <2>1. pc = "idle"
    BY <1>11 DEF Sleep, PlaceInv, InCheck
  <2>2. CallInv'
    BY <1>0, <1>11, CallInvSame DEF Sleep
  <2> QED
    BY <1>11, <2>1, <2>2
    DEF Sleep, PlaceInv, PowerInv, InputsInv, InCheck, InLoop,
        checkVars, register
<1>12. CASE UNCHANGED vars
  <2>1. CallInv'
    BY <1>0, <1>12, CallInvSame DEF vars
  <2> QED
    BY <1>12, <2>1
    DEF vars, checkVars, frame, register, results, loopState,
        PlaceInv, PowerInv, InputsInv, InCheck, InLoop,
        MorePlants, UsedSensors, UsedWaterSens, SensorPower
<1> QED
  BY <1>1, <1>2, <1>3, <1>4, <1>5, <1>6, <1>7, <1>8, <1>9, <1>10, <1>11,
     <1>12 DEF Next

LEMMA RoundInvariant == Spec => [](RoundTypes /\ RoundInv)
<1>1. RoundTypes /\ RoundInv /\ [Next]_vars => (RoundTypes /\ RoundInv)'
  BY RoundTypesStep, RoundInvStep
<1> QED
  BY <1>1, RoundTypesInit, RoundInvInit, PTL DEF Spec

(***************************************************************************)
(* What module CheckMoistureProofs shows of a call whose caller is any     *)
(* caller holds of the calls of loop(): the flood bound, the evidence for  *)
(* the pump, the pumps between the calls and the failure detector.         *)
(***************************************************************************)
THEOREM CallsKeepPromises ==
  Spec => /\ [](PumpBudget /\ PumpJustified /\ PumpsOffBetweenCalls)
          /\ [][FlagExact]_vars
<1>1. RoundTypes /\ RoundInv
        => PumpBudget /\ PumpJustified /\ PumpsOffBetweenCalls
  BY BudgetHolds, EvidenceHolds, OffHolds DEF RoundTypes, RoundInv
<1>2. RoundTypes /\ RoundInv /\ [Next]_vars => [FlagExact]_vars
  <2> SUFFICES ASSUME RoundTypes, RoundInv, Next, pc = "stop"
               PROVE  FlagExact
    BY DEF FlagExact
  <2>1. lpc = "plants" /\ CallInv
    BY DEF RoundInv, PlaceInv, InCheck
  <2>2. CheckStep
    BY <2>1 DEF Next, WakeUp, FetchSettings, BeginRound, HoldRound,
       SkipPlant, CheckPlant, AtPlant, InCheck, StepInCheck, ReturnFromCheck,
       EndPlants, Report, Sleep
  <2> QED
    BY <2>1, <2>2, FlagHolds
<1> QED
  BY <1>1, <1>2, RoundInvariant, PTL DEF Spec

(***************************************************************************)
(* The latch (main.cpp:382, 397): with the failure flag set nothing is     *)
(* irrigated.                                                              *)
(***************************************************************************)
THEOREM FailureHolds == Spec => []NoIrrigationWhileFailed
<1>1. RoundInv => NoIrrigationWhileFailed
  BY DEF RoundInv, PlaceInv, CallInv, FrameInv, MorePlants, InCheck, Driven,
         NoIrrigationWhileFailed
<1> QED
  BY <1>1, RoundInvariant, PTL

(***************************************************************************)
(* Whatever happens in a round, the board sleeps with everything off.      *)
(***************************************************************************)
THEOREM DarkWhileAsleep == Spec => []NothingPoweredAsleep
<1>1. RoundInv => NothingPoweredAsleep
  BY DEF RoundInv, PowerInv, InputsInv, Driven, NothingPoweredAsleep
<1> QED
  BY <1>1, RoundInvariant, PTL

(***************************************************************************)
(* The sensors that are measured are powered inputs (main.cpp:248), under  *)
(* all settings the server may hand out.                                   *)
(***************************************************************************)
THEOREM SensorsAreReadable == Spec => []SensorsReadable
<1>1. RoundTypes /\ RoundInv => SensorsReadable
  <2> SUFFICES ASSUME RoundTypes, RoundInv, pc \in {"soil", "water"}
               PROVE  SensorPower(plant, conf) \subseteq inputs \cap Driven
    BY DEF SensorsReadable
  <2>1. /\ lpc = "plants" /\ idx < settings.numPlants /\ outputOn
        /\ plant = idx /\ conf = settings.conf[idx]
        /\ settings \in Settings /\ idx \in Plant
    BY SettingsFacts
    DEF RoundTypes, RoundInv, PlaceInv, MorePlants, InCheck
  <2>2. SensorPower(plant, conf) \subseteq inputs
    BY <2>1, ActiveAreUsed DEF RoundInv, InputsInv
  <2>3. SensorPower(plant, conf) \subseteq Driven
    BY <2>1 DEF RoundInv, PowerInv, InLoop, Driven
  <2> QED
    BY <2>2, <2>3
<1> QED
  BY <1>1, RoundInvariant, PTL

----------------------------------------------------------------------------
(***************************************************************************)
(* The reported levels.  Settled(i) is what the report promises for plant  *)
(* i; the plant and the reservoir of a running call are on their way       *)
(* there, through two phases: until the first good water reading nothing   *)
(* is noted, and the first soil reading is still the last.                 *)
(***************************************************************************)
Settled(i) ==
  status.beforeMoist[i] = IF BurstCycles(settings.conf[i]) > 0
                            THEN firstMoist[i] ELSE status.afterMoist[i]

Unnoted ==
  /\ status.beforeMoist[plant] = Undefined
  /\ firstMoist[plant] = moist /\ burst = 0 /\ burstCycle = 0

Noted ==
  /\ status.beforeMoist[plant] # Undefined
  /\ status.beforeMoist[plant] = firstMoist[plant]
  /\ status.beforeWater[conf.sensor] # Undefined

CallLevels ==
  /\ plant \in checked
  /\ firstWater[conf.sensor] = IF status.beforeWater[conf.sensor] = Undefined
                                 THEN water
                                 ELSE status.beforeWater[conf.sensor]
  /\ pc = "soil" /\ burst = 0 =>
       firstMoist[plant] = Undefined /\ moist = Undefined
  /\ pc \in {"water", "burstEnd"} => moist # Undefined
  /\ InLoop /\ burst = 0 /\ burstCycle = 0 => water = Undefined
  /\ BurstCycles(conf) = 0 =>
       status.beforeMoist[plant] = Undefined /\ water = Undefined
  /\ BurstCycles(conf) > 0 => Unnoted \/ Noted

HistoryTypes ==
  /\ firstMoist \in [Plant -> LevelOrUndef]
  /\ firstWater \in [Sensor -> LevelOrUndef]

Others ==
  /\ \A i \in Plant : ~(InCheck /\ i = plant) => Settled(i)
  /\ \A w \in Sensor :
       ~(InCheck /\ w = conf.sensor) => status.beforeWater[w] = firstWater[w]
  /\ \A i \in Plant : i \notin checked => status.afterMoist[i] = Undefined

LevelsInv ==
  /\ HistoryTypes
  /\ lpc \in {"fetch", "begin"} =>
       /\ firstMoist = [i \in Plant |-> Undefined]
       /\ firstWater = [w \in Sensor |-> Undefined]
  /\ lpc \in {"plants", "report"} => Others
  /\ lpc = "plants" =>
       \A i \in Plant : i >= idx /\ ~(InCheck /\ i = plant) =>
         status.beforeMoist[i] = Undefined /\ firstMoist[i] = Undefined
  /\ InCheck => CallLevels

LEMMA LevelsInvInit == Init => LevelsInv
BY DEF Init, CheckInit, LevelsInv, HistoryTypes, LevelOrUndef, InCheck

\* The types and places a step of the call starts from.
CallContext ==
  /\ TypeOK /\ CallInv /\ HistoryTypes
  /\ plant \in Plant /\ conf \in Config /\ conf.sensor \in Sensor
  /\ BurstCycles(conf) \in Nat /\ burst \in Nat /\ burstCycle \in Nat

LEMMA ContextHolds ==
  ASSUME TypeOK, CallInv, HistoryTypes
  PROVE  CallContext
<1>1. conf \in Config /\ BurstCycles(conf) \in Nat
  BY ConfigsAreConfig, ConfFacts DEF TypeOK
<1> QED
  BY <1>1 DEF CallContext, TypeOK, Config

\* A soil reading.
LEMMA LevelsSoil ==
  ASSUME CallContext, CallLevels, NEW m \in Level, MeasureSoil(m),
         firstMoist' = IF firstMoist[plant] = Undefined
                         THEN [firstMoist EXCEPT ![plant] = moist']
                         ELSE firstMoist,
         UNCHANGED <<firstWater, checked>>
  PROVE  HistoryTypes' /\ CallLevels'
<1>1. /\ pc = "soil" /\ moist' = m /\ burstCycle = 0
      /\ pc' \in {"stop", "water", "burstEnd"}
      /\ UNCHANGED <<plant, conf, burst, burstCycle, water, status>>
  BY DEF MeasureSoil, CallContext, CallInv, FrameInv, results
<1>2. m # Undefined /\ m \in LevelOrUndef
  BY LevelDefined DEF LevelOrUndef
<1>3. HistoryTypes'
  BY <1>1, <1>2 DEF CallContext, HistoryTypes
<1>4. burst = 0 => firstMoist'[plant] = m
  BY <1>1 DEF CallContext, HistoryTypes, CallLevels
<1>5. burst # 0 /\ BurstCycles(conf) > 0 => Noted /\ firstMoist' = firstMoist
  BY DEF CallLevels, Unnoted, Noted
<1>6. BurstCycles(conf)' = BurstCycles(conf)
  BY <1>1 DEF BurstCycles
<1>7. BurstCycles(conf) > 0 => Unnoted' \/ Noted'
  <2>1. CASE burst = 0
    <3>1. CASE Noted
      BY <1>1, <2>1, <3>1 DEF Noted, CallLevels
    <3>2. CASE Unnoted
      BY <1>1, <1>4, <2>1, <3>2 DEF Unnoted
    <3> QED
      BY <3>1, <3>2 DEF CallLevels
  <2>2. CASE burst # 0
    BY <1>1, <1>5, <2>2 DEF Noted
  <2> QED
    BY <2>1, <2>2
<1> QED
  BY <1>1, <1>2, <1>3, <1>6, <1>7 DEF CallLevels, InLoop

\* What initCheck() does to the levels of one plant and one sensor.
LEMMA InitCheckFields ==
  ASSUME NEW st \in StatusType, NEW i \in Plant, NEW w \in Sensor,
         NEW m \in LevelOrUndef, NEW x \in LevelOrUndef
  PROVE  /\ InitCheck(st, i, w, m, x).beforeMoist =
              [st.beforeMoist EXCEPT ![i] = IF @ = Undefined THEN m ELSE @]
         /\ InitCheck(st, i, w, m, x).beforeWater =
              [st.beforeWater EXCEPT ![w] = IF @ = Undefined THEN x ELSE @]
         /\ InitCheck(st, i, w, m, x).afterMoist = st.afterMoist
         /\ InitCheck(st, i, w, m, x) \in StatusType
<1>1. InitCheck(st, i, w, m, x).beforeMoist =
        [st.beforeMoist EXCEPT ![i] = IF @ = Undefined THEN m ELSE @]
  BY DEF InitCheck, StatusType
<1>2. InitCheck(st, i, w, m, x).beforeWater =
        [st.beforeWater EXCEPT ![w] = IF @ = Undefined THEN x ELSE @]
  BY DEF InitCheck, StatusType
<1>3. InitCheck(st, i, w, m, x).afterMoist = st.afterMoist
  BY DEF InitCheck, StatusType
<1> QED
  BY <1>1, <1>2, <1>3, InitCheckType

\* A water reading: an empty tank leaves the status alone, the first good
\* reading notes both levels.
LEMMA LevelsWater ==
  ASSUME CallContext, CallLevels, NEW x \in Level, MeasureWater(x),
         firstWater' = IF firstWater[conf.sensor] = Undefined
                         THEN [firstWater EXCEPT ![conf.sensor] = water']
                         ELSE firstWater,
         UNCHANGED <<firstMoist, checked>>
  PROVE  /\ HistoryTypes' /\ CallLevels'
         /\ \A i \in Plant : i # plant =>
              status'.beforeMoist[i] = status.beforeMoist[i]
         /\ \A w \in Sensor : w # conf.sensor =>
              status'.beforeWater[w] = status.beforeWater[w]
         /\ status'.afterMoist = status.afterMoist
<1> DEFINE s == conf.sensor
<1>1. /\ pc = "water" /\ water' = x /\ burstCycle < BurstCycles(conf)
      /\ UNCHANGED <<plant, conf, burst, moist>>
      /\ BurstCycles(conf) > 0 /\ moist # Undefined
  BY DEF MeasureWater, CallContext, CallInv, FrameInv, CallLevels
<1>2. x # Undefined /\ x \in LevelOrUndef
  BY LevelDefined DEF LevelOrUndef
<1>3. /\ status \in StatusType /\ plant \in Plant /\ s \in Sensor
      /\ moist \in LevelOrUndef /\ burst \in Nat /\ burstCycle \in Nat
  BY DEF CallContext, TypeOK
<1>4. /\ firstWater' \in [Sensor -> LevelOrUndef]
      /\ \A w \in Sensor : w # s => firstWater'[w] = firstWater[w]
      /\ firstWater'[s] = IF firstWater[s] = Undefined THEN x
                                                       ELSE firstWater[s]
  BY <1>1, <1>2, <1>3 DEF CallContext, HistoryTypes
<1>5. BurstCycles(conf)' = BurstCycles(conf)
  BY <1>1 DEF BurstCycles
<1>6. HistoryTypes'
  BY <1>4 DEF HistoryTypes, CallContext
<1>7. burst = 0 /\ burstCycle = 0 => water = Undefined
  BY <1>1 DEF CallLevels, InLoop
<1>8. firstWater[s] = IF status.beforeWater[s] = Undefined THEN water
                                                 ELSE status.beforeWater[s]
  BY DEF CallLevels
<1>9. Unnoted \/ Noted
  BY <1>1 DEF CallLevels
<1>10. CASE WaterEmpty(x)
  <2>1. /\ pc' = "stop" /\ UNCHANGED <<burstCycle, status>>
    BY <1>10 DEF WaterEmpty
  <2>2. firstWater'[s] = IF status.beforeWater[s] = Undefined THEN x
                                                 ELSE status.beforeWater[s]
    <3>1. CASE status.beforeWater[s] = Undefined
      <4>1. Unnoted
        BY <1>9, <3>1 DEF Noted
      <4> QED
        BY <1>4, <1>7, <1>8, <3>1, <4>1 DEF Unnoted
    <3>2. CASE status.beforeWater[s] # Undefined
      BY <1>4, <1>8, <3>2
    <3> QED
      BY <3>1, <3>2
  <2>3. Unnoted' \/ Noted'
    BY <1>1, <1>9, <2>1 DEF Unnoted, Noted
  <2>4. CallLevels'
    BY <1>1, <1>5, <2>1, <2>2, <2>3 DEF CallLevels, InLoop
  <2> QED
    BY <1>6, <2>1, <2>4
<1>11. CASE WaterLeft(x)
  <2>1. /\ pc' \in {"water", "burstEnd"} /\ burstCycle' = burstCycle + 1
        /\ status' = IF burstCycle = 0 /\ burst = 0
                       THEN InitCheck(status, plant, s, moist, x)
                       ELSE status
    BY <1>11 DEF WaterLeft
  <2>2. CASE burstCycle = 0 /\ burst = 0
    <3>1. /\ status'.beforeMoist = [status.beforeMoist EXCEPT ![plant] =
                                     IF @ = Undefined THEN moist ELSE @]
          /\ status'.beforeWater = [status.beforeWater EXCEPT ![s] =
                                     IF @ = Undefined THEN x ELSE @]
          /\ status'.afterMoist = status.afterMoist
      BY <1>2, <1>3, <2>1, <2>2, InitCheckFields
    <3>2. /\ status.beforeMoist \in [Plant -> LevelOrUndef]
          /\ status.beforeWater \in [Sensor -> LevelOrUndef]
      BY <1>3 DEF StatusType
    <3>3. /\ status'.beforeWater[s] = firstWater'[s]
          /\ status'.beforeWater[s] # Undefined
      BY <1>2, <1>3, <1>4, <1>7, <1>8, <2>2, <3>1, <3>2
    <3>4. /\ status'.beforeMoist[plant] = firstMoist[plant]
          /\ status'.beforeMoist[plant] # Undefined
      BY <1>1, <1>3, <1>9, <3>1, <3>2 DEF Unnoted, Noted
    <3>5. Noted'
      BY <1>1, <3>3, <3>4 DEF Noted
    <3>6. CallLevels'
      BY <1>1, <1>3, <1>5, <2>1, <2>2, <3>3, <3>5 DEF CallLevels, InLoop
    <3> QED
      BY <1>3, <1>6, <3>1, <3>2, <3>6
  <2>3. CASE ~(burstCycle = 0 /\ burst = 0)
    <3>1. Noted /\ status' = status
      BY <1>9, <2>1, <2>3 DEF Unnoted
    <3>2. Noted'
      BY <1>1, <3>1 DEF Noted
    <3>3. firstWater'[s] = status'.beforeWater[s]
      BY <1>4, <1>8, <3>1 DEF Noted
    <3>4. CallLevels'
      BY <1>1, <1>3, <1>5, <2>1, <3>1, <3>2, <3>3
      DEF CallLevels, InLoop, Noted
    <3> QED
      BY <1>6, <3>1, <3>4
  <2> QED
    BY <2>2, <2>3
<1> QED
  BY <1>10, <1>11 DEF MeasureWater

\* The end of a burst changes no level.
LEMMA LevelsBurst ==
  ASSUME CallContext, CallLevels, EndBurst,
         UNCHANGED <<firstMoist, firstWater, checked>>
  PROVE  CallLevels'
<1>1. /\ pc = "burstEnd" /\ burstCycle = BurstCycles(conf) /\ burst \in Nat
      /\ pc' \in {"soil", "stop"} /\ burst' = burst + 1
      /\ UNCHANGED <<plant, conf, moist, water, status>>
  BY DEF EndBurst, CallContext, CallInv, FrameInv
<1>2. BurstCycles(conf)' = BurstCycles(conf)
  BY <1>1 DEF BurstCycles
<1>3. BurstCycles(conf) > 0 => Noted
  BY <1>1 DEF CallLevels, Unnoted
<1>4. Noted => Noted'
  BY <1>1 DEF Noted
<1> QED
  BY <1>1, <1>2, <1>3, <1>4 DEF CallLevels, InLoop

LEMMA AfterLevelsFields ==
  ASSUME NEW st \in StatusType, plant \in Plant, conf.sensor \in Sensor
  PROVE  /\ AfterLevels(st).beforeMoist = st.beforeMoist
         /\ AfterLevels(st).beforeWater = st.beforeWater
         /\ AfterLevels(st).afterMoist =
              [st.afterMoist EXCEPT ![plant] = moist]
<1>1. AfterLevels(st).beforeMoist = st.beforeMoist
  BY DEF AfterLevels, StatusType
<1>2. AfterLevels(st).beforeWater = st.beforeWater
  BY DEF AfterLevels, StatusType
<1>3. AfterLevels(st).afterMoist = [st.afterMoist EXCEPT ![plant] = moist]
  BY DEF AfterLevels, StatusType
<1> QED
  BY <1>1, <1>2, <1>3

\* The return settles the plant and the reservoir of the call.
LEMMA LevelsStop ==
  ASSUME CallContext, CallLevels, StopIrrigation,
         conf = settings.conf[plant],
         UNCHANGED <<firstMoist, firstWater, settings>>
  PROVE  /\ status'.beforeMoist[plant] =
              IF BurstCycles(conf) > 0 THEN firstMoist[plant]
                                       ELSE status'.afterMoist[plant]
         /\ status'.beforeWater[conf.sensor] = firstWater[conf.sensor]
         /\ \A i \in Plant : i # plant =>
              /\ status'.beforeMoist[i] = status.beforeMoist[i]
              /\ status'.afterMoist[i] = status.afterMoist[i]
         /\ \A w \in Sensor : w # conf.sensor =>
              status'.beforeWater[w] = status.beforeWater[w]
<1> DEFINE s == conf.sensor
           noted == InitCheck(status, plant, s, moist, water)
<1>1. /\ status \in StatusType /\ plant \in Plant /\ s \in Sensor
      /\ moist \in LevelOrUndef /\ water \in LevelOrUndef
      /\ BurstCycles(conf) \in Nat
  BY DEF CallContext, TypeOK
<1>2. /\ noted.beforeMoist = [status.beforeMoist EXCEPT ![plant] =
                                IF @ = Undefined THEN moist ELSE @]
      /\ noted.beforeWater = [status.beforeWater EXCEPT ![s] =
                                IF @ = Undefined THEN water ELSE @]
      /\ noted.afterMoist = status.afterMoist
      /\ noted \in StatusType
  BY <1>1, InitCheckFields
<1> HIDE DEF noted
<1>3. /\ status'.beforeMoist = noted.beforeMoist
      /\ status'.beforeWater = noted.beforeWater
      /\ status'.afterMoist = [noted.afterMoist EXCEPT ![plant] = moist]
  BY <1>1, <1>2, AfterLevelsFields DEF StopIrrigation, noted
<1>4. /\ status.beforeMoist \in [Plant -> LevelOrUndef]
      /\ status.beforeWater \in [Sensor -> LevelOrUndef]
      /\ status.afterMoist \in [Plant -> LevelOrUndef]
  BY <1>1 DEF StatusType
<1>5. status'.afterMoist[plant] = moist
  BY <1>1, <1>2, <1>3, <1>4
<1>6. status'.beforeMoist[plant] =
        IF status.beforeMoist[plant] = Undefined
          THEN moist ELSE status.beforeMoist[plant]
  BY <1>1, <1>2, <1>3, <1>4
<1>7. status'.beforeMoist[plant] =
        IF BurstCycles(conf) > 0 THEN firstMoist[plant]
                                 ELSE status'.afterMoist[plant]
  BY <1>1, <1>5, <1>6 DEF CallLevels, Unnoted, Noted
<1>8. status'.beforeWater[s] = firstWater[s]
  BY <1>1, <1>2, <1>3, <1>4 DEF CallLevels
<1> QED
  BY <1>2, <1>3, <1>4, <1>7, <1>8

\* Steps that leave all levels alone.
LEMMA LevelsSame ==
  ASSUME LevelsInv, lpc' = lpc, idx' \in Nat, idx \in Nat, idx' >= idx,
         UNCHANGED <<checkVars, settings, checked, firstMoist, firstWater>>
  PROVE  LevelsInv'
BY DEF LevelsInv, HistoryTypes, Others, Settled, CallLevels, Unnoted, Noted,
       InCheck, InLoop, checkVars, frame, results, BurstCycles, Plant

\* The call begins with a plant that has no levels yet.
LEMMA LevelsCall ==
  ASSUME RoundTypes, RoundInv, LevelsInv, CheckPlant
  PROVE  LevelsInv'
<1>1. /\ lpc = "plants" /\ lpc' = "plants" /\ pc = "idle" /\ idx \in Plant
      /\ plant' = idx /\ conf' = settings.conf[idx]
      /\ checked' = checked \cup {idx} /\ pc' \in {"soil", "stop"}
      /\ UNCHANGED <<idx, settings, status, firstMoist, firstWater>>
  BY SettingsFacts
  DEF CheckPlant, Call, AtPlant, InCheck, MorePlants, RoundTypes, results
<1>2. conf' \in Config /\ conf'.sensor \in Sensor /\ BurstCycles(conf)' \in Nat
  <2>1. settings.conf[idx] \in Config
    BY <1>1, SettingsFacts, ConfigsAreConfig
    DEF CheckPlant, MorePlants, RoundTypes
  <2> QED
    BY <1>1, <2>1, ConfFacts DEF Config, BurstCycles
<1>3. burst' = 0 /\ burstCycle' = 0 /\ moist' = Undefined /\ water' = Undefined
  BY <1>1
  DEF RoundInv, CallInv, FrameInv, EmptyFrame, CheckPlant, Call
<1>4. status.beforeMoist[idx] = Undefined /\ firstMoist[idx] = Undefined
  BY <1>1 DEF LevelsInv, InCheck, Plant
<1>5. /\ \A i \in Plant : Settled(i)
      /\ \A w \in Sensor : status.beforeWater[w] = firstWater[w]
      /\ \A i \in Plant : i \notin checked => status.afterMoist[i] = Undefined
  BY <1>1 DEF LevelsInv, Others, InCheck
<1>6. Others'
  BY <1>1, <1>5 DEF Others, Settled, BurstCycles
<1>7. CallLevels'
  BY <1>1, <1>2, <1>3, <1>4, <1>5 DEF CallLevels, Unnoted, InLoop
<1> QED
  BY <1>1, <1>6, <1>7 DEF LevelsInv, HistoryTypes, InCheck

\* Steps inside of the call.
LEMMA LevelsCheck ==
  ASSUME RoundTypes, RoundInv, LevelsInv, StepInCheck
  PROVE  LevelsInv'
<1>1. /\ lpc = "plants" /\ lpc' = "plants" /\ InCheck
      /\ pc \in {"soil", "water", "burstEnd"} /\ CheckStep
      /\ UNCHANGED <<idx, settings, checked>>
  BY DEF StepInCheck, loopState, InCheck
<1>2. UNCHANGED <<plant, conf>> /\ InCheck'
  BY <1>1, CheckStepFrame DEF InCheck
<1>3. CallContext /\ CallLevels /\ Others
  BY <1>1, ContextHolds DEF RoundTypes, RoundInv, LevelsInv
<1>4. /\ HistoryTypes' /\ CallLevels'
      /\ \A i \in Plant : i # plant =>
           /\ status'.beforeMoist[i] = status.beforeMoist[i]
           /\ firstMoist'[i] = firstMoist[i]
      /\ \A w \in Sensor : w # conf.sensor =>
           /\ status'.beforeWater[w] = status.beforeWater[w]
           /\ firstWater'[w] = firstWater[w]
      /\ status'.afterMoist = status.afterMoist
  <2>1. CASE pc = "soil"
    <3>1. PICK m \in Level : MeasureSoil(m)
      BY <1>1, <2>1 DEF CheckStep, MeasureWater, EndBurst, StopIrrigation
    <3>2. /\ firstMoist' = IF firstMoist[plant] = Undefined
                             THEN [firstMoist EXCEPT ![plant] = moist']
                             ELSE firstMoist
          /\ UNCHANGED <<firstWater, checked>>
      BY <2>1 DEF StepInCheck
    <3>3. status' = status
      BY <3>1 DEF MeasureSoil, results
    <3> QED
      BY <1>3, <3>1, <3>2, <3>3, LevelsSoil DEF CallContext, HistoryTypes
  <2>2. CASE pc = "water"
    <3>1. PICK x \in Level : MeasureWater(x)
      BY <1>1, <2>2 DEF CheckStep, MeasureSoil, EndBurst, StopIrrigation
    <3>2. /\ firstWater' = IF firstWater[conf.sensor] = Undefined
                             THEN [firstWater EXCEPT ![conf.sensor] = water']
                             ELSE firstWater
          /\ UNCHANGED <<firstMoist, checked>>
      BY <2>2 DEF StepInCheck
    <3> QED
      BY <1>3, <3>1, <3>2, LevelsWater DEF CallContext, HistoryTypes
  <2>3. CASE pc = "burstEnd"
    <3>1. EndBurst
      BY <1>1, <2>3 DEF CheckStep, MeasureSoil, MeasureWater, StopIrrigation
    <3>2. UNCHANGED <<firstMoist, firstWater, checked>>
      BY <2>3 DEF StepInCheck
    <3>3. status' = status
      BY <3>1 DEF EndBurst
    <3> QED
      BY <1>3, <3>1, <3>2, <3>3, LevelsBurst DEF CallContext, HistoryTypes
  <2> QED
    BY <1>1, <2>1, <2>2, <2>3
<1>5. Others'
  BY <1>1, <1>2, <1>3, <1>4 DEF Others, Settled, BurstCycles
<1>6. \A i \in Plant : i >= idx /\ i # plant =>
        status'.beforeMoist[i] = Undefined /\ firstMoist'[i] = Undefined
  BY <1>1, <1>4 DEF LevelsInv
<1> QED
  BY <1>1, <1>2, <1>4, <1>5, <1>6 DEF LevelsInv

\* The return from the call.
LEMMA LevelsReturn ==
  ASSUME RoundTypes, RoundInv, LevelsInv, ReturnFromCheck
  PROVE  LevelsInv'
<1>1. /\ lpc = "plants" /\ lpc' = "plants" /\ InCheck /\ pc = "stop"
      /\ CheckStep /\ idx' = idx + 1 /\ idx \in Nat
      /\ UNCHANGED <<settings, checked, firstMoist, firstWater>>
  BY DEF ReturnFromCheck, InCheck, RoundTypes
<1>2. StopIrrigation
  BY <1>1 DEF CheckStep, MeasureSoil, MeasureWater, EndBurst
<1>3. ~InCheck'
  BY <1>2 DEF StopIrrigation, InCheck
<1>4. CallContext /\ CallLevels /\ Others
  BY <1>1, ContextHolds DEF RoundTypes, RoundInv, LevelsInv
<1>5. plant = idx /\ conf = settings.conf[plant] /\ plant \in checked
  BY <1>1, <1>4 DEF RoundInv, PlaceInv, CallLevels
<1>6. /\ status'.beforeMoist[plant] =
           IF BurstCycles(conf) > 0 THEN firstMoist[plant]
                                    ELSE status'.afterMoist[plant]
      /\ status'.beforeWater[conf.sensor] = firstWater[conf.sensor]
      /\ \A i \in Plant : i # plant =>
           /\ status'.beforeMoist[i] = status.beforeMoist[i]
           /\ status'.afterMoist[i] = status.afterMoist[i]
      /\ \A w \in Sensor : w # conf.sensor =>
           status'.beforeWater[w] = status.beforeWater[w]
  BY <1>1, <1>2, <1>4, <1>5, LevelsStop
<1>7. \A i \in Plant : Settled(i)'
  BY <1>1, <1>4, <1>5, <1>6 DEF Others, Settled, BurstCycles
<1>8. Others'
  BY <1>1, <1>3, <1>4, <1>5, <1>6, <1>7 DEF Others
<1>9. \A i \in Plant : i >= idx' =>
        status'.beforeMoist[i] = Undefined /\ firstMoist'[i] = Undefined
  BY <1>1, <1>5, <1>6 DEF LevelsInv, Plant
<1> QED
  BY <1>1, <1>3, <1>8, <1>9 DEF LevelsInv, HistoryTypes

LEMMA LevelsInvStep ==
  RoundTypes /\ RoundInv /\ LevelsInv /\ [Next]_vars => LevelsInv'
<1> SUFFICES ASSUME RoundTypes, RoundInv, LevelsInv, [Next]_vars
             PROVE  LevelsInv'
  OBVIOUS
<1>0. /\ idx \in Nat
      /\ lpc # "plants" => pc = "idle"
  BY DEF RoundTypes, RoundInv, PlaceInv, InCheck
<1>1. CASE WakeUp
  BY <1>0, <1>1
  DEF WakeUp, LevelsInv, HistoryTypes, LevelOrUndef, InCheck
<1>2. CASE FetchSettings
  BY <1>0, <1>2 DEF FetchSettings, LevelsInv, HistoryTypes, InCheck,
                    loopHistory
<1>3. CASE BeginRound
  <2>1. /\ firstMoist' = [i \in Plant |-> Undefined]
        /\ firstWater' = [w \in Sensor |-> Undefined]
        /\ status' = UndefStatus /\ pc' = "idle" /\ lpc' = "plants"
    BY <1>0, <1>3 DEF BeginRound, LevelsInv, loopHistory
  <2>2. /\ \A i \in Plant : /\ status'.beforeMoist[i] = Undefined
                            /\ status'.afterMoist[i] = Undefined
                            /\ firstMoist'[i] = Undefined
        /\ \A w \in Sensor : /\ status'.beforeWater[w] = Undefined
                             /\ firstWater'[w] = Undefined
    BY <2>1 DEF UndefStatus
  <2>3. Others'
    BY <2>1, <2>2 DEF Others, Settled
  <2> QED
    BY <2>1, <2>2, <2>3
    DEF LevelsInv, HistoryTypes, LevelOrUndef, InCheck
<1>4. CASE HoldRound
  BY <1>0, <1>4 DEF HoldRound, LevelsInv, HistoryTypes, InCheck, checkVars,
                    loopHistory
<1>5. CASE SkipPlant
  BY <1>0, <1>5, LevelsSame DEF SkipPlant, loopHistory
<1>6. CASE CheckPlant
  BY <1>6, LevelsCall
<1>7. CASE StepInCheck
  BY <1>7, LevelsCheck
<1>8. CASE ReturnFromCheck
  BY <1>8, LevelsReturn
<1>9. CASE EndPlants
  <2>1. /\ pc = "idle" /\ pc' = "idle" /\ lpc = "plants"
        /\ lpc' \in {"report", "rest"}
        /\ UNCHANGED <<status, settings, loopHistory>>
    BY <1>9 DEF EndPlants, AtPlant, InCheck, results
  <2> QED
    BY <2>1
    DEF LevelsInv, HistoryTypes, Others, Settled, BurstCycles, InCheck,
        loopHistory
<1>10. CASE Report
  BY <1>0, <1>10 DEF Report, LevelsInv, HistoryTypes, InCheck, loopHistory
<1>11. CASE Sleep
  BY <1>0, <1>11 DEF Sleep, LevelsInv, HistoryTypes, InCheck, checkVars,
                     loopHistory
<1>12. CASE UNCHANGED vars
  BY <1>0, <1>12, LevelsSame DEF vars, loopState, loopHistory
<1> QED
  BY <1>1, <1>2, <1>3, <1>4, <1>5, <1>6, <1>7, <1>8, <1>9, <1>10, <1>11,
     <1>12 DEF Next

LEMMA LevelsInvariant == Spec => []LevelsInv
BY LevelsInvInit, LevelsInvStep, RoundInvariant, PTL DEF Spec

(***************************************************************************)
(* The "before" levels that are reported are the first readings of the     *)
(* round, of shared reservoirs too (main.cpp:86), bursts without a cycle   *)
(* excepted, and only a plant that was checked has moisture after it.  Of  *)
(* the last readings of the reservoirs nothing is said: a later plant may  *)
(* overwrite them without a reading (main.cpp:160).                        *)
(***************************************************************************)
THEOREM ReportsAreFaithful == Spec => []StatusFaithful
<1>1. RoundTypes /\ RoundInv /\ LevelsInv => StatusFaithful
  <2> SUFFICES ASSUME RoundTypes, RoundInv, LevelsInv, lpc = "report"
               PROVE  StatusFaithful
    BY DEF StatusFaithful
  <2>1. ~InCheck /\ Others
    BY DEF RoundInv, PlaceInv, LevelsInv
  <2>2. \A i \in Plant :
          status.beforeMoist[i] = IF BurstCycles(settings.conf[i]) > 0
                                    THEN firstMoist[i] ELSE status.afterMoist[i]
    BY <2>1 DEF Others, Settled
  <2>3. status.beforeWater = firstWater
    <3>1. status.beforeWater \in [Sensor -> LevelOrUndef]
      BY DEF RoundTypes, TypeOK, StatusType
    <3>2. firstWater \in [Sensor -> LevelOrUndef]
      BY DEF LevelsInv, HistoryTypes
    <3>3. \A w \in Sensor : status.beforeWater[w] = firstWater[w]
      BY <2>1 DEF Others
    <3> QED
      BY <3>1, <3>2, <3>3
  <2>4. \A i \in Plant : status.afterMoist[i] # Undefined => i \in checked
    BY <2>1 DEF Others
  <2> QED
    BY <2>2, <2>3, <2>4 DEF StatusFaithful
<1> QED
  BY <1>1, RoundInvariant, LevelsInvariant, PTL

----------------------------------------------------------------------------
(***************************************************************************)
(* Time.  The call still owes its measurements: its periods are charged    *)
(* when it returns.  Beyond those periods a call takes the power-on delay  *)
(* and the measurements that ended a burst early, at most two: Extra is    *)
(* at most 2.5 s per call.  Of a charged second at least the four pauses   *)
(* of its measurement have passed: Spare is never negative.                *)
(***************************************************************************)
Owed == burst * (BurstCycles(conf) + 1) + burstCycle

Clock == roundTime + elapsed

Extra == Clock - 1000 * (secondsPassed + Owed)
Spare == Clock - 800 * (secondsPassed + Owed)

\* n: the calls of this round; e: the milliseconds of its network sessions.
LagIn(n, e) ==
  /\ pc \in {"idle", "stop"} => 0 <= Spare /\ Extra <= 2500 * n + e
  /\ pc = "soil" => 0 <= Spare /\ Extra <= 2500 * n - 2000 + e
  /\ pc \in {"water", "burstEnd"} =>
       800 <= Spare /\ Extra <= 2500 * n - 1000 + e

\* Every wait of the call is over when the loop waits for something else.
Sessions == IF lpc = "rest" THEN 2 * LongestSession ELSE LongestSession

InTime == Clock <= 800 * IntMax

\* The plants checked in a round, each once.
CheckedInv ==
  /\ checked \subseteq Plant
  /\ lpc \in {"fetch", "begin"} => checked = {}
  /\ lpc = "plants" => \A i \in checked : i < idx \/ (InCheck /\ i = idx)
  /\ InCheck => idx \in checked

TimeInv ==
  /\ CheckedInv /\ roundTime \in Nat
  /\ pc = "idle" => elapsed = 0
  /\ lpc = "fetch" => roundTime = 0
  /\ lpc = "begin" => roundTime \in 0 .. LongestSession /\ secondsPassed = 0
  /\ lpc \in {"plants", "report", "rest"} /\ InTime =>
       LagIn(Cardinality(checked), Sessions)

LEMMA ExactSecs ==
  ASSUME NEW b \in Nat, NEW n \in Nat, NEW k \in Nat, 
         b * (n + 1) + k <= IntMax, NEW s \in MeasurementSecs(b, n, k)
  PROVE  s = b * (n + 1) + k
<1> DEFINE periods == b * (n + 1) + k
<1>1. periods \in 0 .. WordMod - 1 /\ WordMod \in Nat \ {0}
  <2>1. b * (n + 1) \in Nat
    OBVIOUS
  <2> QED
    BY <2>1, CheckAssumption
<1>2. s = ((periods * MeasurementDuration) \div 1000) % WordMod
  BY DEF MeasurementSecs
<1> HIDE DEF periods
<1>3. (periods * 1000) \div 1000 = periods
  BY <1>1
<1>4. periods % WordMod = periods
  BY <1>1
<1> QED
  BY <1>2, <1>3, <1>4 DEF MeasurementDuration, periods

\* A step of the call keeps the lag within its bounds.
LEMMA LagStep ==
  ASSUME TypeOK, CallInv, CheckStep, roundTime \in Nat,
         roundTime' = IF pc = "stop" THEN roundTime + elapsed ELSE roundTime,
         NEW CONSTANT n \in Nat \ {0}, NEW CONSTANT e \in Nat,
         InTime => LagIn(n, e), InTime'
  PROVE  LagIn(n, e)'
<1> DEFINE N == BurstCycles(conf)
           B == burst * (N + 1)
<1>1. /\ conf \in Config /\ N \in Nat /\ conf.burstDelay \in Nat
      /\ burst \in Nat /\ burstCycle \in Nat
      /\ elapsed \in Nat /\ Clock \in Nat
      /\ secondsPassed \in 0 .. WordMod - 1
  BY ConfigsAreConfig, ConfFacts DEF TypeOK, Word, Clock
<1>2. /\ B \in Nat /\ (burst + 1) * (N + 1) = B + N + 1
  BY <1>1
<1>3. IntMax \in 0 .. WordMod - 1 /\ WordMod \in Nat \ {0}
  BY CheckAssumption
<1>4. UNCHANGED conf => BurstCycles(conf)' = N
  BY DEF BurstCycles
<1>5. Owed = B + burstCycle
  BY <1>1, <1>2 DEF Owed
<1> HIDE DEF N, B
<1>6. ASSUME NEW m \in Level, MeasureSoil(m) PROVE LagIn(n, e)'
  <2>1. PICK t \in MeasureTimes : elapsed' = elapsed + t
    BY <1>6 DEF MeasureSoil, Measuring
  <2>2. t \in 800 .. 1000
    BY <2>1, MeasureTimesNat
  <2>3. /\ pc = "soil" /\ roundTime' = roundTime
        /\ UNCHANGED <<conf, burst, burstCycle, secondsPassed>>
        /\ pc' \in {"stop", "water", "burstEnd"}
    BY <1>6 DEF MeasureSoil, results
  <2>4. Clock' = Clock + t
    BY <1>1, <2>1, <2>2, <2>3 DEF Clock, TypeOK
  <2>5. Owed' = Owed
    BY <2>3 DEF Owed, BurstCycles
  <2>6. Owed \in Nat
    BY <1>1, <1>2, <1>5
  <2>7. InTime
    BY <1>1, <1>3, <2>2, <2>4 DEF InTime
  <2>8. 0 <= Spare /\ Extra <= 2500 * n - 2000 + e
    BY <2>3, <2>7 DEF LagIn
  <2>9. Spare' = Spare + t /\ Extra' = Extra + t
    BY <1>1, <2>2, <2>3, <2>4, <2>5, <2>6 DEF Spare, Extra
  <2>10. Spare \in Int /\ Extra \in Int
    BY <1>1, <2>6 DEF Spare, Extra
  <2> QED
    BY <2>2, <2>3, <2>8, <2>9, <2>10 DEF LagIn
<1>7. ASSUME NEW m \in Level, MeasureWater(m) PROVE LagIn(n, e)'
  <2>1. PICK t \in MeasureTimes : elapsed' = elapsed + t
    BY <1>7 DEF MeasureWater, Measuring
  <2>2. t \in 800 .. 1000
    BY <2>1, MeasureTimesNat
  <2>3. /\ pc = "water" /\ roundTime' = roundTime
        /\ UNCHANGED <<conf, burst, secondsPassed>>
        /\ \/ pc' = "stop" /\ burstCycle' = burstCycle
           \/ pc' \in {"water", "burstEnd"} /\ burstCycle' = burstCycle + 1
    BY <1>7 DEF MeasureWater, WaterEmpty, WaterLeft
  <2>4. Clock' = Clock + t
    BY <1>1, <2>1, <2>2, <2>3 DEF Clock, TypeOK
  <2>5. Owed' = B + burstCycle' /\ Owed \in Nat
    BY <1>1, <1>2, <1>4, <1>5, <2>3 DEF Owed, B, N
  <2>6. InTime
    BY <1>1, <1>3, <2>2, <2>4 DEF InTime
  <2>7. 800 <= Spare /\ Extra <= 2500 * n - 1000 + e
    BY <2>3, <2>6 DEF LagIn
  <2>8. Spare \in Int /\ Extra \in Int
    BY <1>1, <2>5 DEF Spare, Extra
  <2>9. CASE pc' = "stop"
    <3>1. Spare' = Spare + t /\ Extra' = Extra + t
      BY <1>1, <1>2, <1>5, <2>2, <2>3, <2>4, <2>5, <2>9 DEF Spare, Extra
    <3> QED
      BY <2>2, <2>7, <2>8, <2>9, <3>1 DEF LagIn
  <2>10. CASE pc' # "stop"
    <3>1. /\ Spare' = Spare + t - 800 /\ Extra' = Extra + t - 1000
          /\ pc' \in {"water", "burstEnd"}
      BY <1>1, <1>2, <1>5, <2>2, <2>3, <2>4, <2>5, <2>10 DEF Spare, Extra
    <3> QED
      BY <2>2, <2>7, <2>8, <3>1 DEF LagIn
  <2> QED
    BY <2>9, <2>10
<1>8. CASE EndBurst
  <2>1. /\ pc = "burstEnd" /\ elapsed' = elapsed + 1000 * conf.burstDelay
        /\ secondsPassed' = (secondsPassed + conf.burstDelay) % WordMod
        /\ burst' = burst + 1 /\ burstCycle' = 0 /\ burstCycle = N
        /\ pc' \in {"soil", "stop"} /\ UNCHANGED <<conf, roundTime>>
    BY <1>8 DEF EndBurst, CallInv, FrameInv, N, Second
  <2>2. Owed = B + N /\ Owed' = B + N + 1
    BY <1>1, <1>2, <1>4, <1>5, <2>1 DEF Owed, N
  <2>3. Clock' = Clock + 1000 * conf.burstDelay
    BY <1>1, <2>1 DEF Clock, TypeOK
  <2>4. InTime
    BY <1>1, <1>3, <2>3 DEF InTime
  <2>5. 800 <= Spare /\ Extra <= 2500 * n - 1000 + e
    BY <2>1, <2>4 DEF LagIn
  <2>6. secondsPassed + conf.burstDelay \in 0 .. WordMod - 1
    <3>1. 800 * (secondsPassed + B + N) + 1000 * conf.burstDelay
            <= 800 * IntMax
      BY <1>1, <1>2, <1>3, <2>2, <2>3, <2>5 DEF Spare, InTime
    <3> QED
      BY <1>1, <1>2, <1>3, <3>1
  <2>7. secondsPassed' = secondsPassed + conf.burstDelay
    BY <1>3, <2>1, <2>6
  <2>8. /\ Spare' = Spare + 200 * conf.burstDelay - 800
        /\ Extra' = Extra - 1000 /\ Spare \in Int /\ Extra \in Int
    BY <1>1, <1>2, <2>2, <2>3, <2>7 DEF Spare, Extra
  <2> QED
    BY <1>1, <2>1, <2>5, <2>8 DEF LagIn
<1>9. CASE StopIrrigation
  <2>1. /\ pc = "stop" /\ pc' = "idle" /\ elapsed' = 0
        /\ conf' = NoConf /\ burst' = 0 /\ burstCycle' = 0
        /\ roundTime' = roundTime + elapsed
    BY <1>9 DEF StopIrrigation, DropFrame
  <2>2. PICK s \in MeasurementSecs(burst, N, burstCycle) :
          secondsPassed' = (secondsPassed + s) % WordMod
    BY <1>9 DEF StopIrrigation, N
  <2>3. Clock' = Clock
    BY <1>1, <2>1 DEF Clock
  <2>4. InTime
    BY <2>3 DEF InTime
  <2>5. 0 <= Spare /\ Extra <= 2500 * n + e
    BY <2>1, <2>4 DEF LagIn
  <2>6. secondsPassed + B + burstCycle <= IntMax
    BY <1>1, <1>2, <1>3, <1>5, <2>4, <2>5 DEF Spare, InTime
  <2>7. s = B + burstCycle
    <3>1. B + burstCycle <= IntMax
      BY <1>1, <1>2, <1>3, <2>6
    <3> QED
      BY <1>1, <2>2, <3>1, ExactSecs DEF B
  <2>8. secondsPassed + s \in 0 .. WordMod - 1
    BY <1>1, <1>2, <1>3, <2>6, <2>7
  <2>9. secondsPassed' = secondsPassed + s
    BY <1>3, <2>2, <2>8
  <2>10. Owed' = 0
    <3>1. BurstCycles(NoConf) \in Nat
      BY ConfigsAreConfig, ConfFacts
    <3>2. Owed' = 0 * (BurstCycles(NoConf) + 1) + 0
      BY <2>1 DEF Owed, BurstCycles
    <3> QED
      BY <3>1, <3>2
  <2>11. Spare' = Spare /\ Extra' = Extra
    BY <1>1, <1>2, <1>5, <2>3, <2>7, <2>9, <2>10 DEF Spare, Extra
  <2> QED
    BY <2>1, <2>5, <2>11 DEF LagIn
<1> QED
  BY <1>6, <1>7, <1>8, <1>9 DEF CheckStep

\* Between calls nothing is owed.
LEMMA IdleOwes ==
  ASSUME TypeOK, CallInv, pc = "idle"
  PROVE  Owed = 0
<1>1. conf = NoConf /\ burst = 0 /\ burstCycle = 0
  BY DEF CallInv, FrameInv, EmptyFrame
<1>2. BurstCycles(NoConf) \in Nat
  BY ConfigsAreConfig, ConfFacts
<1> QED
  BY <1>1, <1>2 DEF Owed

\* Outside of the call the lag can only change with the checked plants and
\* by a network session.
LEMMA IdleLag ==
  ASSUME UNCHANGED <<pc, conf, burst, burstCycle, secondsPassed, elapsed,
                     roundTime>>,
         NEW CONSTANT n, NEW CONSTANT e, LagIn(n, e)
  PROVE  LagIn(n, e)'
BY DEF LagIn, Spare, Extra, Clock, Owed, BurstCycles

LEMMA SessionLength ==
  ASSUME NetworkSession
  PROVE  \E t \in 0 .. LongestSession : roundTime' = roundTime + t
BY LoopAssumption DEF NetworkSession

LEMMA CheckedFacts ==
  ASSUME CheckedInv
  PROVE  IsFiniteSet(checked) /\ Cardinality(checked) \in Nat
<1>1. MaxPlants - 1 \in Int
  BY CheckAssumption
<1>2. IsFiniteSet(Plant)
  BY <1>1, FS_Interval DEF Plant
<1> QED
  BY <1>2, FS_Subset, FS_CardinalityType DEF CheckedInv

LEMMA TimeInvInit == Init => TimeInv
BY DEF Init, TimeInv, CheckedInv, InCheck, CheckInit, EmptyFrame

LEMMA TimeInvStep ==
  RoundTypes /\ RoundInv /\ TimeInv /\ [Next]_vars => TimeInv'
<1> SUFFICES ASSUME RoundTypes, RoundInv, TimeInv, [Next]_vars
             PROVE  TimeInv'
  OBVIOUS
<1>0. /\ TypeOK /\ CallInv /\ CheckedInv /\ idx \in Nat
      /\ lpc # "plants" => pc = "idle"
      /\ pc = "idle" => elapsed = 0
      /\ IsFiniteSet(checked) /\ Cardinality(checked) \in Nat
      /\ roundTime \in Nat /\ secondsPassed \in Nat
      /\ IntMax \in Nat /\ LongestSession \in Nat
  BY CheckedFacts, CheckAssumption, LoopAssumption
  DEF RoundTypes, RoundInv, TimeInv, PlaceInv, InCheck, TypeOK, Word
<1> DEFINE n == Cardinality(checked)
<1>1. CASE WakeUp
  BY <1>0, <1>1 DEF WakeUp, TimeInv, CheckedInv, InCheck, history
<1>2. CASE FetchSettings
  <2>1. PICK t \in 0 .. LongestSession : roundTime' = roundTime + t
    BY <1>2, SessionLength DEF FetchSettings
  <2>2. roundTime' \in 0 .. LongestSession
    BY <1>0, <1>2, <2>1 DEF FetchSettings, TimeInv
  <2> QED
    BY <1>0, <1>2, <2>2
    DEF FetchSettings, TimeInv, CheckedInv, InCheck, loopHistory, history
\* The first section after the settings owes no more than its session.
<1>3. ASSUME lpc = "begin", lpc' \in {"plants", "rest"}, pc = "idle",
             UNCHANGED <<pc, conf, burst, burstCycle, secondsPassed, elapsed,
                         roundTime, checked>>
      PROVE  TimeInv'
  <2>1. /\ Owed = 0 /\ elapsed = 0 /\ n = 0 /\ checked = {}
        /\ secondsPassed = 0 /\ roundTime \in 0 .. LongestSession
    BY <1>0, <1>3, IdleOwes, FS_EmptySet DEF TimeInv, CheckedInv
  <2>2. PICK e \in Nat : e = Sessions'
    BY <1>0 DEF Sessions
  <2>3. LongestSession <= e
    BY <1>0, <2>2 DEF Sessions
  <2>4. Clock = roundTime /\ Spare = roundTime /\ Extra = roundTime
    BY <1>0, <2>1 DEF Clock, Spare, Extra
  <2>5. LagIn(0, e)
    BY <1>0, <1>3, <2>1, <2>3, <2>4 DEF LagIn
  <2>6. LagIn(0, e)'
    BY <1>3, <2>5, IdleLag
  <2>7. Cardinality(checked)' = 0
    BY <1>3, <2>1
  <2> QED
    BY <1>3, <2>1, <2>2, <2>6, <2>7 DEF TimeInv, CheckedInv, InCheck
<1>4. CASE BeginRound
  <2>1. /\ lpc = "begin" /\ lpc' = "plants" /\ pc = "idle"
        /\ UNCHANGED <<pc, conf, burst, burstCycle, secondsPassed, elapsed,
                       roundTime, checked>>
    BY <1>0, <1>4 DEF BeginRound, frame, history, loopHistory
  <2> QED
    BY <1>3, <2>1
<1>5. CASE HoldRound
  <2>1. /\ lpc = "begin" /\ lpc' = "rest" /\ pc = "idle"
        /\ UNCHANGED <<pc, conf, burst, burstCycle, secondsPassed, elapsed,
                       roundTime, checked>>
    BY <1>0, <1>5
    DEF HoldRound, checkVars, frame, results, history, loopHistory
  <2> QED
    BY <1>3, <2>1
<1> PICK k \in Nat : k = Cardinality(checked)
  BY <1>0
<1> PICK e \in Nat : e = Sessions
  BY <1>0 DEF Sessions
\* Outside of the calls only a session takes time, and it has its allowance.
<1>a. ASSUME lpc \in {"plants", "report", "rest"}, pc = "idle",
             lpc' \in {"plants", "report", "rest", "sleep"},
             lpc' = "plants" => lpc = "plants" /\ idx' \in Nat /\ idx' >= idx,
             lpc = "rest" => lpc' # "report",
             UNCHANGED <<pc, conf, burst, burstCycle, secondsPassed, elapsed,
                         checked>>,
             \/ roundTime' = roundTime
             \/ lpc = "report" /\ lpc' = "rest" /\ NetworkSession
      PROVE  TimeInv'
  <2>1. Cardinality(checked)' = k
    BY <1>a
  <2>2. CheckedInv'
    BY <1>0, <1>a DEF CheckedInv, InCheck, Plant
  <2>3. Owed = 0 /\ Owed' = 0 /\ elapsed = 0 /\ elapsed' = 0
    BY <1>0, <1>a, IdleOwes DEF Owed, BurstCycles
  <2>4. InTime => 0 <= Spare /\ Extra <= 2500 * k + e
    BY <1>a DEF TimeInv, LagIn
  <2>5. PICK t \in 0 .. LongestSession :
          /\ roundTime' = roundTime + t
          /\ t > 0 => lpc = "report" /\ lpc' = "rest"
    <3>1. CASE roundTime' = roundTime
      <4>1. 0 \in 0 .. LongestSession /\ roundTime' = roundTime + 0
        BY <1>0, <3>1
      <4> QED
        BY <4>1
    <3>2. CASE NetworkSession /\ lpc = "report" /\ lpc' = "rest"
      BY <3>2, SessionLength
    <3> QED
      BY <1>a, <3>1, <3>2
  <2>6. PICK f \in Nat : f = Sessions'
    BY <1>0 DEF Sessions
  <2>7. lpc' # "sleep" => e + t <= f
    <3>1. t > 0 => lpc = "report" /\ lpc' = "rest"
      BY <2>5
    <3> QED
      BY <1>0, <1>a, <2>6, <3>1 DEF Sessions
  <2>8. /\ Clock = roundTime /\ Clock' = roundTime + t
        /\ Spare' = Spare + t /\ Extra' = Extra + t
        /\ Spare \in Int /\ Extra \in Int
    BY <1>0, <1>a, <2>3, <2>5 DEF Clock, Spare, Extra
  <2>9. InTime' => InTime
    BY <1>0, <2>8 DEF InTime
  <2>10. lpc' # "sleep" /\ InTime' => LagIn(k, f)'
    BY <1>0, <1>a, <2>4, <2>7, <2>8, <2>9 DEF LagIn
  <2>11. roundTime' \in Nat /\ elapsed' = 0
    BY <1>0, <2>3, <2>5
  <2> QED
    BY <1>a, <2>1, <2>2, <2>6, <2>10, <2>11 DEF TimeInv
<1>6. CASE SkipPlant
  <2>1. /\ lpc = "plants" /\ lpc' = "plants" /\ pc = "idle" /\ idx' = idx + 1
        /\ UNCHANGED <<pc, conf, burst, burstCycle, secondsPassed, elapsed,
                       roundTime, checked>>
    BY <1>6
    DEF SkipPlant, AtPlant, InCheck, checkVars, frame, results, history,
        loopHistory
  <2> QED
    BY <1>0, <1>a, <2>1
<1>7. CASE CheckPlant
  <2>1. /\ lpc = "plants" /\ lpc' = "plants" /\ pc = "idle" /\ idx \in Plant
        /\ pc' \in {"soil", "stop"} /\ checked' = checked \cup {idx}
        /\ UNCHANGED <<idx, burst, burstCycle, secondsPassed, roundTime>>
        /\ elapsed' = elapsed + 500
        /\ conf' = settings.conf[idx] /\ settings.conf[idx] \in Configs
        /\ burst = 0 /\ (pc' = "soil" \/ pc' = "stop")
    BY <1>0, <1>7, SettingsFacts
    DEF CheckPlant, Call, AtPlant, InCheck, MorePlants, RoundTypes, results,
        PowerOnDelay, CallInv, FrameInv, EmptyFrame
  <2>2. idx \notin checked
    BY <1>0, <2>1 DEF CheckedInv, InCheck
  <2>3. Cardinality(checked)' = k + 1
    BY <1>0, <2>1, <2>2, FS_AddElement
  <2>4. Owed = 0 /\ Owed' = 0
    <3>1. burst = 0 /\ burstCycle = 0
      BY <1>0, <2>1 DEF CallInv, FrameInv, EmptyFrame
    <3>2. BurstCycles(conf)' \in Nat
      BY <2>1, ConfigsAreConfig, ConfFacts DEF BurstCycles
    <3> QED
      BY <1>0, <2>1, <3>1, <3>2, IdleOwes DEF Owed
  <2>5. /\ Clock = roundTime /\ Clock' = roundTime + 500
        /\ Spare' = Spare + 500 /\ Extra' = Extra + 500
        /\ Spare \in Int /\ Extra \in Int
    BY <1>0, <2>1, <2>4 DEF Clock, Spare, Extra
  <2>6. InTime' => LagIn(k + 1, e)'
    <3>1. InTime' => InTime
      BY <1>0, <2>5 DEF InTime
    <3>2. InTime => 0 <= Spare /\ Extra <= 2500 * k + e
      BY <2>1 DEF TimeInv, LagIn
    <3> QED
      BY <2>1, <2>5, <3>1, <3>2 DEF LagIn
  <2>7. CheckedInv'
    BY <1>0, <2>1 DEF CheckedInv, InCheck
  <2>8. Sessions' = e
    BY <2>1 DEF Sessions
  <2> QED
    BY <2>1, <2>3, <2>6, <2>7, <2>8 DEF TimeInv
<1>8. ASSUME lpc = "plants", lpc' = "plants", CheckStep, checked' = checked,
             roundTime' = IF pc = "stop" THEN roundTime + elapsed
                                         ELSE roundTime,
             CheckedInv', pc' = "idle" => pc = "stop"
      PROVE  TimeInv'
  <2>1. k \in Nat \ {0}
    <3>1. idx \in checked
      BY <1>0, <1>8, CheckStepFrame DEF CheckedInv, InCheck
    <3>2. k # 0
      BY <1>0, <3>1, FS_EmptySet
    <3> QED
      BY <3>2
  <2>2. InTime => LagIn(k, e)
    BY <1>8 DEF TimeInv
  <2>3. InTime' => LagIn(k, e)'
    BY <1>0, <1>8, <2>1, <2>2, LagStep
  <2>4. Cardinality(checked)' = k /\ Sessions' = e
    BY <1>8 DEF Sessions
  <2>5. roundTime' \in Nat /\ (pc' = "idle" => elapsed' = 0)
    BY <1>0, <1>8
    DEF TypeOK, CheckStep, MeasureSoil, MeasureWater, EndBurst, StopIrrigation,
        DropFrame
  <2> QED
    BY <1>8, <2>3, <2>4, <2>5 DEF TimeInv
<1>9. CASE StepInCheck
  <2>1. /\ lpc = "plants" /\ lpc' = "plants" /\ CheckStep /\ pc # "stop"
        /\ UNCHANGED <<checked, idx, roundTime>>
    BY <1>9 DEF StepInCheck, loopState
  <2>2. pc # "idle" /\ pc' # "idle"
    BY <2>1, CheckStepFrame
  <2>3. CheckedInv'
    BY <1>0, <2>1, <2>2 DEF CheckedInv, InCheck
  <2> QED
    BY <1>8, <2>1, <2>2, <2>3
<1>10. CASE ReturnFromCheck
  <2>1. /\ lpc = "plants" /\ lpc' = "plants" /\ CheckStep /\ pc = "stop"
        /\ checked' = checked /\ idx' = idx + 1
        /\ roundTime' = roundTime + elapsed
    BY <1>10 DEF ReturnFromCheck
  <2>2. pc' = "idle"
    BY <2>1, CheckStepFrame
  <2>3. CheckedInv'
    BY <1>0, <2>1, <2>2 DEF CheckedInv, InCheck, Plant
  <2> QED
    BY <1>8, <2>1, <2>3
<1>11. CASE EndPlants
  <2>1. /\ lpc = "plants" /\ lpc' \in {"report", "rest"} /\ pc = "idle"
        /\ UNCHANGED <<pc, conf, burst, burstCycle, secondsPassed, elapsed,
                       roundTime, checked>>
    BY <1>11
    DEF EndPlants, AtPlant, InCheck, frame, results, history, loopHistory
  <2> QED
    BY <1>a, <2>1
<1>12. CASE Report
  <2>1. /\ lpc = "report" /\ lpc' = "rest" /\ NetworkSession
        /\ UNCHANGED <<pc, conf, burst, burstCycle, secondsPassed, elapsed,
                       checked>>
    BY <1>12 DEF Report, frame, results, history, loopHistory
  <2> QED
    BY <1>0, <1>a, <2>1
<1>13. CASE Sleep
  <2>1. /\ lpc = "rest" /\ lpc' = "sleep"
        /\ UNCHANGED <<pc, conf, burst, burstCycle, secondsPassed, elapsed,
                       roundTime, checked>>
    BY <1>13
    DEF Sleep, checkVars, frame, results, history, loopHistory
  <2> QED
    BY <1>0, <1>a, <2>1
<1>14. CASE UNCHANGED vars
  <2>1. UNCHANGED <<lpc, idx, pc, conf, burst, burstCycle, secondsPassed,
                    elapsed, roundTime, checked>>
    BY <1>14
    DEF vars, checkVars, frame, results, history, loopState, loopHistory
  <2>2. CheckedInv'
    BY <1>0, <2>1 DEF CheckedInv, InCheck
  <2>3. LagIn(k, e) => LagIn(k, e)'
    BY <2>1, IdleLag
  <2>4. /\ InTime' = InTime /\ Sessions' = e
        /\ Cardinality(checked)' = k
    BY <2>1 DEF InTime, Clock, Sessions
  <2> QED
    BY <2>1, <2>2, <2>3, <2>4 DEF TimeInv
<1> QED
  BY <1>1, <1>2, <1>4, <1>5, <1>6, <1>7, <1>9, <1>10, <1>11, <1>12, <1>13,
     <1>14 DEF Next

LEMMA TimeInvariant == Spec => []TimeInv
BY TimeInvInit, TimeInvStep, RoundInvariant, PTL DEF Spec

(***************************************************************************)
(* The variables of the loop keep their types.                             *)
(***************************************************************************)
LEMMA ReportTypes ==
  ASSUME idx \in Nat
  PROVE  ReportMessages \in
           Seq([type : {"status", "error", "warn", "failure"}, label : Nat])
<1> DEFINE M == [type : {"status", "error", "warn", "failure"}, label : Nat]
<1>1. /\ Msg("status", 0) \in M
      /\ \A w \in {0, 1} : Msg("error", w + 1) \in M /\ Msg("warn", w) \in M
      /\ Msg("failure", (idx - 1) + 1) \in M
  BY DEF Msg
<1> HIDE DEF M
<1>2. \A w \in {0, 1} : WaterReport(w) \in Seq(M)
  BY <1>1 DEF WaterReport
<1>3. <<Msg("status", 0)>> \in Seq(M)
  BY <1>1
<1>4. <<Msg("status", 0)>> \o WaterReport(0) \o WaterReport(1) \in Seq(M)
  BY <1>2, <1>3
<1>5. <<Msg("failure", (idx - 1) + 1)>> \in Seq(M) /\ <<>> \in Seq(M)
  BY <1>1
<1>6. ReportMessages \in Seq(M)
  BY <1>4, <1>5 DEF ReportMessages
<1> QED
  BY <1>6 DEF M

LEMMA LoopTypesInit == Init => LoopTypeOK
<1> SUFFICES ASSUME Init PROVE LoopTypeOK
  OBVIOUS
<1>1. TypeOK
  BY TypeInit DEF Init
<1>2. /\ ByteMod - 1 \in Byte /\ 0 \in Word /\ 0 \in 0 .. MaxPlants
  BY CheckAssumption DEF Byte, Word
<1>3. /\ ticks \in [Plant -> Byte]
      /\ firstMoist \in [Plant -> LevelOrUndef]
      /\ firstWater \in [Sensor -> LevelOrUndef]
  BY <1>2 DEF Init, LevelOrUndef
<1>4. /\ sent \in Seq([type : {"status", "error", "warn", "failure"},
                       label : Nat])
      /\ resCode \subseteq Sensor \X {"empty", "warn"}
      /\ inputs \subseteq AllSensors
      /\ checked \subseteq Plant /\ emptySeen \subseteq Sensor
  BY DEF Init
<1>5. /\ lpc = "sleep" /\ settings = DefaultSettings /\ idx = 0
      /\ statusChanged = FALSE /\ sleepSecs = 0 /\ failedPlant = -1
      /\ roundTime = 0
  BY DEF Init
<1> QED
  BY <1>1, <1>2, <1>3, <1>4, <1>5 DEF LoopTypeOK

LEMMA LoopTypesStep ==
  LoopTypeOK /\ RoundTypes /\ RoundInv /\ RoundTypes' /\ TimeInv'
    /\ HistoryTypes' /\ [Next]_vars => LoopTypeOK'
<1> SUFFICES ASSUME LoopTypeOK, RoundTypes, RoundInv, RoundTypes', TimeInv',
                    HistoryTypes', [Next]_vars
             PROVE  LoopTypeOK'
  OBVIOUS
<1>0. /\ TypeOK' /\ checked' \subseteq Plant /\ roundTime' \in Nat
      /\ firstMoist' \in [Plant -> LevelOrUndef]
      /\ firstWater' \in [Sensor -> LevelOrUndef]
  BY DEF RoundTypes, TimeInv, CheckedInv, HistoryTypes
<1> HIDE DEF LoopTypeOK
<1>a. /\ lpc \in {"sleep", "fetch", "begin", "plants", "report", "rest"}
      /\ settings \in SettingsSet \cup {DefaultSettings}
      /\ settings \in Settings
      /\ idx \in 0 .. MaxPlants
      /\ ticks \in [Plant -> Byte]
      /\ statusChanged \in BOOLEAN
      /\ resCode \subseteq Sensor \X {"empty", "warn"}
      /\ inputs \subseteq AllSensors
      /\ sent \in Seq([type : {"status", "error", "warn", "failure"},
                       label : Nat])
      /\ sleepSecs \in Word
      /\ emptySeen \subseteq Sensor
      /\ failedPlant \in Plant \cup {-1}
  BY DEF LoopTypeOK, RoundTypes
<1>b. Ticked \in [Plant -> Byte]
  <2>1. \A i \in Plant : (ticks[i] + 1) % ByteMod \in Byte
    <3> TAKE i \in Plant
    <3>1. ticks[i] + 1 \in Int
      BY <1>a, CheckAssumption DEF Byte
    <3> QED
      BY <3>1, ModRange, CheckAssumption DEF Byte
  <2> QED
    BY <2>1 DEF Ticked
<1>c. TypeOK /\ conf \in Config
  BY ConfigsAreConfig DEF LoopTypeOK, TypeOK
<1>1. CASE WakeUp
  <2>1. 0 \in Word
    BY CheckAssumption DEF Word
  <2> QED
    BY <1>0, <1>1, <1>a, <2>1 DEF WakeUp, LoopTypeOK
<1>2. CASE FetchSettings
  BY <1>0, <1>2, <1>a
  DEF FetchSettings, Receive, ReceiveNothing, LoopTypeOK, loopHistory
<1>3. CASE BeginRound
  <2>1. 0 \in 0 .. MaxPlants /\ {} \subseteq Sensor \X {"empty", "warn"}
    BY CheckAssumption
  <2>2. /\ lpc' = "plants" /\ statusChanged' = FALSE /\ resCode' = {}
        /\ idx' = 0
        /\ UNCHANGED <<settings, ticks, inputs, sent, sleepSecs, emptySeen,
                       failedPlant>>
    BY <1>3 DEF BeginRound, loopHistory
  <2> QED
    BY <1>0, <1>a, <2>1, <2>2 DEF LoopTypeOK
<1>4. CASE HoldRound
  BY <1>0, <1>4, <1>a, <1>b DEF HoldRound, LoopTypeOK, loopHistory
<1>5. CASE SkipPlant
  <2>1. idx + 1 \in 0 .. MaxPlants
    BY <1>5, <1>a, SettingsFacts, CheckAssumption
    DEF SkipPlant, MorePlants, Plant
  <2> QED
    BY <1>0, <1>5, <1>a, <2>1 DEF SkipPlant, LoopTypeOK, loopHistory
<1>6. CASE CheckPlant
  <2>1. ByteMod - 1 \in Byte
    BY CheckAssumption DEF Byte
  <2>2. ticks' \in [Plant -> Byte]
    BY <1>6, <1>a, <2>1 DEF CheckPlant
  <2> QED
    BY <1>0, <1>6, <1>a, <2>2 DEF CheckPlant, LoopTypeOK
<1>7. CASE StepInCheck
  <2>1. emptySeen' \subseteq Sensor
    BY <1>7, <1>a, <1>c DEF StepInCheck, Config
  <2> QED
    BY <1>0, <1>7, <1>a, <2>1 DEF StepInCheck, LoopTypeOK, loopState
<1>8. CASE ReturnFromCheck
  <2>1. retCode' \subseteq Sensor \X {"empty", "warn"}
    BY <1>0 DEF TypeOK
  <2>2. idx' \in 0 .. MaxPlants
    BY <1>8, <1>a, SettingsFacts, CheckAssumption
    DEF ReturnFromCheck, RoundInv, PlaceInv, MorePlants, InCheck, Plant
  <2>3. failedPlant' \in Plant \cup {-1}
    BY <1>8, <1>a, <1>c DEF ReturnFromCheck, TypeOK
  <2> QED
    BY <1>0, <1>8, <1>a, <2>1, <2>2, <2>3 DEF ReturnFromCheck, LoopTypeOK
<1>9. CASE EndPlants
  <2>1. statusChanged' \in BOOLEAN
    BY <1>9, <1>a DEF EndPlants, Settings
  <2> QED
    BY <1>0, <1>9, <1>a, <1>b, <2>1 DEF EndPlants, LoopTypeOK, loopHistory
<1>10. CASE Report
  <2>1. sent' \in Seq([type : {"status", "error", "warn", "failure"},
                       label : Nat])
    <3>1. sent' = ReportMessages \/ sent' = <<>>
      BY <1>10 DEF Report
    <3>2. <<>> \in Seq([type : {"status", "error", "warn", "failure"},
                       label : Nat])
      OBVIOUS
    <3>3. idx \in Nat
      BY <1>a
    <3> QED
      BY <3>1, <3>2, <3>3, ReportTypes
  <2> QED
    BY <1>0, <1>10, <1>a, <2>1 DEF Report, LoopTypeOK, loopHistory
<1>11. CASE Sleep
  <2>1. SleepPeriod - secondsPassed \in Int
    BY <1>c, LoopAssumption, CheckAssumption DEF TypeOK, Word
  <2>2. sleepSecs' \in Word
    BY <1>11, <2>1, WordRange DEF Sleep
  <2> QED
    BY <1>0, <1>11, <1>a, <2>2 DEF Sleep, LoopTypeOK, loopHistory
<1>12. CASE UNCHANGED vars
  BY <1>0, <1>12, <1>a DEF vars, LoopTypeOK, loopState, loopHistory
<1> QED
  BY <1>1, <1>2, <1>3, <1>4, <1>5, <1>6, <1>7, <1>8, <1>9, <1>10, <1>11,
     <1>12 DEF Next

LEMMA LoopTypesInvariant == Spec => []LoopTypeOK
BY LoopTypesInit, LoopTypesStep, RoundInvariant, TimeInvariant,
   LevelsInvariant, PTL DEF Spec, LevelsInv

(***************************************************************************)
(* The seconds of a round (main.cpp:145, "also add the measurement delays  *)
(* to the seconds passed!"): whatever the settings, the readings and the   *)
(* times of measurements and network sessions, short of an overflow every  *)
(* charged second stands for at least 800 ms of the round, and all of the  *)
(* round is charged but two measurements and the power-on delay per plant  *)
(* and the two sessions.                                                   *)
(***************************************************************************)
THEOREM RoundsAreCharged == Spec => []RoundCharged
<1>1. LoopTypeOK /\ RoundTypes /\ RoundInv /\ TimeInv => RoundCharged
  <2> SUFFICES ASSUME LoopTypeOK, RoundTypes, RoundInv, TimeInv,
                      ~InCheck, lpc \notin {"sleep", "fetch"},
                      roundTime <= 800 * IntMax
               PROVE  /\ 800 * secondsPassed <= roundTime
                      /\ roundTime <= 1000 * secondsPassed + Uncharged
    BY DEF RoundCharged, MeasurementPauses, Second
  <2>1. /\ TypeOK /\ pc = "idle" /\ Owed = 0 /\ elapsed = 0
        /\ lpc \in {"begin", "plants", "report", "rest"}
        /\ secondsPassed \in Nat /\ roundTime \in Nat
        /\ Cardinality(checked) \in Nat /\ LongestSession \in Nat
    BY IdleOwes, CheckedFacts, CheckAssumption, LoopAssumption
    DEF RoundInv, LoopTypeOK, TypeOK, InCheck, Word, TimeInv
  <2>2. Uncharged = 2500 * Cardinality(checked) + 2 * LongestSession
    BY <2>1 DEF Uncharged, MeasurementDuration, PowerOnDelay
  <2>3. CASE lpc = "begin"
    BY <2>1, <2>2, <2>3 DEF TimeInv
  <2>4. CASE lpc # "begin"
    <3>1. InTime /\ Clock = roundTime
      BY <2>1 DEF InTime, Clock
    <3>2. PICK n \in Nat : n = Cardinality(checked)
      BY <2>1
    <3>3. 0 <= Spare /\ Extra <= 2500 * n + Sessions
      BY <2>1, <2>4, <3>1, <3>2 DEF TimeInv, LagIn
    <3>4. /\ Spare = roundTime - 800 * secondsPassed
          /\ Extra = roundTime - 1000 * secondsPassed
      BY <2>1, <3>1 DEF Spare, Extra
    <3>5. Sessions \in Nat /\ Sessions <= 2 * LongestSession
      BY <2>1 DEF Sessions
    <3> QED
      BY <2>1, <2>2, <3>2, <3>3, <3>4, <3>5
  <2> QED
    BY <2>3, <2>4
<1> QED
  BY <1>1, LoopTypesInvariant, RoundInvariant, TimeInvariant, PTL
----------------------------------------------------------------------------
(***************************************************************************)
(* Turns.  The plants the loop has passed were checked or skipped.         *)
(***************************************************************************)
TurnInv ==
  lpc = "plants" => \A i \in Plant : i < idx => i \in checked \/ Skip(i)

LEMMA TurnInvInit == Init => TurnInv
BY DEF Init, TurnInv

LEMMA TurnInvStep ==
  RoundTypes /\ RoundInv /\ TimeInv /\ TurnInv /\ [Next]_vars => TurnInv'
<1> SUFFICES ASSUME RoundTypes, RoundInv, TimeInv, TurnInv, [Next]_vars,
                    lpc' = "plants", NEW i \in Plant, i < idx'
             PROVE  i \in checked' \/ Skip(i)'
  BY DEF TurnInv
<1>0. idx \in Nat /\ i \in Int
  BY CheckAssumption DEF RoundTypes, Plant
<1>1. CASE BeginRound
  BY <1>0, <1>1, CheckAssumption DEF BeginRound, Plant
<1>2. CASE SkipPlant
  <2>1. /\ lpc = "plants" /\ idx' = idx + 1 /\ Skip(idx)
        /\ UNCHANGED <<ticks, settings, checked>>
    BY <1>2 DEF SkipPlant, AtPlant, loopHistory
  <2>2. Skip(i)' <=> Skip(i)
    BY <2>1 DEF Skip
  <2>3. i < idx \/ i = idx
    BY <1>0, <2>1
  <2> QED
    BY <2>1, <2>2, <2>3 DEF TurnInv
<1>3. CASE CheckPlant
  <2>1. /\ lpc = "plants" /\ idx' = idx /\ checked' = checked \cup {idx}
        /\ ticks' = [ticks EXCEPT ![idx] = ByteMod - 1]
        /\ UNCHANGED settings
    BY <1>3 DEF CheckPlant, AtPlant
  <2>2. Skip(i)' <=> Skip(i)
    BY <1>0, <2>1 DEF Skip
  <2> QED
    BY <2>1, <2>2 DEF TurnInv
<1>4. CASE StepInCheck
  <2>1. lpc = "plants" /\ UNCHANGED <<idx, ticks, settings, checked>>
    BY <1>4 DEF StepInCheck, loopState
  <2> QED
    BY <2>1 DEF TurnInv, Skip
<1>5. CASE ReturnFromCheck
  <2>1. /\ lpc = "plants" /\ pc = "stop" /\ idx' = idx + 1
        /\ UNCHANGED <<ticks, settings, checked>>
    BY <1>5 DEF ReturnFromCheck
  <2>2. idx \in checked
    BY <2>1 DEF TimeInv, CheckedInv, InCheck
  <2>3. Skip(i)' <=> Skip(i)
    BY <2>1 DEF Skip
  <2>4. i < idx \/ i = idx
    BY <1>0, <2>1
  <2> QED
    BY <2>1, <2>2, <2>3, <2>4 DEF TurnInv
<1>6. CASE UNCHANGED vars
  BY <1>6 DEF vars, loopState, loopHistory, TurnInv, Skip
<1>7. CASE WakeUp \/ FetchSettings \/ HoldRound \/ EndPlants \/ Report \/ Sleep
  BY <1>7 DEF WakeUp, FetchSettings, HoldRound, EndPlants, Report, Sleep
<1> QED
  BY <1>1, <1>2, <1>3, <1>4, <1>5, <1>6, <1>7 DEF Next

\* The plant loop is left by one step only.
LEMMA LeavesPlants ==
  ASSUME [Next]_vars, lpc = "plants", lpc' \in {"report", "rest"}
  PROVE  EndPlants
<1>1. ~UNCHANGED vars
  BY DEF vars
<1>2. CASE WakeUp \/ FetchSettings \/ HoldRound \/ BeginRound \/ Report \/ Sleep
  BY <1>2 DEF WakeUp, FetchSettings, BeginRound, HoldRound, Report, Sleep
<1>3. CASE SkipPlant \/ CheckPlant \/ StepInCheck \/ ReturnFromCheck
  BY <1>3 DEF SkipPlant, CheckPlant, StepInCheck, ReturnFromCheck
<1> QED
  BY <1>1, <1>2, <1>3 DEF Next

(***************************************************************************)
(* No plant in rotation is passed over (main.cpp:397-409, the loop over    *)
(* the plants, and 415-418, the counters): after each round of the loop it *)
(* has been checked or is one round nearer to its turn, for any number of  *)
(* plants, any thresholds a byte can hold and any changes of settings.     *)
(***************************************************************************)
THEOREM NobodyPassedOver == Spec => DueChecked
<1>1. LoopTypeOK /\ RoundTypes /\ TurnInv /\ [Next]_vars
        => (lpc = "plants" /\ lpc' \in {"report", "rest"} =>
              \A i \in Plant : InRotation(i) =>
                \/ i \in checked
                \/ /\ ticks[i] < settings.ticksBetween[i]
                   /\ ticks'[i] = ticks[i] + 1)
  <2> SUFFICES ASSUME LoopTypeOK, RoundTypes, TurnInv, [Next]_vars,
                      lpc = "plants", lpc' \in {"report", "rest"},
                      NEW i \in Plant, InRotation(i), i \notin checked
               PROVE  /\ ticks[i] < settings.ticksBetween[i]
                      /\ ticks'[i] = ticks[i] + 1
    OBVIOUS
  <2>1. EndPlants
    BY LeavesPlants
  <2>2. /\ idx \in Nat /\ i \in Int /\ settings.numPlants \in Int
        /\ ticks[i] \in 0 .. ByteMod - 1
        /\ settings.ticksBetween[i] \in 0 .. ByteMod - 1
        /\ ByteMod \in Nat \ {0}
    BY CheckAssumption DEF RoundTypes, LoopTypeOK, Settings, Byte, Plant
  <2>3. i < idx
    BY <2>1, <2>2 DEF EndPlants, MorePlants, InRotation
  <2>4. ticks[i] < settings.ticksBetween[i]
    BY <2>3 DEF TurnInv, Skip, InRotation
  <2>5. ticks'[i] = (ticks[i] + 1) % ByteMod
    BY <2>1 DEF EndPlants, Ticked
  <2>6. (ticks[i] + 1) % ByteMod = ticks[i] + 1
    BY <2>2, <2>4
  <2> QED
    BY <2>4, <2>5, <2>6
<1>2. Spec => []TurnInv
  BY TurnInvInit, TurnInvStep, RoundInvariant, TimeInvariant, PTL DEF Spec
<1> QED
  BY <1>1, <1>2, LoopTypesInvariant, RoundInvariant, PTL DEF Spec, DueChecked

(***************************************************************************)
(* The period (main.cpp:453): after a round that fits into it the board    *)
(* wakes up early by at most 200 ms per charged second and late by at most *)
(* what is not charged, for every period and every width of the counters.  *)
(* With RoundsAreCharged that is all of the time accounting.               *)
(***************************************************************************)
THEOREM PeriodIsKept == Spec => TimeAccounting
<1> DEFINE InPeriod ==
      roundTime + 1000 * sleepSecs'
        \in 1000 * SleepPeriod - 200 * secondsPassed
              .. 1000 * SleepPeriod + Uncharged
<1>1. LoopTypeOK /\ RoundInv /\ RoundCharged /\ TimeInv /\ [Next]_vars
        => (lpc = "rest" /\ lpc' = "sleep" /\ roundTime <= 800 * IntMax
              /\ roundTime <= 800 * SleepPeriod => InPeriod)
  <2> SUFFICES ASSUME LoopTypeOK, RoundInv, RoundCharged, TimeInv,
                      [Next]_vars, lpc = "rest", lpc' = "sleep",
                      roundTime <= 800 * IntMax,
                      roundTime <= 800 * SleepPeriod
               PROVE  InPeriod
    OBVIOUS
  <2>1. Sleep
    <3>1. ~UNCHANGED vars
      BY DEF vars
    <3>2. CASE WakeUp \/ FetchSettings \/ HoldRound \/ BeginRound \/ Report
      BY <3>2 DEF WakeUp, FetchSettings, BeginRound, HoldRound, Report
    <3>3. CASE SkipPlant \/ CheckPlant \/ StepInCheck \/ ReturnFromCheck
                 \/ EndPlants
      BY <3>3
      DEF SkipPlant, CheckPlant, StepInCheck, ReturnFromCheck, EndPlants
    <3> QED
      BY <3>1, <3>2, <3>3 DEF Next
  <2>2. /\ secondsPassed \in Nat /\ roundTime \in Nat
        /\ SleepPeriod \in 0 .. WordMod - 1 /\ WordMod \in Nat \ {0}
        /\ Cardinality(checked) \in Nat /\ LongestSession \in Nat
    BY CheckedFacts, CheckAssumption, LoopAssumption
    DEF LoopTypeOK, TypeOK, Word, TimeInv
  <2>3. ~InCheck
    BY DEF RoundInv, PlaceInv, InCheck
  <2>4. /\ 800 * secondsPassed <= roundTime
        /\ roundTime <= 1000 * secondsPassed + Uncharged
    BY <2>3 DEF RoundCharged, MeasurementPauses, Second
  <2>5. Uncharged \in Nat
    BY <2>2 DEF Uncharged, MeasurementDuration, PowerOnDelay
  <2>6. SleepPeriod - secondsPassed \in 0 .. WordMod - 1
    BY <2>2, <2>4
  <2>7. sleepSecs' = SleepPeriod - secondsPassed
    <3>1. sleepSecs' = (SleepPeriod - secondsPassed) % WordMod
      BY <2>1 DEF Sleep
    <3> QED
      BY <2>2, <2>6, <3>1
  <2> QED
    BY <2>2, <2>4, <2>5, <2>7
<1>2. LoopTypeOK /\ RoundInv /\ RoundCharged /\ TimeInv /\ [Next]_vars
        => [lpc = "rest" /\ lpc' = "sleep"
              /\ roundTime <= MeasurementPauses * IntMax
              /\ roundTime <= MeasurementPauses * SleepPeriod =>
              roundTime + Second * sleepSecs' \in
                Second * SleepPeriod
                  - (Second - MeasurementPauses) * secondsPassed
                  .. Second * SleepPeriod + Uncharged]_vars
  BY <1>1 DEF MeasurementPauses, Second
<1> QED
  BY <1>2, LoopTypesInvariant, RoundInvariant, TimeInvariant, RoundsAreCharged,
     PTL DEF Spec, TimeAccounting, PeriodKept
----------------------------------------------------------------------------
(***************************************************************************)
(* The end of a round.  Every step of a round is a step nearer to the      *)
(* sleep, in the order of its sections, of the plants in one, of the call  *)
(* for a plant, and of what is left of that.                               *)
(***************************************************************************)
Stage ==
  CASE lpc = "fetch" -> 5 [] lpc = "begin" -> 4 [] lpc = "plants" -> 3
    [] lpc = "report" -> 2 [] lpc = "rest" -> 1 [] OTHER -> 0

PlantsLeft == MaxPlants - idx

Nearer ==
  \/ Stage' < Stage
  \/ /\ Stage' = Stage
     /\ \/ PlantsLeft' < PlantsLeft
        \/ /\ PlantsLeft' = PlantsLeft /\ pc' # "idle"
           /\ pc = "idle" \/ StepsLeft' < StepsLeft

LEMMA StepsAreNearer ==
  ASSUME LoopTypeOK, CallInv, Next, lpc # "sleep"
  PROVE  Nearer
<1>0. idx \in Nat /\ MaxPlants \in Nat
  BY CheckAssumption DEF LoopTypeOK
<1>1. CASE WakeUp
  BY <1>1 DEF WakeUp
<1>2. CASE FetchSettings \/ BeginRound \/ HoldRound \/ Report \/ Sleep
  BY <1>2 DEF FetchSettings, BeginRound, HoldRound, Report, Sleep, Nearer, Stage
<1>3. CASE EndPlants
  BY <1>3 DEF EndPlants, AtPlant, Nearer, Stage
<1>4. CASE SkipPlant
  <2>1. lpc = "plants" /\ lpc' = "plants" /\ idx' = idx + 1
    BY <1>4 DEF SkipPlant, AtPlant
  <2> QED
    BY <1>0, <2>1 DEF Nearer, Stage, PlantsLeft
<1>5. CASE CheckPlant
  <2>1. /\ lpc = "plants" /\ lpc' = "plants" /\ idx' = idx
        /\ pc = "idle" /\ pc' # "idle"
    BY <1>5 DEF CheckPlant, AtPlant, InCheck, Call
  <2> QED
    BY <1>0, <2>1 DEF Nearer, Stage, PlantsLeft
<1>6. CASE StepInCheck
  <2>1. /\ lpc = "plants" /\ lpc' = "plants" /\ idx' = idx
        /\ CheckStep /\ pc # "stop"
    BY <1>6 DEF StepInCheck, loopState
  <2>2. pc' # "idle" /\ StepsLeft' < StepsLeft
    BY <2>1, CheckStepFrame, StepsLeftStep DEF LoopTypeOK
  <2> QED
    BY <1>0, <2>1, <2>2 DEF Nearer, Stage, PlantsLeft
<1>7. CASE ReturnFromCheck
  <2>1. lpc = "plants" /\ lpc' = "plants" /\ idx' = idx + 1
    BY <1>7 DEF ReturnFromCheck
  <2> QED
    BY <1>0, <2>1 DEF Nearer, Stage, PlantsLeft
<1> QED
  BY <1>1, <1>2, <1>3, <1>4, <1>5, <1>6, <1>7 DEF Next

(***************************************************************************)
(* No round goes on for ever, whatever the settings and the readings: the  *)
(* board always gets to sleep.  With the fairness of the program and       *)
(* DueChecked it is what EveryPlantServed rests on.                        *)
(***************************************************************************)
THEOREM RoundsRunOut ==
  Spec => /\ [](Stage \in Nat /\ PlantsLeft \in Nat /\ StepsLeft \in Nat)
          /\ [][lpc # "sleep" => Nearer]_vars
<1>1. LoopTypeOK /\ RoundInv
        => Stage \in Nat /\ PlantsLeft \in Nat /\ StepsLeft \in Nat
  <2> SUFFICES ASSUME LoopTypeOK, RoundInv
               PROVE  Stage \in Nat /\ PlantsLeft \in Nat /\ StepsLeft \in Nat
    OBVIOUS
  <2>1. StepsLeft \in Nat
    BY StepsLeftType DEF LoopTypeOK, RoundInv
  <2>2. PlantsLeft \in Nat
    BY CheckAssumption DEF LoopTypeOK, PlantsLeft
  <2> QED
    BY <2>1, <2>2 DEF Stage
<1>2. LoopTypeOK /\ RoundInv /\ [Next]_vars
        => [lpc # "sleep" => Nearer]_vars
  BY StepsAreNearer DEF RoundInv
<1> QED
  BY <1>1, <1>2, LoopTypesInvariant, RoundInvariant, PTL DEF Spec
============================================================================
