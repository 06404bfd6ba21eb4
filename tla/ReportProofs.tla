---------------------------- MODULE ReportProofs ----------------------------
(***************************************************************************)
(* What a report of loop() says: every reservoir that was found empty in   *)
(* the round, and the plant whose irrigation raised the failure flag.      *)
(***************************************************************************)
EXTENDS IrrigationLoopProofs

Among(x, s) == \E k \in DOMAIN s : s[k] = x

Told(w) == <<w, "empty">> \in resCode

\* A reservoir whose empty reading is on its way to the result bits.
OnItsWay(w) == pc = "stop" /\ w = conf.sensor /\ ~hasWaterLeft

\* The failure flag was raised by the call before idx, or is not raised.
FailureKnown ==
  IF hardwareFailure THEN failedPlant = idx - 1 /\ idx > 0
                     ELSE failedPlant = -1

ProblemsInv ==
  /\ lpc \notin {"rest", "sleep"} => sent = <<>>
  /\ lpc \in {"fetch", "begin"} => emptySeen = {} /\ failedPlant = -1
  /\ lpc \in {"plants", "report"} =>
       /\ \A w \in emptySeen : w \in Sensor /\ (Told(w) \/ OnItsWay(w))
       /\ InCheck \/ emptySeen # {} => statusChanged
       /\ FailureKnown
  /\ lpc \in {"rest", "sleep"} => ProblemsReported

----------------------------------------------------------------------------
LEMMA ConcatMembers ==
  ASSUME NEW S, NEW s \in Seq(S), NEW t \in Seq(S), NEW x
  PROVE  /\ s \o t \in Seq(S)
         /\ Among(x, s \o t) <=> Among(x, s) \/ Among(x, t)
<1>1. /\ s \o t \in Seq(S) /\ Len(s \o t) = Len(s) + Len(t)
      /\ Len(s) \in Nat /\ Len(t) \in Nat
      /\ DOMAIN s = 1 .. Len(s) /\ DOMAIN t = 1 .. Len(t)
      /\ DOMAIN (s \o t) = 1 .. Len(s \o t)
  OBVIOUS
<1>2. ASSUME NEW k \in 1 .. Len(s)
      PROVE  (s \o t)[k] = s[k]
  BY <1>1
<1>3. ASSUME NEW k \in 1 .. Len(t)
      PROVE  (s \o t)[Len(s) + k] = t[k]
  BY <1>1
<1>4. Among(x, s \o t) => Among(x, s) \/ Among(x, t)
  <2> SUFFICES ASSUME NEW k \in DOMAIN (s \o t), (s \o t)[k] = x
               PROVE  Among(x, s) \/ Among(x, t)
    BY DEF Among
  <2>1. CASE k <= Len(s)
    BY <1>1, <1>2, <2>1 DEF Among
  <2>2. CASE k > Len(s)
    <3>1. k - Len(s) \in 1 .. Len(t) /\ k = Len(s) + (k - Len(s))
      BY <1>1, <2>2
    <3> QED
      BY <1>1, <1>3, <3>1 DEF Among
  <2> QED
    BY <1>1, <2>1, <2>2
<1>5. Among(x, s) => Among(x, s \o t)
  BY <1>1, <1>2 DEF Among
<1>6. Among(x, t) => Among(x, s \o t)
  <2> SUFFICES ASSUME NEW k \in DOMAIN t, t[k] = x
               PROVE  Among(x, s \o t)
    BY DEF Among
  <2>1. Len(s) + k \in DOMAIN (s \o t)
    BY <1>1
  <2> QED
    BY <1>1, <1>3, <2>1 DEF Among
<1> QED
  BY <1>1, <1>4, <1>5, <1>6

Messages == [type : {"status", "error", "warn", "failure"}, label : Int]

LEMMA SingleMessage ==
  ASSUME NEW m \in Messages
  PROVE  <<m>> \in Seq(Messages) /\ \A x : Among(x, <<m>>) <=> x = m
BY DEF Among

LEMMA NoMessage == <<>> \in Seq(Messages) /\ \A x : ~Among(x, <<>>)
BY DEF Among

LEMMA WaterReportSays ==
  ASSUME NEW w \in Sensor
  PROVE  /\ WaterReport(w) \in Seq(Messages)
         /\ Told(w) => Among(Msg("error", w + 1), WaterReport(w))
         /\ \A n : ~Among(Msg("failure", n), WaterReport(w))
<1>1. Msg("error", w + 1) \in Messages /\ Msg("warn", w) \in Messages
  BY DEF Messages, Msg, Sensor
<1>2. \A n : /\ Msg("failure", n) # Msg("error", w + 1)
             /\ Msg("failure", n) # Msg("warn", w)
  BY DEF Msg
<1> QED
  BY <1>1, <1>2, SingleMessage, NoMessage DEF WaterReport, Told

(***************************************************************************)
(* The messages of a report, read as a set.                                *)
(***************************************************************************)
LEMMA StatusReportSays ==
  LET M == <<Msg("status", 0)>> \o WaterReport(0) \o WaterReport(1)
  IN /\ M \in Seq(Messages)
     /\ \A w \in Sensor : Told(w) => Among(Msg("error", w + 1), M)
     /\ \A n : ~Among(Msg("failure", n), M)
<1> DEFINE H == <<Msg("status", 0)>>
           K == H \o WaterReport(0)
           M == K \o WaterReport(1)
<1>1. 0 \in Sensor /\ 1 \in Sensor /\ \A w \in Sensor : w = 0 \/ w = 1
  BY DEF Sensor
<1>2. H \in Seq(Messages) /\ \A n : ~Among(Msg("failure", n), H)
  <2>1. Msg("status", 0) \in Messages
    BY DEF Messages, Msg
  <2>2. \A n : Msg("failure", n) # Msg("status", 0)
    BY DEF Msg
  <2> QED
    BY <2>1, <2>2, SingleMessage
<1>3. /\ K \in Seq(Messages)
      /\ Told(0) => Among(Msg("error", 0 + 1), K)
      /\ \A n : ~Among(Msg("failure", n), K)
  <2> HIDE DEF H
  <2> QED
    BY <1>1, <1>2, WaterReportSays, ConcatMembers
<1>4. /\ M \in Seq(Messages)
      /\ Told(0) => Among(Msg("error", 0 + 1), M)
      /\ Told(1) => Among(Msg("error", 1 + 1), M)
      /\ \A n : ~Among(Msg("failure", n), M)
  <2> HIDE DEF K
  <2> QED
    BY <1>1, <1>3, WaterReportSays, ConcatMembers
<1> QED
  BY <1>1, <1>4

LEMMA ReportSays ==
  ASSUME idx \in Nat
  PROVE  /\ \A w \in Sensor : statusChanged /\ Told(w) =>
              Among(Msg("error", w + 1), ReportMessages)
         /\ \A n : Among(Msg("failure", n), ReportMessages)
                     <=> hardwareFailure /\ n = idx
<1> DEFINE A == IF statusChanged
                  THEN <<Msg("status", 0)>> \o WaterReport(0) \o WaterReport(1)
                  ELSE <<>>
           B == IF hardwareFailure THEN <<Msg("failure", (idx - 1) + 1)>>
                                   ELSE <<>>
<1>1. /\ A \in Seq(Messages)
      /\ \A w \in Sensor : statusChanged /\ Told(w) => Among(Msg("error", w + 1), A)
      /\ \A n : ~Among(Msg("failure", n), A)
  BY StatusReportSays, NoMessage
<1>2. /\ B \in Seq(Messages)
      /\ \A n : Among(Msg("failure", n), B) <=> hardwareFailure /\ n = idx
  <2>1. (idx - 1) + 1 = idx /\ Msg("failure", idx) \in Messages
    BY DEF Msg, Messages
  <2>2. \A n : Msg("failure", n) = Msg("failure", idx) <=> n = idx
    BY DEF Msg
  <2> QED
    BY <2>1, <2>2, SingleMessage, NoMessage
<1>3. ReportMessages = A \o B
  BY DEF ReportMessages
<1> HIDE DEF A, B
<1>4. \A x : Among(x, A \o B) <=> Among(x, A) \/ Among(x, B)
  BY <1>1, <1>2, ConcatMembers
<1> QED
  BY <1>1, <1>2, <1>3, <1>4

----------------------------------------------------------------------------
(***************************************************************************)
(* The invariant through the round.                                        *)
(***************************************************************************)
LEMMA ProblemsInit == Init => ProblemsInv
BY DEF Init, CheckInit, ProblemsInv, ProblemsReported, EmptyReported,
       FailureReported

LEMMA ProblemsSame ==
  ASSUME ProblemsInv,
         UNCHANGED <<pc, conf, hasWaterLeft, hardwareFailure, lpc, idx,
                     statusChanged, resCode, sent, emptySeen, failedPlant>>
  PROVE  ProblemsInv'
BY DEF ProblemsInv, Told, OnItsWay, FailureKnown, InCheck, ProblemsReported,
       EmptyReported, FailureReported, Sent

\* A step of a call short of its return.
LEMMA ProblemsCheck ==
  ASSUME RoundTypes, RoundInv, ProblemsInv, StepInCheck
  PROVE  ProblemsInv'
<1>1. /\ lpc = "plants" /\ lpc' = "plants" /\ CheckStep
      /\ pc # "stop" /\ pc # "idle"
      /\ UNCHANGED <<idx, statusChanged, resCode, sent, failedPlant>>
  BY DEF StepInCheck, loopState
<1>2. UNCHANGED <<conf, hardwareFailure>> /\ InCheck /\ InCheck'
  BY <1>1, CheckStepFrame DEF InCheck
<1>3. conf.sensor \in Sensor /\ conf.empty \in Nat
  <2>1. conf \in Configs
    BY <1>2, SettingsFacts
    DEF RoundTypes, RoundInv, PlaceInv, MorePlants, InCheck
  <2> QED
    BY <2>1, CheckAssumption, ConfigsAreConfig DEF Config, Byte
<1>4. ASSUME pc = "water", water' <= conf.empty
      PROVE  pc' = "stop" /\ ~hasWaterLeft'
  <2>1. PICK x \in Level : MeasureWater(x)
    BY <1>1, <1>4 DEF CheckStep, MeasureSoil, EndBurst, StopIrrigation
  <2>2. ~WaterLeft(x)
    BY <1>3, <1>4, <2>1, CheckAssumption DEF MeasureWater, WaterLeft, Level
  <2> QED
    BY <2>1, <2>2 DEF MeasureWater, WaterEmpty
<1>5. \A w \in emptySeen : w \in Sensor /\ Told(w)
  BY <1>1 DEF ProblemsInv, OnItsWay
<1>6. \A w \in emptySeen' : w \in Sensor /\ (Told(w) \/ OnItsWay(w))'
  <2>1. CASE pc = "water" /\ water' <= conf.empty
    <3>1. emptySeen' = emptySeen \cup {conf.sensor}
      BY <2>1 DEF StepInCheck
    <3> QED
      BY <1>1, <1>2, <1>3, <1>4, <1>5, <2>1, <3>1 DEF Told, OnItsWay
  <2>2. CASE ~(pc = "water" /\ water' <= conf.empty)
    <3>1. emptySeen' = emptySeen
      BY <2>2 DEF StepInCheck
    <3> QED
      BY <1>1, <1>5, <3>1 DEF Told
  <2> QED
    BY <2>1, <2>2
<1>7. statusChanged' /\ FailureKnown' /\ sent' = <<>>
  BY <1>1, <1>2 DEF ProblemsInv, FailureKnown
<1> QED
  BY <1>1, <1>6, <1>7 DEF ProblemsInv

LEMMA ProblemsReturn ==
  ASSUME RoundTypes, RoundInv, ProblemsInv, ReturnFromCheck
  PROVE  ProblemsInv'
<1>1. /\ lpc = "plants" /\ lpc' = "plants" /\ StopIrrigation /\ InCheck
      /\ UNCHANGED <<statusChanged, sent, emptySeen>>
      /\ idx' = idx + 1 /\ resCode' = resCode \cup retCode'
      /\ failedPlant' = IF hardwareFailure' THEN plant ELSE failedPlant
  BY DEF ReturnFromCheck, CheckStep, MeasureSoil, MeasureWater, EndBurst,
         InCheck
<1>2. plant = idx /\ ~hardwareFailure /\ idx \in Nat /\ idx \in Int
  BY <1>1 DEF RoundInv, PlaceInv, MorePlants, RoundTypes
<1>3. \A w \in emptySeen : w \in Sensor /\ Told(w)'
  <2>1. ~hasWaterLeft => <<conf.sensor, "empty">> \in retCode'
    BY <1>1 DEF StopIrrigation, RetCode
  <2> QED
    BY <1>1, <2>1 DEF ProblemsInv, Told, OnItsWay
<1>4. FailureKnown'
  <2>1. hardwareFailure' => failedPlant' = idx' - 1 /\ idx' > 0
    BY <1>1, <1>2
  <2>2. ~hardwareFailure' => failedPlant' = -1
    BY <1>1, <1>2 DEF ProblemsInv, FailureKnown
  <2> QED
    BY <2>1, <2>2 DEF FailureKnown
<1> QED
  BY <1>1, <1>3, <1>4 DEF ProblemsInv, InCheck

LEMMA ProblemsEnd ==
  ASSUME RoundTypes, RoundInv, ProblemsInv, EndPlants
  PROVE  ProblemsInv'
<1>1. /\ lpc = "plants" /\ pc = "idle" /\ pc' = "idle"
      /\ UNCHANGED <<idx, resCode, sent, emptySeen, failedPlant,
                     hardwareFailure>>
      /\ lpc' \in {"report", "rest"} /\ (statusChanged => statusChanged')
  BY DEF EndPlants, AtPlant, InCheck, results, loopHistory
<1>2. sent' = <<>>
  BY <1>1 DEF ProblemsInv
<1>3. \A w \in emptySeen' : w \in Sensor /\ (Told(w) \/ OnItsWay(w))'
  BY <1>1 DEF ProblemsInv, Told, OnItsWay
<1>4. emptySeen' # {} => statusChanged'
  BY <1>1 DEF ProblemsInv
<1>5. FailureKnown'
  BY <1>1 DEF ProblemsInv, FailureKnown
<1> QED
  BY <1>1, <1>2, <1>3, <1>4, <1>5
  DEF ProblemsInv, InCheck, ProblemsReported, EmptyReported, FailureReported

LEMMA ProblemsReport ==
  ASSUME RoundTypes, RoundInv, ProblemsInv, Report
  PROVE  ProblemsInv'
<1>1. /\ lpc = "report" /\ lpc' = "rest" /\ ~InCheck
      /\ UNCHANGED <<emptySeen, failedPlant>>
      /\ sent' = ReportMessages \/ sent' = <<>>
  BY DEF Report, loopHistory, RoundInv, PlaceInv
<1>2. idx \in Nat /\ idx \in Int /\ hardwareFailure \in BOOLEAN
  BY DEF RoundTypes, TypeOK
<1>3. \A w \in emptySeen : w \in Sensor /\ Told(w) /\ statusChanged
  BY <1>1 DEF ProblemsInv, OnItsWay, InCheck
<1>4. hardwareFailure <=> failedPlant # -1
  BY <1>1, <1>2 DEF ProblemsInv, FailureKnown
<1>5. hardwareFailure => idx = failedPlant + 1
  BY <1>1, <1>2 DEF ProblemsInv, FailureKnown
<1>6. ASSUME sent' = ReportMessages PROVE ProblemsReported'
  <2>1. \A t, n : Sent(t, n)' <=> Among(Msg(t, n), ReportMessages)
    BY <1>6 DEF Sent, Among, Msg
  <2>2. \A w \in emptySeen' : Sent("error", w + 1)'
    BY <1>1, <1>2, <1>3, <2>1, ReportSays
  <2>3. \A n \in 0 .. MaxPlants + 1 :
          Sent("failure", n)' <=> failedPlant' # -1 /\ n = failedPlant' + 1
    BY <1>1, <1>2, <1>4, <1>5, <2>1, ReportSays
  <2> QED
    BY <2>2, <2>3 DEF ProblemsReported, EmptyReported, FailureReported
<1>7. ASSUME sent' = <<>> PROVE ProblemsReported'
  BY <1>7 DEF ProblemsReported, EmptyReported, FailureReported
<1>8. ProblemsReported'
  BY <1>1, <1>6, <1>7
<1> QED
  BY <1>1, <1>8 DEF ProblemsInv

LEMMA ProblemsStep ==
  RoundTypes /\ RoundInv /\ ProblemsInv /\ [Next]_vars => ProblemsInv'
<1> SUFFICES ASSUME RoundTypes, RoundInv, ProblemsInv, [Next]_vars
             PROVE  ProblemsInv'
  OBVIOUS
<1>1. CASE WakeUp
  BY <1>1 DEF WakeUp, ProblemsInv
<1>2. CASE FetchSettings
  BY <1>2 DEF FetchSettings, ProblemsInv, loopHistory
<1>3. CASE BeginRound
  <2>1. ~InCheck /\ lpc = "begin" /\ ~hardwareFailure
    BY <1>3 DEF BeginRound, RoundInv, PlaceInv
  <2> QED
    BY <1>3, <2>1
    DEF BeginRound, ProblemsInv, loopHistory, InCheck, FailureKnown
<1>4. CASE HoldRound
  BY <1>4 DEF HoldRound, ProblemsInv, loopHistory, ProblemsReported,
              EmptyReported, FailureReported
<1>5. CASE SkipPlant
  <2>1. /\ lpc = "plants" /\ ~hardwareFailure /\ pc = "idle"
        /\ UNCHANGED <<checkVars, lpc, statusChanged, resCode, sent,
                       emptySeen, failedPlant>>
    BY <1>5 DEF SkipPlant, AtPlant, MorePlants, InCheck, loopHistory
  <2> QED
    BY <2>1 DEF ProblemsInv, InCheck, Told, OnItsWay, FailureKnown, checkVars,
                frame, results
<1>6. CASE CheckPlant
  <2>1. /\ lpc = "plants" /\ lpc' = "plants" /\ pc = "idle"
        /\ ~hardwareFailure /\ ~hardwareFailure' /\ statusChanged'
        /\ UNCHANGED <<resCode, sent, emptySeen, failedPlant>>
    BY <1>6 DEF CheckPlant, AtPlant, MorePlants, InCheck, Call, results
  <2> QED
    BY <2>1 DEF ProblemsInv, InCheck, Told, OnItsWay, FailureKnown
<1>7. CASE StepInCheck
  BY <1>7, ProblemsCheck
<1>8. CASE ReturnFromCheck
  BY <1>8, ProblemsReturn
<1>9. CASE EndPlants
  BY <1>9, ProblemsEnd
<1>10. CASE Report
  BY <1>10, ProblemsReport
<1>11. CASE Sleep
  BY <1>11 DEF Sleep, ProblemsInv, loopHistory, ProblemsReported,
               EmptyReported, FailureReported, Sent
<1>12. CASE UNCHANGED vars
  BY <1>12, ProblemsSame DEF vars, checkVars, frame, results, loopState,
                             loopHistory
<1> QED
  BY <1>1, <1>2, <1>3, <1>4, <1>5, <1>6, <1>7, <1>8, <1>9, <1>10, <1>11,
     <1>12 DEF Next

(***************************************************************************)
(* Whatever went wrong in a round, shared reservoirs included, a report    *)
(* that gets through tells of it, and of no other failed plant             *)
(* (main.cpp:410, 439; lan.cpp).                                           *)
(***************************************************************************)
THEOREM ReportsAreComplete == Spec => []ProblemsReported
<1>1. RoundTypes /\ RoundInv /\ ProblemsInv /\ [Next]_vars => ProblemsInv'
  BY ProblemsStep
<1>2. RoundTypes /\ RoundInv /\ ProblemsInv => ProblemsReported
  BY DEF ProblemsInv, ProblemsReported, EmptyReported, FailureReported,
         RoundTypes, PlaceInv
<1> QED
  BY <1>1, <1>2, ProblemsInit, RoundInvariant, PTL DEF Spec
============================================================================
