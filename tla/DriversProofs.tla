--------------------------- MODULE DriversProofs ---------------------------
(***************************************************************************)
(* Theorems about the hardware routines, for every width of the register,  *)
(* every watchdog period and every duration.                               *)
(***************************************************************************)
EXTENDS Drivers, FiniteSetTheorems, WellFoundedInduction, TLAPS

----------------------------------------------------------------------------
(***************************************************************************)
(* The program is one thread: a step is a step of at most one part.        *)
(***************************************************************************)
LEMMA OnePartSteps ==
  [DriversNext]_driverVars =>
    /\ [ShiftNext]_shiftVars /\ [SleepNext]_sleepVars
    /\ [MeasureNext]_measureVars
BY DEF DriversNext, driverVars, CallUpdate, CallSleep, CallMeasurement,
       RunRoutine, ShiftNext, SleepNext, MeasureNext

----------------------------------------------------------------------------
(***************************************************************************)
(* The shift register.  After b shifts the upper b bits of the chain are   *)
(* the lower b bits of the word, and the latch is filled from a word.      *)
(***************************************************************************)
Arrived ==
  \A i \in Bits : i >= Width - bit =>
    (i \in chain <=> i - (Width - bit) \in newValue)

ShiftInv ==
  /\ ShiftTypeOK
  /\ stage # "ready" => newValue = NoUpdate
  /\ newValue # NoUpdate => Arrived
  /\ ShiftIdle => latched \in Words

LEMMA WordsAreSets == Words \subseteq SUBSET Bits /\ NoUpdate \notin Words
BY ShiftAssumption DEF Bits, NoUpdate

LEMMA ShiftInvInit == ShiftInit => ShiftInv
BY ShiftAssumption DEF ShiftInit, ShiftInv, ShiftTypeOK, ShiftIdle

\* A whole word has arrived after as many shifts as there are bits.
LEMMA AllArrived ==
  ASSUME ShiftInv, newValue # NoUpdate, bit = Width
  PROVE  chain = newValue
<1>1. newValue \subseteq Bits /\ chain \subseteq Bits
  BY WordsAreSets DEF ShiftInv, ShiftTypeOK
<1>2. \A i \in Bits : i >= Width - bit /\ i - (Width - bit) = i
  BY ShiftAssumption DEF Bits
<1>3. \A i \in Bits : i \in chain <=> i \in newValue
  BY <1>2 DEF ShiftInv, Arrived
<1> QED
  BY <1>1, <1>3

LEMMA ShiftInvStep == ShiftInv /\ [ShiftNext]_shiftVars => ShiftInv'
<1> SUFFICES ASSUME ShiftInv, [ShiftNext]_shiftVars PROVE ShiftInv'
  OBVIOUS
<1> USE DEF ShiftInv
<1>1. CASE PinModeEnable
  BY <1>1 DEF PinModeEnable, ShiftTypeOK, ShiftIdle
<1>2. CASE InitDisable
  BY <1>2 DEF InitDisable, ShiftTypeOK, ShiftIdle
<1>3. CASE InitUpdate
  <2>1. newValue' = {} /\ bit' = 0 /\ stage' = "ready" /\ chain' = chain
    BY <1>3 DEF InitUpdate
  <2>2. ShiftTypeOK'
    BY <1>3, <2>1, ShiftAssumption DEF InitUpdate, ShiftTypeOK
  <2>3. Arrived'
    BY <2>1, ShiftAssumption DEF Arrived, Bits
  <2> QED
    BY <2>1, <2>2, <2>3, ShiftAssumption, WordsAreSets DEF ShiftIdle
<1>4. ASSUME NEW v \in Words, BeginUpdate(v)
      PROVE  ShiftInv'
  <2>1. newValue' = v /\ bit' = 0 /\ stage' = "ready" /\ chain' = chain
    BY <1>4 DEF BeginUpdate, ShiftIdle
  <2>2. ShiftTypeOK'
    BY <1>4, <2>1, ShiftAssumption DEF BeginUpdate, ShiftTypeOK
  <2>3. Arrived'
    BY <2>1, ShiftAssumption DEF Arrived, Bits
  <2> QED
    BY <2>1, <2>2, <2>3, WordsAreSets DEF ShiftIdle
<1>5. CASE ShiftBit
  <2>1. /\ newValue' = newValue /\ newValue # NoUpdate /\ stage' = stage
        /\ bit' = bit + 1 /\ bit \in 0 .. Width - 1
        /\ chain' = {i \in Bits : IF i = Width - 1 THEN bit \in newValue
                                                   ELSE i + 1 \in chain}
    BY <1>5, ShiftAssumption DEF ShiftBit, Shifted, ShiftTypeOK
  <2>2. ShiftTypeOK'
    BY <1>5, <2>1, ShiftAssumption DEF ShiftBit, ShiftTypeOK
  <2>3. Arrived'
    <3> SUFFICES ASSUME NEW i \in Bits, i >= Width - bit'
                 PROVE  i \in chain' <=> i - (Width - bit') \in newValue
      BY <2>1 DEF Arrived
    <3>1. i - (Width - bit') = i + 1 - (Width - bit)
      BY <2>1, ShiftAssumption DEF Bits
    <3>2. CASE i = Width - 1
      <4>1. i + 1 - (Width - bit) = bit
        BY <3>2, <2>1, ShiftAssumption DEF Bits
      <4> QED
        BY <4>1, <3>1, <3>2, <2>1
    <3>3. CASE i # Width - 1
      <4>1. i + 1 \in Bits /\ i + 1 >= Width - bit
        BY <3>3, <2>1, ShiftAssumption DEF Bits
      <4>2. \A j \in Bits : j >= Width - bit =>
              (j \in chain <=> j - (Width - bit) \in newValue)
        BY <2>1 DEF Arrived
      <4>3. i + 1 \in chain <=> i + 1 - (Width - bit) \in newValue
        BY <4>1, <4>2, <2>1, ShiftAssumption DEF Bits
      <4> QED
        BY <4>3, <3>1, <3>3, <2>1
    <3> QED
      BY <3>2, <3>3
  <2> QED
    BY <2>1, <2>2, <2>3 DEF ShiftIdle
<1>6. CASE Latch
  <2>1. latched' = newValue /\ newValue \in Words /\ newValue' = NoUpdate
    BY <1>6, AllArrived DEF Latch, ShiftTypeOK
  <2>2. ShiftTypeOK'
    BY <1>6, <2>1, WordsAreSets, ShiftAssumption DEF Latch, ShiftTypeOK
  <2> QED
    BY <2>1, <2>2
<1>7. CASE EnableOutput \/ DisableOutput
  BY <1>7 DEF EnableOutput, DisableOutput, ShiftTypeOK, ShiftIdle
<1>8. CASE UNCHANGED shiftVars
  BY <1>8 DEF shiftVars, ShiftTypeOK, ShiftIdle, Arrived
<1> QED
  BY <1>1, <1>2, <1>3, <1>4, <1>5, <1>6, <1>7, <1>8
  DEF ShiftNext, ShiftStart, ShiftStep

LEMMA ShiftInvImplies == ShiftInv => NoPowerOnGarbage
BY ShiftAssumption DEF ShiftInv, NoPowerOnGarbage, Supplied

(***************************************************************************)
(* Every step of the register is a step of the power outputs, or a stutter *)
(* while the bits travel.                                                  *)
(***************************************************************************)
LEMMA OutputsRefined ==
  ShiftInv /\ [ShiftNext]_shiftVars
    => [Outputs!OutputsNext]_(Outputs!outputVars)
<1> SUFFICES ASSUME ShiftInv, [ShiftNext]_shiftVars
             PROVE  [Outputs!OutputsNext]_(Outputs!outputVars)
  OBVIOUS
<1> USE DEF Outputs!OutputsNext, Outputs!outputVars
<1>1. CASE PinModeEnable
  BY <1>1 DEF PinModeEnable, ShiftInv, Outputs!Connect
<1>2. CASE InitDisable
  BY <1>2 DEF InitDisable, ShiftInv, Outputs!Connect
<1>3. CASE InitUpdate
  BY <1>3 DEF InitUpdate, ShiftInv, Outputs!AskFor
<1>4. ASSUME NEW v \in Words, BeginUpdate(v)
      PROVE  [Outputs!OutputsNext]_(Outputs!outputVars)
  BY <1>4, WordsAreSets DEF BeginUpdate, ShiftIdle, Outputs!AskFor
<1>5. CASE ShiftBit
  BY <1>5 DEF ShiftBit
<1>6. CASE Latch
  BY <1>6, AllArrived DEF Latch, Outputs!TakeEffect
<1>7. CASE EnableOutput \/ DisableOutput
  BY <1>7 DEF EnableOutput, DisableOutput, ShiftIdle, Outputs!Connect
<1>8. CASE UNCHANGED shiftVars
  BY <1>8 DEF shiftVars
<1> QED
  BY <1>1, <1>2, <1>3, <1>4, <1>5, <1>6, <1>7, <1>8
  DEF ShiftNext, ShiftStart, ShiftStep

----------------------------------------------------------------------------
(***************************************************************************)
(* The sleep.  What has been slept and what is left add up to the duration *)
(* at each place, and only the way out has restored the modules.           *)
(***************************************************************************)
SleepInv ==
  /\ SleepTypeOK
  /\ phase = "awake" =>
       slept = 0 /\ duration = 0 /\ prr = Unused /\ adcOn /\ ~watchdogOn
  /\ phase = "ticks" =>
       /\ ticked < needed /\ slept = ticked * WatchdogSec
       /\ needed * WatchdogSec + remaining = duration
       /\ prevPRR = Unused /\ watchdogOn
  /\ phase = "delay" =>
       slept + remaining = duration /\ prevPRR = Unused /\ ~watchdogOn
  /\ phase = "wake" =>
       slept = duration /\ prr = Unused /\ adcOn /\ ~watchdogOn

\* Division with remainder.
LEMMA Split ==
  ASSUME NEW d \in Nat
  PROVE  /\ d \div WatchdogSec \in 0 .. d
         /\ d - (d \div WatchdogSec) * WatchdogSec \in 0 .. WatchdogSec - 1
BY SleepAssumption

LEMMA SleepInvInit == SleepInit => SleepInv
<1> SUFFICES ASSUME SleepInit PROVE SleepInv
  OBVIOUS
<1>1. 0 \in 0 .. WordMod - 1 /\ 0 \in 0 .. ByteMod - 1
        /\ 0 \in 0 .. WordMod + WatchdogSec
  BY SleepAssumption
<1>2. Unused \subseteq Modules /\ {} \subseteq Modules
  BY DEF Unused, Modules
<1>3. SleepTypeOK
  BY <1>1, <1>2 DEF SleepInit, SleepTypeOK
<1> QED
  BY <1>3 DEF SleepInit, SleepInv

LEMMA SleepInvStep == SleepInv /\ [SleepNext]_sleepVars => SleepInv'
<1> SUFFICES ASSUME SleepInv, [SleepNext]_sleepVars PROVE SleepInv'
  OBVIOUS
<1>1. ASSUME NEW d \in Durations, BeginSleep(d)
      PROVE  SleepInv'
  <2>1. d \in Nat /\ d < WordMod /\ duration' = d
    BY <1>1, SleepAssumption DEF BeginSleep
  <2>2. needed' \in 0 .. d /\ d - needed' * WatchdogSec \in 0 .. WatchdogSec - 1
    BY <1>1, <2>1, Split DEF BeginSleep
  <2>3. remaining' = d - needed' * WatchdogSec
    <3>1. PICK rest \in 0 .. WatchdogSec - 1 :
            rest = d - needed' * WatchdogSec
      BY <2>2
    <3>2. rest % ByteMod = rest
      BY <3>1, SleepAssumption
    <3> QED
      BY <3>1, <3>2, <1>1 DEF BeginSleep
  <2>4. remaining' \in 0 .. ByteMod - 1 /\ needed' * WatchdogSec + remaining' = d
    <3>1. needed' \in Int /\ WatchdogSec \in Int
      BY <2>1, <2>2, SleepAssumption
    <3>2. remaining' \in Int /\ 0 <= remaining' /\ remaining' < WatchdogSec
      BY <2>2, <2>3, <3>1
    <3>3. needed' * WatchdogSec \in Int
      BY <3>1
    <3>4. needed' * WatchdogSec + remaining' = d
      BY <2>1, <2>3, <3>3
    <3> QED
      BY <3>2, <3>4, SleepAssumption
  <2>5. phase = "awake" /\ prr = Unused /\ ~watchdogOn /\ watchdogOn \in BOOLEAN
    BY <1>1 DEF BeginSleep, SleepInv, SleepTypeOK
  <2>6. /\ duration' \in 0 .. WordMod - 1 /\ needed' \in 0 .. WordMod - 1
        /\ 0 \in 0 .. WordMod - 1 /\ 0 \in 0 .. WordMod + WatchdogSec
    BY <2>1, <2>2, SleepAssumption
  <2>7. SleepTypeOK'
    <3>1. /\ ticked' = 0 /\ slept' = 0 /\ prr' = Modules /\ prevPRR' = Unused
          /\ adcOn' = FALSE
      BY <1>1, <2>5 DEF BeginSleep
    <3>2. phase' \in {"ticks", "delay"} /\ watchdogOn' \in BOOLEAN
      BY <1>1, <2>5 DEF BeginSleep, StartWatchDogTimer
    <3>3. Unused \subseteq Modules
      BY DEF Unused, Modules
    <3> QED
      BY <2>4, <2>6, <3>1, <3>2, <3>3 DEF SleepTypeOK
  <2>8. CASE needed' # 0
    <3>1. 0 < needed' /\ 0 = 0 * WatchdogSec
      BY <2>2, <2>8, <2>1, SleepAssumption
    <3>2. /\ phase' = "ticks" /\ ticked' = 0 /\ slept' = 0
          /\ prevPRR' = Unused /\ watchdogOn'
      BY <1>1, <2>5, <2>8 DEF BeginSleep, StartWatchDogTimer
    <3> QED
      BY <3>1, <3>2, <2>1, <2>4, <2>7 DEF SleepInv
  <2>9. CASE needed' = 0
    <3>1. slept' + remaining' = d
      BY <1>1, <2>4, <2>9, SleepAssumption DEF BeginSleep
    <3>2. phase' = "delay" /\ prevPRR' = Unused /\ ~watchdogOn'
      BY <1>1, <2>5, <2>9 DEF BeginSleep
    <3> QED
      BY <3>1, <3>2, <2>1, <2>7 DEF SleepInv
  <2> QED
    BY <2>8, <2>9
<1>2. CASE WatchdogTick
  <2>1. /\ ticked \in Nat /\ needed \in Nat /\ ticked + 1 <= needed
        /\ needed < WordMod /\ remaining \in Nat /\ duration \in Nat
        /\ slept = ticked * WatchdogSec
        /\ needed * WatchdogSec + remaining = duration
    BY <1>2, SleepAssumption DEF WatchdogTick, SleepInv, SleepTypeOK
  <2>2. ticked' = ticked + 1
    BY <1>2, <2>1, SleepAssumption DEF WatchdogTick
  <2>3. (ticked + 1) * WatchdogSec <= needed * WatchdogSec
    BY <2>1, SleepAssumption
  <2>4. slept + WatchdogSec = (ticked + 1) * WatchdogSec
    BY <2>1, SleepAssumption
  <2>5. slept' = ticked' * WatchdogSec
    <3>1. slept + WatchdogSec <= duration + WatchdogSec
      BY <2>1, <2>3, <2>4, SleepAssumption
    <3> QED
      BY <3>1, <2>1, <2>2, <2>4, <1>2, SleepAssumption
      DEF WatchdogTick, EnterSleepMode, Pass
  <2>6. slept' \in 0 .. duration
    BY <2>1, <2>2, <2>3, <2>4, <2>5, SleepAssumption
  <2>7. /\ ticked' \in 0 .. WordMod - 1 /\ ticked' <= needed
        /\ slept' \in 0 .. WordMod + WatchdogSec
    BY <2>1, <2>2, <2>6, SleepAssumption DEF SleepInv, SleepTypeOK
  <2>8. UNCHANGED <<duration, needed, remaining, prr, prevPRR, adcOn>>
    BY <1>2 DEF WatchdogTick
  <2>9. prevPRR = Unused /\ phase = "ticks"
    BY <1>2 DEF WatchdogTick, SleepInv
  <2>10. CASE ticked' = needed
    <3>1. phase' = "delay" /\ ~watchdogOn' /\ watchdogOn' \in BOOLEAN
      BY <1>2, <2>10 DEF WatchdogTick, StopWatchDogTimer
    <3>2. slept' + remaining' = duration'
      BY <2>1, <2>5, <2>8, <2>10
    <3>3. SleepTypeOK'
      BY <2>7, <2>8, <3>1 DEF SleepInv, SleepTypeOK
    <3> QED
      BY <3>1, <3>2, <3>3, <2>8, <2>9 DEF SleepInv
  <2>11. CASE ticked' # needed
    <3>1. phase' = "ticks" /\ watchdogOn' = watchdogOn
      BY <1>2, <2>9, <2>11 DEF WatchdogTick
    <3>2. ticked' < needed'
      BY <2>1, <2>2, <2>7, <2>8, <2>11
    <3>3. SleepTypeOK'
      BY <2>7, <2>8, <3>1 DEF SleepInv, SleepTypeOK
    <3> QED
      BY <3>1, <3>2, <3>3, <2>1, <2>5, <2>8, <2>9 DEF SleepInv
  <2> QED
    BY <2>10, <2>11
<1>3. CASE DelaySecond
  BY <1>3, SleepAssumption
  DEF DelaySecond, Pass, SleepInv, SleepTypeOK
<1>4. CASE EndDelay
  BY <1>4, SleepAssumption DEF EndDelay, SleepInv, SleepTypeOK
<1>5. CASE ReturnFromSleep
  BY <1>5, SleepAssumption DEF ReturnFromSleep, SleepInv, SleepTypeOK
<1>6. CASE UNCHANGED sleepVars
  BY <1>6 DEF sleepVars, SleepInv, SleepTypeOK
<1> QED
  BY <1>1, <1>2, <1>3, <1>4, <1>5, <1>6 DEF SleepNext, SleepStep

LEMMA SleepInvImplies == SleepInv => SleepExact
<1> SUFFICES ASSUME SleepInv PROVE SleepExact
  OBVIOUS
<1>1. CASE phase = "ticks"
  <2>1. ticked * WatchdogSec <= needed * WatchdogSec
    BY <1>1, SleepAssumption DEF SleepInv, SleepTypeOK
  <2>2. slept <= duration
    BY <1>1, <2>1, SleepAssumption DEF SleepInv, SleepTypeOK
  <2> QED
    BY <1>1, <2>2 DEF SleepInv, SleepExact
<1>2. CASE phase # "ticks"
  BY <1>2, SleepAssumption DEF SleepInv, SleepTypeOK, SleepExact
<1> QED
  BY <1>1, <1>2

----------------------------------------------------------------------------
(***************************************************************************)
(* The sort: every index of the result holds a reading, and the readings   *)
(* below and up to it number as they should.                               *)
(***************************************************************************)
LEMMA LeastNat ==
  ASSUME NEW S, S \subseteq Nat, S # {}
  PROVE  \E x \in S : \A y \in S : x <= y
<1>1. PICK x \in S : \A y \in S : ~ (<<y, x>> \in OpToRel(<, Nat))
  BY NatLessThanWellFounded, WFMin
<1>2. \A y \in S : x <= y
  <2> TAKE y \in S
  <2>1. <<y, x>> \in Nat \X Nat
    OBVIOUS
  <2>2. ~ (y < x)
    BY <1>1, <2>1 DEF OpToRel
  <2> QED
    BY <2>2
<1> QED
  BY <1>2

LEMMA Counts ==
  ASSUME NEW s \in Seq(Raw), NEW v \in Int
  PROVE  /\ IsFiniteSet(DOMAIN s) /\ Cardinality(DOMAIN s) = Len(s)
         /\ Len(s) \in Nat /\ DOMAIN s = 1 .. Len(s)
         /\ \A T \in SUBSET DOMAIN s :
              IsFiniteSet(T) /\ Cardinality(T) \in Nat
         /\ Below(s, v) \subseteq DOMAIN s /\ AtMost(s, v) \subseteq DOMAIN s
<1>1. Len(s) \in Nat /\ DOMAIN s = 1 .. Len(s)
  OBVIOUS
<1>2. IsFiniteSet(1 .. Len(s)) /\ Cardinality(1 .. Len(s)) = Len(s)
  BY <1>1, FS_Interval
<1>3. \A T \in SUBSET DOMAIN s : IsFiniteSet(T) /\ Cardinality(T) \in Nat
  BY <1>1, <1>2, FS_Subset, FS_CardinalityType
<1> QED
  BY <1>1, <1>2, <1>3 DEF Below, AtMost

LEMMA SortedIndex ==
  ASSUME NEW s \in Seq(Raw), NEW k \in 1 .. Len(s)
  PROVE  /\ Sorted(s)[k] \in Raw
         /\ Cardinality(Below(s, Sorted(s)[k])) < k
         /\ k <= Cardinality(AtMost(s, Sorted(s)[k]))
<1> DEFINE V == {v \in Raw : k <= Cardinality(AtMost(s, v))}
<1>0. /\ AdcTop \in Nat /\ Len(s) \in Nat /\ DOMAIN s = 1 .. Len(s)
      /\ \A i \in DOMAIN s : s[i] \in Raw
  BY MeasurementAssumption
<1>1. AdcTop \in V
  <2>1. AtMost(s, AdcTop) = DOMAIN s
    BY <1>0 DEF AtMost, Raw
  <2>2. Cardinality(DOMAIN s) = Len(s)
    BY <1>0, Counts
  <2> QED
    BY <1>0, <2>1, <2>2 DEF Raw
<1>2. PICK v \in V : \A y \in V : v <= y
  <2>1. V \subseteq Nat /\ V # {}
    BY <1>0, <1>1 DEF Raw
  <2> HIDE DEF V
  <2> QED
    BY <2>1, LeastNat
<1>3. v \in Nat /\ v \in Raw /\ k <= Cardinality(AtMost(s, v))
  BY <1>0 DEF Raw
<1>4. Cardinality(Below(s, v)) < k
  <2>1. CASE v = 0
    <3>1. Below(s, v) = {}
      BY <1>0, <2>1 DEF Below, Raw
    <3> QED
      BY <3>1, FS_EmptySet
  <2>2. CASE v # 0
    <3>1. v - 1 \in Raw /\ v - 1 \notin V
      BY <1>0, <1>2, <1>3, <2>2 DEF Raw
    <3>2. Below(s, v) = AtMost(s, v - 1)
      BY <1>0, <1>3 DEF Below, AtMost, Raw
    <3>3. Cardinality(AtMost(s, v - 1)) \in Nat
      BY <1>3, Counts
    <3> QED
      BY <3>1, <3>2, <3>3
  <2> QED
    BY <2>1, <2>2
<1>5. \E i \in DOMAIN s : s[i] = v
  <2>1. SUFFICES ASSUME \A i \in DOMAIN s : s[i] # v PROVE FALSE
    OBVIOUS
  <2>2. Below(s, v) = AtMost(s, v)
    BY <1>0, <1>3, <2>1 DEF Below, AtMost, Raw
  <2>3. Cardinality(Below(s, v)) \in Nat
    BY <1>3, Counts
  <2> QED
    BY <1>3, <1>4, <2>2, <2>3
<1> HIDE DEF V
<1> DEFINE R == {s[i] : i \in DOMAIN s}
           P(x) == Cardinality(Below(s, x)) < k /\ k <= Cardinality(AtMost(s, x))
<1>6. v \in R /\ P(v)
  BY <1>3, <1>4, <1>5
<1>7. Sorted(s)[k] = CHOOSE x \in R : P(x)
  BY <1>0 DEF Sorted
<1> HIDE DEF P
<1>8. Sorted(s)[k] \in R /\ P(Sorted(s)[k])
  BY <1>6, <1>7
<1> QED
  BY <1>0, <1>8 DEF P

LEMMA SortedRises ==
  ASSUME NEW s \in Seq(Raw), NEW k \in Nat, k >= 1, k + 1 <= Len(s)
  PROVE  Sorted(s)[k] <= Sorted(s)[k + 1]
<1> DEFINE a == Sorted(s)[k]
           b == Sorted(s)[k + 1]
<1>1. /\ a \in Raw /\ Cardinality(Below(s, a)) < k
      /\ b \in Raw /\ k + 1 <= Cardinality(AtMost(s, b))
      /\ \A i \in DOMAIN s : s[i] \in Raw
  BY SortedIndex
<1> HIDE DEF a, b
<1>2. a \in Int /\ b \in Int
  BY <1>1, MeasurementAssumption DEF Raw
<1>3. CASE b < a
  <2>1. AtMost(s, b) \subseteq Below(s, a)
    BY <1>1, <1>2, <1>3, MeasurementAssumption DEF AtMost, Below, Raw
  <2>2. /\ IsFiniteSet(Below(s, a)) /\ Cardinality(AtMost(s, b)) \in Nat
        /\ Cardinality(Below(s, a)) \in Nat
    BY <1>2, Counts
  <2>3. Cardinality(AtMost(s, b)) <= Cardinality(Below(s, a))
    BY <2>1, <2>2, FS_Subset
  <2> QED
    BY <1>1, <2>2, <2>3
<1> QED
  BY <1>2, <1>3 DEF a, b

(***************************************************************************)
(* More than half of the readings are not above the median, or every       *)
(* majority meets those that are not; the same the other way round.        *)
(***************************************************************************)
LEMMA MedianRaw ==
  ASSUME NEW s \in Seq(Raw), Len(s) > 0
  PROVE  Median(s) \in Raw
<1>1. Len(s) \in Nat
  OBVIOUS
<1> DEFINE n == Len(s)
           h == Len(s) \div 2
<1>2. CASE n % 2 = 0
  <2>1. h \in Nat /\ h >= 1 /\ n = 2 * h
    BY <1>1, <1>2
  <2>2. Sorted(s)[h] \in Raw /\ Sorted(s)[h + 1] \in Raw
    BY <2>1, SortedIndex
  <2>3. Median(s) = (Sorted(s)[h] + Sorted(s)[h + 1]) \div 2
    BY <1>2 DEF Median
  <2> HIDE DEF h
  <2> QED
    BY <2>2, <2>3, MeasurementAssumption DEF Raw
<1>3. CASE n % 2 # 0
  <2>1. h + 1 \in 1 .. n
    BY <1>1, <1>3
  <2> QED
    BY <1>3, <2>1, SortedIndex DEF Median
<1> QED
  BY <1>2, <1>3

\* What the sort says of two neighbours carries over to what lies between.
LEMMA BetweenCounts ==
  ASSUME NEW s \in Seq(Raw), NEW m \in Int,
         NEW j \in 1 .. Len(s), NEW k \in 1 .. Len(s),
         Sorted(s)[j] <= m, m <= Sorted(s)[k]
  PROVE  /\ j <= Cardinality(AtMost(s, m))
         /\ Cardinality(Below(s, m)) < k
<1> DEFINE a == Sorted(s)[j]
           b == Sorted(s)[k]
<1>1. /\ a \in Raw /\ j <= Cardinality(AtMost(s, a))
      /\ b \in Raw /\ Cardinality(Below(s, b)) < k
      /\ \A i \in DOMAIN s : s[i] \in Raw
      /\ a <= m /\ m <= b
  BY SortedIndex
<1> HIDE DEF a, b
<1>2. a \in Int /\ b \in Int /\ \A i \in DOMAIN s : s[i] \in Int
  BY <1>1, MeasurementAssumption DEF Raw
<1>3. AtMost(s, a) \subseteq AtMost(s, m) /\ Below(s, m) \subseteq Below(s, b)
  BY <1>1, <1>2 DEF AtMost, Below
<1>4. /\ IsFiniteSet(AtMost(s, m)) /\ IsFiniteSet(Below(s, b))
      /\ Cardinality(AtMost(s, m)) \in Nat /\ Cardinality(Below(s, b)) \in Nat
      /\ Cardinality(AtMost(s, a)) \in Nat /\ Cardinality(Below(s, m)) \in Nat
  BY <1>2, Counts
<1>5. /\ Cardinality(AtMost(s, a)) <= Cardinality(AtMost(s, m))
      /\ Cardinality(Below(s, m)) <= Cardinality(Below(s, b))
  BY <1>3, <1>4, FS_Subset
<1> QED
  BY <1>1, <1>4, <1>5

LEMMA MedianOutvotes ==
  ASSUME NEW s \in Seq(Raw), Len(s) > 0, NEW majority \in SUBSET DOMAIN s,
         2 * Cardinality(majority) > Len(s)
  PROVE  /\ \E i \in majority : s[i] <= Median(s)
         /\ \E i \in majority : Median(s) <= s[i]
<1> DEFINE n == Len(s)
           h == Len(s) \div 2
           m == Median(s)
<1>1. /\ n \in Nat /\ IsFiniteSet(DOMAIN s) /\ Cardinality(DOMAIN s) = n
      /\ Cardinality(majority) \in Nat /\ m \in Int
      /\ \A i \in DOMAIN s : s[i] \in Int
  BY Counts, MedianRaw, MeasurementAssumption DEF Raw
<1>2. \E j, k \in 1 .. n : /\ Sorted(s)[j] <= m /\ m <= Sorted(s)[k]
                           /\ 2 * j >= n /\ 2 * (k - 1) <= n
  <2>1. CASE n % 2 = 0
    <3>1. h \in Nat /\ h >= 1 /\ n = 2 * h
      BY <1>1, <2>1
    <3>2. /\ Sorted(s)[h] \in Raw /\ Sorted(s)[h + 1] \in Raw
          /\ Sorted(s)[h] <= Sorted(s)[h + 1]
      BY <3>1, SortedIndex, SortedRises
    <3>3. m = (Sorted(s)[h] + Sorted(s)[h + 1]) \div 2
      BY <2>1 DEF Median
    <3> HIDE DEF h, m
    <3>4. Sorted(s)[h] <= m /\ m <= Sorted(s)[h + 1]
      BY <3>2, <3>3, MeasurementAssumption DEF Raw
    <3> QED
      BY <1>1, <3>1, <3>4
  <2>2. CASE n % 2 # 0
    <3>1. h + 1 \in 1 .. n /\ n = 2 * h + 1 /\ h \in Nat
      BY <1>1, <2>2
    <3>2. m = Sorted(s)[h + 1]
      BY <2>2 DEF Median
    <3> HIDE DEF h, m
    <3> QED
      BY <1>1, <3>1, <3>2
  <2> QED
    BY <2>1, <2>2
<1>3. PICK j, k \in 1 .. n : /\ Sorted(s)[j] <= m /\ m <= Sorted(s)[k]
                             /\ 2 * j >= n /\ 2 * (k - 1) <= n
  BY <1>2
<1>4. j <= Cardinality(AtMost(s, m)) /\ Cardinality(Below(s, m)) < k
  BY <1>1, <1>3, BetweenCounts
<1> HIDE DEF m
<1>5. /\ Cardinality(AtMost(s, m)) \in Nat /\ Cardinality(Below(s, m)) \in Nat
      /\ AtMost(s, m) \subseteq DOMAIN s /\ Below(s, m) \subseteq DOMAIN s
  BY <1>1, Counts
<1>6. PICK i \in majority : i \in AtMost(s, m)
  <2>1. Cardinality(majority) + Cardinality(AtMost(s, m)) > n
    BY <1>1, <1>3, <1>4, <1>5
  <2> QED
    BY <1>1, <1>5, <2>1, FS_MajoritiesIntersect
<1> DEFINE B == DOMAIN s \ Below(s, m)
<1>7. PICK l \in majority : l \in B
  <2>1. Cardinality(B) = n - Cardinality(Below(s, m))
    <3>1. DOMAIN s \cap Below(s, m) = Below(s, m)
      BY <1>5
    <3> QED
      BY <1>1, <3>1, FS_Difference
  <2>2. Cardinality(majority) + Cardinality(B) > n
    BY <1>1, <1>3, <1>4, <1>5, <2>1
  <2> QED
    BY <1>1, <2>2, FS_MajoritiesIntersect
<1>8. s[i] <= m /\ m <= s[l]
  BY <1>1, <1>6, <1>7 DEF AtMost, Below
<1> QED
  BY <1>8 DEF m

(***************************************************************************)
(* The mapping: quotients of what is within a range lie within a range,    *)
(* and keep their order.                                                   *)
(***************************************************************************)
LEMMA Quotients ==
  ASSUME NEW d \in Nat \ {0}, NEW a \in 0 .. d, NEW b \in 0 .. d, a <= b
  PROVE  /\ (a * 100) \div d \in 0 .. 100
         /\ (a * 100) \div d <= (b * 100) \div d
         /\ (0 * 100) \div d = 0 /\ (d * 100) \div d = 100
OBVIOUS

LEMMA PercentFalls ==
  ASSUME NEW lo \in Raw, NEW hi \in Raw, lo < hi, NEW v \in Raw, NEW w \in Raw,
         v <= w, NEW p \in Percentages(v, lo, hi),
         NEW q \in Percentages(w, lo, hi)
  PROVE  /\ p \in 0 .. 100 /\ q <= p
         /\ v <= lo => p = 100
         /\ v >= hi => p = 0
<1>1. lo \in Nat /\ hi \in Nat /\ v \in Nat /\ w \in Nat
  BY MeasurementAssumption DEF Raw
<1> DEFINE d == hi - lo
           a == Constrain(v, lo, hi) - lo
           b == Constrain(w, lo, hi) - lo
           x == (a * 100) \div d
           y == (b * 100) \div d
<1>2. /\ d \in Nat \ {0} /\ a \in 0 .. d /\ b \in 0 .. d /\ a <= b
      /\ v <= lo => a = 0
      /\ v >= hi => a = d
  BY <1>1 DEF Constrain
<1>3. p = (100 - x) % 256 /\ q = (100 - y) % 256
  BY <1>1 DEF Percentages, Mapped
<1> HIDE DEF d, a, b
<1>4. /\ x \in 0 .. 100 /\ y \in 0 .. 100 /\ x <= y
      /\ v <= lo => x = 0
      /\ v >= hi => x = 100
  BY <1>2, Quotients
<1> HIDE DEF x, y
<1> QED
  BY <1>3, <1>4

LEMMA PercentOfInverted ==
  ASSUME NEW lo \in Raw, NEW hi \in Raw, lo > hi, NEW v \in Raw,
         NEW p \in Percentages(v, lo, hi)
  PROVE  p \in {0, 100}
<1>1. lo \in Nat /\ hi \in Nat /\ v \in Nat
  BY MeasurementAssumption DEF Raw
<1> DEFINE d == lo - hi
           a == lo - Constrain(v, lo, hi)
           x == (a * 100) \div d
<1>2. d \in Nat \ {0} /\ a \in {0, d}
  BY <1>1 DEF Constrain
<1>3. p = (100 - x) % 256
  BY <1>1 DEF Percentages, Mapped
<1> HIDE DEF d, a
<1>4. x \in {0, 100}
  BY <1>2, Quotients
<1> HIDE DEF x
<1> QED
  BY <1>3, <1>4

(***************************************************************************)
(* The invariant of a measurement: what the result was computed from.      *)
(***************************************************************************)
MeasureInv ==
  /\ MeasureTypeOK
  /\ sensor = NoSensor => measurements = <<>>
  /\ percentage # NoValue =>
       /\ sensor # NoSensor /\ Len(measurements) = AdcMeasurements
       /\ rawMedian = Median(measurements)
       /\ percentage \in Percentages(rawMedian, sensor[1], sensor[2])

LEMMA PercentageByte ==
  ASSUME NEW lo \in Raw, NEW hi \in Raw, NEW v \in Raw
  PROVE  Percentages(v, lo, hi) \subseteq 0 .. 255
<1>1. lo \in Nat /\ hi \in Nat /\ v \in Nat
  BY MeasurementAssumption DEF Raw
<1>2. CASE lo = hi
  BY <1>2, MeasurementAssumption DEF Percentages
<1>3. CASE lo < hi
  BY <1>3, PercentFalls, <1>1
<1>4. CASE lo > hi
  BY <1>4, PercentOfInverted
<1> QED
  BY <1>1, <1>2, <1>3, <1>4

LEMMA MeasureInvInit == MeasureInit => MeasureInv
<1>1. <<>> \in Seq(Raw) /\ Len(<<>>) = 0 /\ 0 <= AdcMeasurements
  BY MeasurementAssumption
<1> QED
  BY <1>1 DEF MeasureInit, MeasureInv, MeasureTypeOK

LEMMA MeasureInvStep ==
  MeasureInv /\ [MeasureNext]_measureVars => MeasureInv'
<1> SUFFICES ASSUME MeasureInv, [MeasureNext]_measureVars PROVE MeasureInv'
  OBVIOUS
<1>0. MeasureTypeOK /\ AdcMeasurements \in Nat \ {0}
  BY MeasurementAssumption DEF MeasureInv
<1>1. ASSUME NEW lo \in Raw, NEW hi \in Raw, BeginMeasurement(lo, hi)
      PROVE  MeasureInv'
  BY <1>1 DEF BeginMeasurement, MeasureInv, MeasureTypeOK
<1>2. CASE AnalogRead
  <2>1. PICK v \in Raw : measurements' = Append(measurements, v)
    BY <1>2 DEF AnalogRead
  <2>2. /\ measurements \in Seq(Raw) /\ Len(measurements) < AdcMeasurements
        /\ UNCHANGED <<sensor, rawMedian, percentage>> /\ sensor # NoSensor
    BY <1>0, <1>2 DEF AnalogRead, MeasureTypeOK
  <2>3. /\ measurements' \in Seq(Raw)
        /\ Len(measurements') = Len(measurements) + 1
        /\ Len(measurements) \in Nat
    BY <2>1, <2>2
  <2>4. percentage = NoValue
    BY <1>0, <2>2, <2>3 DEF MeasureInv
  <2> QED
    BY <1>0, <2>2, <2>3, <2>4 DEF MeasureInv, MeasureTypeOK
<1>3. CASE Evaluate
  <2>1. /\ Len(measurements) = AdcMeasurements /\ measurements \in Seq(Raw)
        /\ rawMedian' = Median(measurements)
        /\ percentage' \in Percentages(rawMedian', sensor[1], sensor[2])
        /\ UNCHANGED <<sensor, measurements>>
    BY <1>0, <1>3 DEF Evaluate, MeasureTypeOK
  <2>2. sensor \in Raw \X Raw /\ sensor # NoSensor
    BY <1>0, <2>1 DEF MeasureInv, MeasureTypeOK
  <2>3. rawMedian' \in Raw
    BY <1>0, <2>1, MedianRaw
  <2>4. percentage' \in 0 .. 255
    BY <2>1, <2>2, <2>3, PercentageByte
  <2>5. Median(measurements)' = rawMedian'
    BY <2>1
  <2> QED
    BY <1>0, <2>1, <2>2, <2>3, <2>4, <2>5 DEF MeasureInv, MeasureTypeOK
<1>4. CASE ReturnMeasurement
  <2>1. <<>> \in Seq(Raw) /\ Len(<<>>) = 0
    OBVIOUS
  <2> QED
    BY <1>0, <1>4, <2>1 DEF ReturnMeasurement, MeasureInv, MeasureTypeOK
<1>5. CASE UNCHANGED measureVars
  BY <1>5 DEF measureVars, MeasureInv, MeasureTypeOK, Median, Percentages
<1> QED
  BY <1>1, <1>2, <1>3, <1>4, <1>5 DEF MeasureNext, MeasureStep

\* What the invariant says of the median and of the mapping.
LEMMA InvOutvotes == MeasureInv => NoiseOutvoted
<1> SUFFICES ASSUME MeasureInv, percentage # NoValue,
                    NEW majority \in SUBSET DOMAIN measurements,
                    2 * Cardinality(majority) > Len(measurements)
             PROVE  /\ \E i \in majority : measurements[i] <= rawMedian
                    /\ \E i \in majority : rawMedian <= measurements[i]
  BY DEF NoiseOutvoted
<1>1. /\ measurements \in Seq(Raw) /\ Len(measurements) > 0
      /\ rawMedian = Median(measurements)
  BY MeasurementAssumption DEF MeasureInv, MeasureTypeOK
<1> QED
  BY <1>1, MedianOutvotes

LEMMA InvMaps == MeasureInv => MappingSound
<1> DEFINE lo == sensor[1]
           hi == sensor[2]
<1> SUFFICES ASSUME MeasureInv, percentage # NoValue, lo # hi
             PROVE  /\ percentage \in 0 .. 100
                    /\ lo < hi =>
                         /\ rawMedian <= lo => percentage = 100
                         /\ rawMedian >= hi => percentage = 0
                         /\ \A v \in rawMedian .. AdcTop, p \in 0 .. 100 :
                              p \in Percentages(v, lo, hi) => p <= percentage
                    /\ lo > hi => percentage \in {0, 100}
  BY DEF MappingSound, MeasureInv
<1>1. /\ lo \in Raw /\ hi \in Raw
      /\ percentage \in Percentages(rawMedian, lo, hi)
  BY DEF MeasureInv, MeasureTypeOK
<1>2. rawMedian \in Raw
  <2>1. measurements \in Seq(Raw) /\ Len(measurements) > 0
    BY MeasurementAssumption DEF MeasureInv, MeasureTypeOK
  <2> QED
    BY <2>1, MedianRaw DEF MeasureInv
<1> HIDE DEF lo, hi
<1>3. lo \in Nat /\ hi \in Nat /\ rawMedian \in 0 .. AdcTop /\ AdcTop \in Nat
  BY <1>1, <1>2, MeasurementAssumption DEF Raw
<1>4. CASE lo < hi
  <2>1. /\ percentage \in 0 .. 100
        /\ rawMedian <= lo => percentage = 100
        /\ rawMedian >= hi => percentage = 0
    BY <1>1, <1>2, <1>3, <1>4, PercentFalls
  <2>2. ASSUME NEW v \in rawMedian .. AdcTop, NEW p \in Percentages(v, lo, hi)
        PROVE  p <= percentage
    <3>1. v \in Raw /\ rawMedian <= v
      BY <1>3 DEF Raw
    <3> QED
      BY <1>1, <1>2, <1>4, <3>1, PercentFalls
  <2> QED
    BY <1>3, <1>4, <2>1, <2>2
<1>5. CASE lo > hi
  BY <1>1, <1>2, <1>3, <1>5, PercentOfInverted
<1> QED
  BY <1>3, <1>4, <1>5

----------------------------------------------------------------------------
(***************************************************************************)
(* The parts together: a measurement and a sleep exclude each other.       *)
(***************************************************************************)
DriversInv ==
  /\ ShiftInv /\ SleepInv /\ MeasureInv
  /\ sensor # NoSensor => phase = "awake"

LEMMA DriversInvInit == DriversInit => DriversInv
BY ShiftInvInit, SleepInvInit, MeasureInvInit
DEF DriversInit, DriversInv, MeasureInit

LEMMA DriversInvStep == DriversInv /\ [DriversNext]_driverVars => DriversInv'
<1> SUFFICES ASSUME DriversInv, [DriversNext]_driverVars PROVE DriversInv'
  OBVIOUS
<1>1. ShiftInv' /\ SleepInv' /\ MeasureInv'
  BY OnePartSteps, ShiftInvStep, SleepInvStep, MeasureInvStep DEF DriversInv
<1>2. sensor' # NoSensor => phase' = "awake"
  <2>1. CASE CallUpdate
    BY <2>1 DEF CallUpdate, DriversInv, sleepVars, measureVars
  <2>2. CASE CallSleep
    BY <2>2 DEF CallSleep, Idle, measureVars
  <2>3. CASE CallMeasurement
    BY <2>3 DEF CallMeasurement, Idle, sleepVars
  <2>4. CASE ShiftStep /\ UNCHANGED <<sleepVars, measureVars>>
    BY <2>4 DEF DriversInv, sleepVars, measureVars
  <2>5. CASE SleepStep /\ UNCHANGED <<shiftVars, measureVars>>
    BY <2>5 DEF SleepStep, WatchdogTick, DelaySecond, EndDelay,
                ReturnFromSleep, DriversInv, measureVars
  <2>6. CASE MeasureStep /\ UNCHANGED <<shiftVars, sleepVars>>
    BY <2>6 DEF MeasureStep, AnalogRead, Evaluate, ReturnMeasurement,
                DriversInv, sleepVars
  <2>7. CASE UNCHANGED driverVars
    BY <2>7 DEF driverVars, DriversInv, sleepVars, measureVars
  <2> QED
    BY <2>1, <2>2, <2>3, <2>4, <2>5, <2>6, <2>7 DEF DriversNext, RunRoutine
<1> QED
  BY <1>1, <1>2 DEF DriversInv

LEMMA DriversInvariant == DriversSpec => []DriversInv
BY DriversInvInit, DriversInvStep, PTL DEF DriversSpec

(***************************************************************************)
(* The pumps never see what the chip held when power came                  *)
(* (src/power_ctrl.cpp:5).                                                 *)
(***************************************************************************)
THEOREM NeverGarbage == DriversSpec => []NoPowerOnGarbage
<1>1. DriversInv => NoPowerOnGarbage
  BY ShiftInvImplies DEF DriversInv
<1> QED
  BY <1>1, DriversInvariant, PTL

(***************************************************************************)
(* sleepSec(d) sleeps for d seconds (src/sleep.cpp:48), with the watchdog  *)
(* on while it is powered down and only then, whatever d, the watchdog's   *)
(* period and the widths of the counters.                                  *)
(***************************************************************************)
THEOREM SleepsExactly == DriversSpec => []SleepExact
<1>1. DriversInv => SleepExact
  BY SleepInvImplies DEF DriversInv
<1> QED
  BY <1>1, DriversInvariant, PTL

(***************************************************************************)
(* A minority of disturbed readings cannot move the median                 *)
(* (src/adc_measurement.cpp:22), however many readings are taken.          *)
(***************************************************************************)
THEOREM MinorityOutvoted == DriversSpec => []NoiseOutvoted
<1>1. DriversInv => NoiseOutvoted
  BY InvOutvotes DEF DriversInv
<1> QED
  BY <1>1, DriversInvariant, PTL

(***************************************************************************)
(* The mapping to a percentage (src/adc_measurement.cpp:51) is sound for   *)
(* every converter and every calibration with two different ends.          *)
(***************************************************************************)
THEOREM PercentagesAreSound == DriversSpec => []MappingSound
<1>1. DriversInv => MappingSound
  BY InvMaps DEF DriversInv
<1> QED
  BY <1>1, DriversInvariant, PTL

(***************************************************************************)
(* A measurement never meets a converter that a sleep left powered down    *)
(* (src/sleep.cpp:63).                                                     *)
(***************************************************************************)
THEOREM AlwaysReady == DriversSpec => []ConverterReady
<1>1. DriversInv => ConverterReady
  BY DEF DriversInv, SleepInv, ConverterReady
<1> QED
  BY <1>1, DriversInvariant, PTL

(***************************************************************************)
(* ShiftReg implements the power outputs that the other modules assume     *)
(* (src/power_ctrl.cpp:24).                                                *)
(***************************************************************************)
THEOREM OutputsAreAtomic == DriversSpec => AtomicOutputs
<1>1. DriversInit => Outputs!OutputsInit
  BY DEF DriversInit, ShiftInit, Outputs!OutputsInit
<1>2. DriversInv /\ [DriversNext]_driverVars
        => [Outputs!OutputsNext]_(Outputs!outputVars)
  BY OnePartSteps, OutputsRefined DEF DriversInv
<1> QED
  BY <1>1, <1>2, DriversInvariant, PTL
  DEF DriversSpec, AtomicOutputs, Outputs!OutputsSpec
============================================================================
