---------------------------- MODULE Measurement ----------------------------
(***************************************************************************)
(* clampedMeasurement() (src/adc_measurement.cpp): the median of several   *)
(* readings of a sensor, cut to its calibrated range and mapped to a       *)
(* percentage; low readings are wet.  Readings are noisy: each one is any  *)
(* value of the converter.                                                 *)
(***************************************************************************)
EXTENDS Integers, Sequences, FiniteSets

CONSTANTS AdcMeasurements,  \* ADC_MEASUREMENTS: 5
          AdcTop,           \* 1023
          AnyByte           \* the bytes an undefined result is taken from

ASSUME MeasurementAssumption ==
  /\ AdcMeasurements \in Nat \ {0} /\ AdcTop \in Nat
  /\ AnyByte \subseteq 0 .. 255 /\ AnyByte # {}

Raw == 0 .. AdcTop

VARIABLES
  sensor,        \* minValue and maxValue of the sensor, or NoSensor
  measurements,  \* the readings so far
  rawMedian,     \* the median, or NoValue
  percentage     \* the result, or NoValue

measureVars == <<sensor, measurements, rawMedian, percentage>>

NoSensor == <<>>
NoValue == -1

----------------------------------------------------------------------------
Below(s, v)  == {i \in DOMAIN s : s[i] < v}
AtMost(s, v) == {i \in DOMAIN s : s[i] <= v}

\* qsort() with uint16_comp(): index k then holds the reading that fewer
\* than k readings lie below, and that at least k do not exceed.
Sorted(s) ==
  [k \in DOMAIN s |->
     CHOOSE v \in {s[i] : i \in DOMAIN s} :
       Cardinality(Below(s, v)) < k /\ k <= Cardinality(AtMost(s, v))]

\* Mutant: the index before the middle.
MedianBelow(s) == Sorted(s)[Len(s) \div 2]

\* Indices start at one here.
Median(s) ==
  IF Len(s) % 2 = 0
    THEN (Sorted(s)[Len(s) \div 2] + Sorted(s)[Len(s) \div 2 + 1]) \div 2
    ELSE Sorted(s)[Len(s) \div 2 + 1]

\* Mutant: the limits are asked the other way round.
ConstrainSwapped(v, lo, hi) == IF v < hi THEN hi ELSE IF v > lo THEN lo ELSE v

Constrain(v, lo, hi) == IF v < lo THEN lo ELSE IF v > hi THEN hi ELSE v

\* map(v, lo, hi, 0, 100) of the Arduino library; division truncates.
Mapped(v, lo, hi) == IF hi > lo THEN ((v - lo) * 100) \div (hi - lo)
                                ELSE ((lo - v) * 100) \div (lo - hi)

\* A division by zero is undefined; the result is converted to a byte.
Percentages(v, lo, hi) ==
  IF lo = hi THEN AnyByte
             ELSE {(100 - Mapped(Constrain(v, lo, hi), lo, hi)) % 256}

----------------------------------------------------------------------------
BeginMeasurement(lo, hi) ==
  /\ sensor = NoSensor /\ sensor' = <<lo, hi>>
  /\ UNCHANGED <<measurements, rawMedian, percentage>>

AnalogRead ==
  /\ sensor # NoSensor /\ Len(measurements) < AdcMeasurements
  /\ \E v \in Raw : measurements' = Append(measurements, v)
  /\ UNCHANGED <<sensor, rawMedian, percentage>>

Evaluate ==
  /\ Len(measurements) = AdcMeasurements /\ percentage = NoValue
  /\ rawMedian' = Median(measurements)
  /\ percentage' \in Percentages(rawMedian', sensor[1], sensor[2])
  /\ UNCHANGED <<sensor, measurements>>

ReturnMeasurement ==
  /\ percentage # NoValue
  /\ sensor' = NoSensor /\ measurements' = <<>>
  /\ rawMedian' = NoValue /\ percentage' = NoValue

MeasureInit ==
  /\ sensor = NoSensor /\ measurements = <<>>
  /\ rawMedian = NoValue /\ percentage = NoValue

MeasureStep == AnalogRead \/ Evaluate \/ ReturnMeasurement

MeasureNext == MeasureStep \/ \E lo, hi \in Raw : BeginMeasurement(lo, hi)

----------------------------------------------------------------------------
MeasureTypeOK ==
  /\ sensor = NoSensor \/ sensor \in Raw \X Raw
  /\ measurements \in Seq(Raw) /\ Len(measurements) <= AdcMeasurements
  /\ rawMedian \in Raw \cup {NoValue}
  /\ percentage \in 0 .. 255 \cup {NoValue}

(***************************************************************************)
(* A minority of disturbed readings cannot move the result out of what the *)
(* others say: the median lies within the bounds of every majority.        *)
(***************************************************************************)
NoiseOutvoted ==
  percentage # NoValue =>
    \A majority \in SUBSET DOMAIN measurements :
       2 * Cardinality(majority) > Len(measurements) =>
         /\ \E i \in majority : measurements[i] <= rawMedian
         /\ \E i \in majority : rawMedian <= measurements[i]

(***************************************************************************)
(* The mapping is sound for every calibration with two different ends (the *)
(* division is defined exactly then): it yields a percentage, its ends for *)
(* readings beyond the calibrated range, and never more for a dryer        *)
(* reading.  A range given upside down still yields 0 or 100.              *)
(***************************************************************************)
MappingSound ==
  /\ MeasureTypeOK
  /\ percentage # NoValue /\ sensor[1] # sensor[2] =>
       LET lo == sensor[1]
           hi == sensor[2]
       IN /\ percentage \in 0 .. 100
          /\ lo < hi => /\ rawMedian <= lo => percentage = 100
                        /\ rawMedian >= hi => percentage = 0
                        /\ \A v \in rawMedian .. AdcTop, p \in 0 .. 100 :
                             p \in Percentages(v, lo, hi) => p <= percentage
          /\ lo > hi => percentage \in {0, 100}
============================================================================
