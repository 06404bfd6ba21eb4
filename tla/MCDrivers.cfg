\* Any sequence of the board's hardware routines.
CONSTANTS
  Width = 4
  Words <- WordSet
  WatchdogSec = 8
  WordMod = 65536
  ByteMod = 256
  Durations <- DurationSet
  AdcMeasurements = 5
  AdcTop = 4
  AnyByte <- ByteSet
SPECIFICATION DriversSpec
INVARIANTS
  NoPowerOnGarbage
  SleepExact
  NoiseOutvoted
  MappingSound
  ConverterReady
PROPERTIES
  AtomicOutputs
