\* Rounds of loop() with two plants and changing settings.
CONSTANTS
  MaxPlants = 2
  MaxLevel = 2
  Undefined = 255
  ByteMod = 4
  WordMod = 64
  IntMax = 31
  MeasureTimes = {800, 1000}
  SleepPeriod = 40
  SessionTimes = {0, 3000}
  LongestSession = 3000
  Configs <- MCConfigs
  SettingsSet <- MCSettings
  DefaultSettings <- MCDefault
SPECIFICATION Spec
INVARIANTS
  NoIrrigationWhileFailed
  NothingPoweredAsleep
  SensorsReadable
  StatusFaithful
  ProblemsReported
PROPERTIES
  EveryPlantServed
  DueChecked
  TimeAccounting
