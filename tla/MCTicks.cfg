\* Tick counters in rounds held by the failure flag.
CONSTANTS
  MaxPlants = 2
  MaxLevel = 2
  Undefined = 255
  ByteMod = 4
  WordMod = 64
  IntMax = 31
  MeasureTimes = {800}
  SleepPeriod = 40
  SessionTimes = {3000}
  LongestSession = 3000
  Configs <- MCConfigs
  SettingsSet <- MCSettings
  DefaultSettings <- MCDefault
SPECIFICATION Spec
PROPERTIES
  TicksSaturate
