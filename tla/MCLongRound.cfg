\* A round that lasts longer than the sleep period.
CONSTANTS
  MaxPlants = 1
  MaxLevel = 1
  Undefined = 255
  ByteMod = 256
  WordMod = 65536
  IntMax = 32767
  MeasureTimes = {800}
  SleepPeriod = 21600
  SessionTimes = {3000}
  LongestSession = 3000
  Configs <- MCConfigs
  SettingsSet <- MCSettings
  DefaultSettings <- MCDefault
SPECIFICATION Spec
INVARIANTS
  SleepWithinPeriod
