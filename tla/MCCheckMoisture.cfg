\* One call of checkMoisture() after the other, two plants.
CONSTANTS
  MaxPlants = 2
  MaxLevel = 2
  Undefined = 255
  ByteMod = 256
  WordMod = 65536
  IntMax = 32767
  MeasureTimes = {800}
  Configs <- MCConfigs
SPECIFICATION CheckSpec
INVARIANTS
  PumpBudget
  PumpJustified
  PumpsOffBetweenCalls
PROPERTIES
  FailureExact
  CallReturns
