\* No faults, or every fault.
CONSTANTS
  MaxEdits <- NoneOrAll
  LeadType = "failure"
  LookAlike = FALSE
  MaxVer = 2
  MaxConns = 2
  MaxStops = 1
SPECIFICATION SyncSpec
INVARIANTS
  NoGarbage
  LatchedIfReliable
PROPERTIES
  NeverOlder
  Converges
  ServerReturns
