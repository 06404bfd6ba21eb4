\* A failure occurs while a user is editing, or the server reads the status
\* and the failure message at once.
CONSTANTS
  MaxEdits <- LatchFaults
  LeadType = "failure"
  LookAlike = FALSE
  MaxVer = 1
  MaxConns = 2
  MaxStops = 1
SPECIFICATION SyncSpec
INVARIANTS
  FailureLatched
