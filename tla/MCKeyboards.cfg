\* Every fault of the requests, and requests that are only refused.
CONSTANTS
  MaxPlants = 2
  WordTop = 3
  ByteTop = 2
  PercentTop = 1
  Steps <- StepSet
  SmallSteps <- SmallStepSet
  InitialSettings <- OnePlant
  MaxChanges <- Changes
SPECIFICATION KbSpec
INVARIANTS
  EditorArmed
  MenuPath
  OneMessageWorks
  CommittedInRange
PROPERTIES
  EditsInSession
