\* Statuses, messages, an end and a start.
CONSTANTS
  MaxPlants = 3
  BitsPerByte = 2
  Numbers <- NumberSet
  Chats = {1, 2, 3}
  Whitelisted = {1, 2}
  BoardSettings <- BoardSet
  Files <- FileSet
  MaxPackets = 2
  MaxStarts = 1
SPECIFICATION RepSpec
CHECK_DEADLOCK FALSE
INVARIANTS
  HeardInOrder
  NoMessageLost
  FailureVisible
  SavedExactly
PROPERTIES
  ReportsArrive
  SignalEnds
