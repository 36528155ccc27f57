CONSTANTS
  SlotCount = 2
  TimeToEnter = 2
  TimeInGame = 1
  Linger = 1
  Nameless = {2}
  MaxConnections = 4
SPECIFICATION FairSpec
INVARIANTS SlotsAgree PlaysOwnCharacter
PROPERTIES Settles DepartedAreRemoved
CHECK_DEADLOCK FALSE
