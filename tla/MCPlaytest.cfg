SPECIFICATION PlaytestSpec
CONSTANTS
  Edits = {"move", "add_player"}
  PlaytestOnly = {"add_player"}
  Inputs = {"shoot"}
  Overwrites = {TRUE, FALSE}
  Interval = 2
  MaxSteps = 4
  MaxBefore = 1
  MaxTestCommands = 3
INVARIANTS WorldIsReplay CommandsInOrder
PROPERTY ReopensInPlace
ACTION_CONSTRAINT SuspectOnlyEnds
\* A failed assertion ends the program.
CHECK_DEADLOCK FALSE
