CONSTANTS
  MaxSize = 2
  VersionSpan = 6
  Places = 2
  Loaded = 1
  MaxCommands = 3
  MaxSelected = 2
SPECIFICATION Spec
INVARIANTS UndoExact Replayable SavedUnlessRewritten
