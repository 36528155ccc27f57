CONSTANTS
  Arenas = {a, b}
  Motions = {1}
  Others = {0}
  Sensitivities = {1, 2}
  SquashSteps = 2
  MaxSquashed = 2
  MaxClientResyncs = 1
  MaxPredicted = 1
  RconChanges = TRUE
  DefaultSettings = 1
  DigestSpan = 3
  MaxStepsInFlight = 2
SPECIFICATION Spec
INVARIANTS Orderly CommandsConserved PredictionCurrent DesyncOnlyIfOvertaken
CHECK_DEADLOCK FALSE
SYMMETRY ArenaSymmetry
