SPECIFICATION Spec
CONSTANTS
  MaxIds = 2
  Colors <- MCColors
  rules <- MCRules
  Maps = 0
  Specials = {"RESTART_MATCH", "RESTART_MATCH_NO_WARMUP", "SWAP_TEAMS", "SCRAMBLE_TEAMS"}
INVARIANTS RoundsAccounted OwnScoreKept FrozenAsCached PhasesEndInTime
PROPERTIES EverybodyPlays DefusedBombLoses
CHECK_DEADLOCK FALSE
