SPECIFICATION Spec
CONSTANTS
  MaxIds = 3
  Colors <- MCColors
  rules <- MCTeamRules
  Maps = 1
  Specials = {}
INVARIANTS ColorsShared TeamsWithinLimit

VIEW WithoutTick
CHECK_DEADLOCK FALSE
