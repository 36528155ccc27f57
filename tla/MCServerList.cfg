SPECIFICATION ListSpec
CONSTANTS
  Servers = {"s1", "s2"}
  Beats = {"empty", "full"}
  HeartbeatEvery = 1
  Timeout = 3
  MaxHappenings = 3
INVARIANTS ServedIsCurrent GoodbyeIfTold
PROPERTIES RestartKeepsList ListConverges
