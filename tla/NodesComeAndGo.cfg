\* A client is started twice, with both roles or none; it may crash.
SPECIFICATION FairSpec
CONSTANTS
  Nodes = {"client"}
  RoleSets = {{"vm", "executor"}, {}}
  Central = "central"
  MaxLives = 2
  MaxRestarts = 1
  Faults = {"early", "silent", "slowDeathWatch"}
CHECK_DEADLOCK FALSE
INVARIANTS TypeOK ExecutorIsKnown StaleOnlyIfSilent
PROPERTIES NodeIsUsed RestartEnds
