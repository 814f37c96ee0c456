\* One address with two NodeActors after each other, one VM each.
SPECIFICATION FairSpec
CONSTANTS
  Hosts = {"host"}
  MaxLives = 2
  VMs = {"vm1"}
  Overtake = FALSE
CHECK_DEADLOCK FALSE
INVARIANTS TypeOK CountDriftsOnlyByLoss
PROPERTIES MonitorIsForgotten
