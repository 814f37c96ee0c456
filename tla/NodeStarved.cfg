\* One VM on its way up when its run ends and another one is uploaded.
SPECIFICATION FairSpec
CONSTANTS
  Uuids = {u1}
  Versions = {1, 2}
  Faults = {"runDone"}
  None = None
CHECK_DEADLOCK FALSE
PROPERTIES KeepsAddingVMs
