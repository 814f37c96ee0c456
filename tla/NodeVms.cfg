\* Two VMs, one run that may end, every fault of provisioning.
SPECIFICATION FairSpec
CONSTANTS
  Uuids = {u1, u2}
  Versions = {1}
  Faults <- AllFaults
  None = None
CHECK_DEADLOCK FALSE
INVARIANTS TypeOK OneVmAtATime AddVmKnowsConfig HelperAlone VmMapMatches OrphanIsDestroyed
PROPERTIES IdleVmIsDestroyed
