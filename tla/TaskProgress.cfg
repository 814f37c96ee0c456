\* Tests that fail, executors that are lost, and a directory that is silent.
SPECIFICATION FairSpec
CONSTANTS
  Tasks = {t1, t2}
  Local = {t1}
  VMs = {v1}
  Attempts = {a1, a2}
  Outcomes = {"success", "fail", "unexpected"}
  Faults = {"noExecutor", "executorCrash"}
  None = None
CHECK_DEADLOCK FALSE
PROPERTIES EveryTaskEnds EveryReservationEnds
