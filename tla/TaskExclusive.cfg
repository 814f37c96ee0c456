\* Two tasks and two VMs; VMs neither die nor fall silent.
SPECIFICATION Spec
CONSTANTS
  Tasks = {t1, t2}
  Local = {t1}
  VMs = {v1, v2}
  Attempts = {a1, a2}
  Outcomes = {"success", "fail", "unexpected"}
  Faults = {"askTimeout", "noExecutor", "executorCrash", "sshDown"}
  None = None
SYMMETRY SymVA
CHECK_DEADLOCK FALSE
INVARIANTS AtMostOneExecution NoTaskIsLost
PROPERTIES ResultOfCurrentExecutor
