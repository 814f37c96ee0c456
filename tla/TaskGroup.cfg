\* Two tasks of a group on one VM, with every fault.
SPECIFICATION Spec
CONSTANTS
  Tasks = {t1, t2}
  Local = {t1}
  VMs = {v1}
  Attempts = {a1, a2}
  Outcomes = {"success", "fail", "unexpected"}
  Faults = {"vmDeath", "askTimeout", "noExecutor", "executorCrash", "sshDown", "silentVm", "restCalls"}
  None = None
SYMMETRY SymVA
CHECK_DEADLOCK FALSE
INVARIANTS TypeOK PollsIffHasSpace DoneTaskHandlesNothing GoneGroupRunsNothing AbandonedBecauseOfFailure
PROPERTIES EndStateIsFinal  ImplementsTaskResults
