\* A VM dies while its test runs.
SPECIFICATION Spec
CONSTANTS
  Tasks = {t1}
  Local = {}
  VMs = {v1, v2}
  Attempts = {a1, a2}
  Outcomes = {"success", "fail"}
  Faults = {"vmDeath"}
  None = None
SYMMETRY Symmetry
CHECK_DEADLOCK FALSE
PROPERTIES ResultOfCurrentExecutor
