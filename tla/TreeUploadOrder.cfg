\* A VM asks for a task during the upload.
SPECIFICATION Spec
CONSTANTS
  Tasks = {"base", "deep"}
  RunOf <- RunsOf
  Path <- Paths
  Single = {}
  VersionOf <- SameVersion
  MaxPolls = 1
  Undisturbed = FALSE
CHECK_DEADLOCK FALSE
INVARIANTS DependenciesSucceeded
