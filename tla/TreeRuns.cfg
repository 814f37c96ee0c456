\* Two runs, the first of two levels and a single-instance branch.
SPECIFICATION Spec
CONSTANTS
  Tasks = {"base", "peer", "deep", "aside", "next"}
  RunOf <- RunsOf
  Path <- Paths
  Single = {"aside"}
  VersionOf <- SameVersion
  MaxPolls = 1
  Undisturbed = TRUE
CHECK_DEADLOCK FALSE
INVARIANTS TypeOK DependenciesSucceeded AbandonedInItsBranch RunDoneMeansProcessed StaleListStarvesNobody
PROPERTIES ImplementsTaskResults SentAwayOnlyWhenDone
