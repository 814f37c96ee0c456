\* Two runs, a group with a level below it and a single-instance branch behind it.
SPECIFICATION FairSpec
CONSTANTS
  Tasks = {"base", "deep", "aside", "next"}
  RunOf <- RunsOf
  Path <- Paths
  Single = {"aside"}
  VersionOf <- SameVersion
  MaxPolls = 1
  Undisturbed = TRUE
CHECK_DEADLOCK FALSE
PROPERTIES EveryTaskProcessed
