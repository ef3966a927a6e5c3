SPECIFICATION Spec
CONSTANTS
  TargetList <- TwoTargets
  Plans <- ShortPlans
  Modes = {TRUE, FALSE}
  InDocker = FALSE
  DiskMayFail = TRUE
  MaxSessions = 3
INVARIANTS TypeOK MergeIsUpdate ResultsKept InitStartsEmpty IsolatedWhenAsked
