\* Two processes under max_seconds, without validation: each process's
\* termination check reads its own clock.
CONSTANTS
  Ranks = {"p0", "p1"}
  TermConfigs <- MC_Seconds
  TrainBatches = 2
  ValBatches = 1
  HasValidation = FALSE
  LocalErrs = {0, 1}
  Patience = 0
  LowerIsBetter = FALSE
  MaxSteps = 4

SPECIFICATION Spec
INVARIANT CollectivesMatch
