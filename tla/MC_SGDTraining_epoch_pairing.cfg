\* BatchTermination(3), no callback requests a stop: training stops in the
\* middle of its second epoch.
CONSTANTS
  ApplyModes = {"training", "validation", "testing", "prediction", "tournament"}
  ValidModes = {"training", "validation", "testing"}
  BatchesPerEpoch <- MC_BatchesPerEpoch
  TermConfigs <- MC_Batches3
  BatchInterval = 2
  StopHooks = {}
  SkipInit = FALSE
  Patience = 1
  Scores <- MC_Scores
  LowerIsBetter = FALSE
  MaxApplies = 3
  Layers <- MC_Layers
  WeightsList <- MC_WeightsList
  MaxSteps = 6

SPECIFICATION Spec
INVARIANT CaliperClosedWhenIdle
