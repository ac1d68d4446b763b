\* A lower-is-better metric (e.g. a loss) whose scores keep falling; patience 1.
CONSTANTS
  BatchesPerEpoch <- MC_BatchesPerEpoch
  Scores <- MC_Scores
  SkipInit = FALSE
  MaxApplies = 1
  Layers <- MC_Layers
  WeightsList <- MC_WeightsList
  MaxSteps = 8
  ApplyModes = {"training"}
  ValidModes = {"training", "validation"}
  TermConfigs <- MC_Epochs2
  BatchInterval = 1
  StopHooks = {}
  Patience = 1
  LowerIsBetter = TRUE
SPECIFICATION Spec
INVARIANT EarlyStopOnlyOnStall
