\* A callback requesting a stop in on_epoch_end; EpochTermination(3).
CONSTANTS
  BatchesPerEpoch <- MC_BatchesPerEpoch
  Scores <- MC_Scores
  SkipInit = FALSE
  MaxApplies = 1
  Layers <- MC_Layers
  WeightsList <- MC_WeightsList
  MaxSteps = 8
  ApplyModes = {"training"}
  ValidModes = {"training", "validation"}
  TermConfigs <- MC_Epochs2
  BatchInterval = 1
  StopHooks = {"epoch_end"}
  Patience = 1
  LowerIsBetter = FALSE
SPECIFICATION Spec
PROPERTY EarlyStopNotLost
