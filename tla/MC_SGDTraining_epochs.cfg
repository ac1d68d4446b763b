\* EpochTermination(2), every apply() mode, a gated callback with interval 2
\* that may stop at any of its hooks.
CONSTANTS
  ApplyModes = {"training", "validation", "testing", "prediction", "tournament"}
  ValidModes = {"training", "validation", "testing", "prediction"}
  BatchesPerEpoch <- MC_BatchesPerEpoch
  TermConfigs <- MC_EpochsOrBatches
  BatchInterval = 2
  StopHooks = {"train_begin", "epoch_end", "batch_end", "batch_evaluate_end", "validation_begin"}
  SkipInit = TRUE
  Patience = 1
  Scores <- MC_Scores
  LowerIsBetter = FALSE
  MaxApplies = 3
  Layers <- MC_Layers
  WeightsList <- MC_WeightsList
  MaxSteps = 6

SPECIFICATION FairSpec
INVARIANT TypeOK
INVARIANT CallbacksSeeOwnContext
INVARIANT EpochAccounting
INVARIANT ValidationLockstep
INVARIANT CaliperRegionsNested
INVARIANT ProfilerSkipsOnlyFirstEpoch
PROPERTY ApplyReturns
PROPERTY RefinesTrainingRun
