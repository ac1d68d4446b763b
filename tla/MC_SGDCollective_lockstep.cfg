\* Two processes, max_epochs 2 or max_batches 3, validation after every
\* epoch, each process finding 0 or 1 errors per mini-batch, and early
\* stopping with patience 0 on a higher-is-better score.
CONSTANTS
  Ranks = {"p0", "p1"}
  TermConfigs <- MC_EpochsOrBatches
  TrainBatches = 2
  ValBatches = 1
  HasValidation = TRUE
  LocalErrs = {0, 1}
  Patience = 0
  LowerIsBetter = FALSE
  MaxSteps = 4

SPECIFICATION FairSpec
INVARIANT TypeOK
INVARIANT CollectivesMatch
PROPERTY AllRanksReturn
