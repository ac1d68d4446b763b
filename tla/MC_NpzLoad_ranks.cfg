\* Two ranks, lists of three lines of every kind, with labels.
CONSTANTS
  NP = 2
  HasLabels = TRUE
  HasResponses = TRUE
  LineLists <- MC_LineLists

SPECIFICATION Spec
INVARIANT TypeOK
INVARIANT StoresPartitionSamples
