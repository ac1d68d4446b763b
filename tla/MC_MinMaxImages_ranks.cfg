\* Two ranks, lists of three files of every kind, the master's setup succeeds.
CONSTANTS
  NP = 2
  NumViews = 2
  Vals <- MC_Vals
  FileLists <- MC_FileLists
  EnvChoices <- MC_EnvOk

SPECIFICATION FairSpec
INVARIANT TypeOK
INVARIANT ScanCoversEveryFileOnce
PROPERTY AllRanksReturn
