\* Two ranks started without --filelist: only the master throws.
CONSTANTS
  NP = 2
  NumViews = 2
  Vals <- MC_Vals
  FileLists <- MC_FileLists
  EnvChoices <- MC_EnvNoArgs

SPECIFICATION FairSpec
PROPERTY AllRanksReturn
CHECK_DEADLOCK FALSE
