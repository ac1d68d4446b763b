\* A 2 x 2 process grid: every sample's classes split over two processes.
CONSTANTS
  K = 3
  B = 2
  GridH = 2
  GridW = 2
  Preds <- MC_Preds
  Truths <- MC_Truths

SPECIFICATION Spec
INVARIANT TypeOK
INVARIANT ErrorsMatchReference
