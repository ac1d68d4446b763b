------------------------- MODULE CategoricalAccuracy -------------------------
(***************************************************************************)
(* categorical_accuracy::compute_metric                                    *)
(* (src/src/metrics/lbann_metric_categorical_accuracy.cpp): the number of   *)
(* mini-batch samples whose predicted class (the row of the column's       *)
(* maximum) differs from the ground-truth class, computed on a             *)
(* distributed matrix: rows (classes) and columns (samples) are dealt      *)
(* cyclically over a GridH x GridW process grid.                           *)
(***************************************************************************)
EXTENDS Integers, Sequences, SequencesExt, FiniteSets

CONSTANTS
  K,          \* number of classes (matrix height)
  B,          \* mini-batch size (matrix width)
  GridH,      \* process-grid height: row f lives on grid row f % GridH
  GridW,      \* process-grid width: column c lives on grid column c % GridW
  Preds,      \* possible prediction matrices [Rows -> [Cols -> value]]
  Truths      \* possible ground-truth matrices [Rows -> [Cols -> {0, 1}]]

Rows == 0 .. K - 1
Cols == 0 .. B - 1
Procs == (0 .. GridH - 1) \X (0 .. GridW - 1)
LocalRows(p) == {f \in Rows : f % GridH = p[1]}
LocalCols(p) == {c \in Cols : c % GridW = p[2]}

ASSUME /\ K \in Nat \ {0} /\ B \in Nat \ {0}
       /\ GridH \in Nat \ {0} /\ GridW \in Nat \ {0}

VARIABLES
  pred,       \* predictions_v
  truth,      \* groundtruth_v
  phase,      \* the collective step the processes are in
  scanned,    \* processes that finished the current local loop
  colMax,     \* YsColMaxStar: every column's maximum, on every process
  maxIndex,   \* [Procs -> m_max_index]
  reduced,    \* m_reduced_max_indicies
  errs,       \* [Procs -> local num_errors]
  numErrors   \* num_errors after the sum all-reduce

vars == <<pred, truth, phase, scanned, colMax, maxIndex, reduced, errs, numErrors>>

-----------------------------------------------------------------------------
(* ColumnMax(predictions_v, YsColMax) then Copy to YsColMaxStar.            *)
ColumnMaxOf(m, c) == Max({m[f][c] : f \in Rows})

(* Mutant: the first local row holding the maximum kept.                  *)
LocalArgMaxFirst(p, c) ==
  LET hits == {f \in LocalRows(p) : pred[f][c] = colMax[c]}
  IN  IF c \in LocalCols(p) /\ hits # {} THEN Min(hits) ELSE 0
(* Lines 71-79: over the local rows in increasing global order, every row  *)
(* equal to the column maximum overwrites m_max_index, so the last one    *)
(* stays; entries of columns and processes without a hit stay 0.          *)
LocalArgMax(p, c) ==
  LET hits == {f \in LocalRows(p) : pred[f][c] = colMax[c]}
  IN  IF c \in LocalCols(p) /\ hits # {} THEN Max(hits) ELSE 0

(* Mutant: the targetidx != -1 test dropped.                               *)
LocalErrorsNoTargetTest(p) ==
  Cardinality({c \in LocalCols(p) :
                 LET t == {f \in LocalRows(p) : truth[f][c] = 1}
                 IN  reduced[c] # (IF t = {} THEN -1 ELSE Max(t))})
(* Lines 96-109: a process counts an error for a local column only when    *)
(* it holds the column's 1 (the last local row equal to 1) and the         *)
(* reduced index differs from that row.                                    *)
LocalErrors(p) ==
  Cardinality({c \in LocalCols(p) :
                 LET t == {f \in LocalRows(p) : truth[f][c] = 1}
                 IN  t # {} /\ reduced[c] # Max(t)})

Init ==
  /\ pred \in Preds
  /\ truth \in Truths
  /\ phase = "colmax"
  /\ scanned = {}
  /\ colMax = [c \in Cols |-> 0]
  /\ maxIndex = [p \in Procs |-> [c \in Cols |-> 0]]
  /\ reduced = [c \in Cols |-> 0]
  /\ errs = [p \in Procs |-> 0]
  /\ numErrors = 0

(* Lines 61-66: clear the buffers, column maxima, copy to every process.   *)
ColumnMax ==
  /\ phase = "colmax"
  /\ colMax' = [c \in Cols |-> ColumnMaxOf(pred, c)]
  /\ phase' = "scan"
  /\ UNCHANGED <<pred, truth, scanned, maxIndex, reduced, errs, numErrors>>

(* Lines 68-79 on process p.                                               *)
ScanMax(p) ==
  /\ phase = "scan" /\ p \notin scanned
  /\ maxIndex' = [maxIndex EXCEPT ![p] = [c \in Cols |-> LocalArgMax(p, c)]]
  /\ scanned' = scanned \cup {p}
  /\ UNCHANGED <<pred, truth, phase, colMax, reduced, errs, numErrors>>

(* Lines 81-83: model_allreduce with mpi::MAX once every process is in.    *)
AllreduceIndex ==
  /\ phase = "scan" /\ scanned = Procs
  /\ reduced' = [c \in Cols |-> Max({maxIndex[p][c] : p \in Procs})]
  /\ phase' = "count"
  /\ scanned' = {}
  /\ UNCHANGED <<pred, truth, colMax, maxIndex, errs, numErrors>>

(* Lines 86-109 on process p.                                              *)
CountErrors(p) ==
  /\ phase = "count" /\ p \notin scanned
  /\ errs' = [errs EXCEPT ![p] = LocalErrors(p)]
  /\ scanned' = scanned \cup {p}
  /\ UNCHANGED <<pred, truth, phase, colMax, maxIndex, reduced, numErrors>>

(* Line 111: num_errors = comm->model_allreduce(num_errors).               *)
AllreduceErrors ==
  /\ phase = "count" /\ scanned = Procs
  /\ numErrors' = FoldFunction(+, 0, errs)
  /\ phase' = "done"
  /\ UNCHANGED <<pred, truth, scanned, colMax, maxIndex, reduced, errs>>

(* compute_metric has returned on every process.                           *)
Returned ==
  /\ phase = "done"
  /\ UNCHANGED vars

Next ==
  \/ ColumnMax \/ AllreduceIndex \/ AllreduceErrors \/ Returned
  \/ \E p \in Procs : ScanMax(p) \/ CountErrors(p)

Spec == Init /\ [][Next]_vars

-----------------------------------------------------------------------------
(***************************************************************************)
(* Properties                                                              *)
(***************************************************************************)
TypeOK ==
  /\ phase \in {"colmax", "scan", "count", "done"}
  /\ scanned \subseteq Procs
  /\ maxIndex \in [Procs -> [Cols -> Rows]]
  /\ reduced \in [Cols -> Rows]
  /\ numErrors \in 0 .. B

(* Reference: the arg-max of one column scanned sequentially, a later row  *)
(* winning a tie ("if there are two potential maximum values, highest     *)
(* index wins", line 82).                                                  *)
RECURSIVE ArgMaxFrom(_, _, _)
ArgMaxFrom(m, c, f) ==
  IF f = 0 THEN 0
  ELSE LET best == ArgMaxFrom(m, c, f - 1)
       IN  IF m[f][c] >= m[best][c] THEN f ELSE best

RefArgMax(m, c) == ArgMaxFrom(m, c, K - 1)

(* The class of a one-hot ground-truth column.                             *)
TargetOf(c) == CHOOSE f \in Rows : truth[f][c] = 1

RefErrors == Cardinality({c \in Cols : RefArgMax(pred, c) # TargetOf(c)})

(* For one-hot ground truth, the distributed computation returns on every  *)
(* process the number of samples whose highest-index arg-max is not the   *)
(* true class, whatever the process grid: the zero-filled local indices,   *)
(* the MAX all-reduce and the per-owner error count add up to the         *)
(* sequential count.                                                       *)
ErrorsMatchReference == phase = "done" => numErrors = RefErrors

=============================================================================
