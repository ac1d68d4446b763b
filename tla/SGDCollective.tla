---------------------------- MODULE SGDCollective ----------------------------
(***************************************************************************)
(* The processes of one trainer each run SGDTrainingAlgorithm::train()     *)
(* (src/src/execution_algorithms/sgd_training_algorithm.cpp) on their own *)
(* coordinating thread.  The objective function's finish_evaluation, the   *)
(* model's evaluate_metrics and reconcile_weight_values are collectives    *)
(* over the trainer's processes: a call returns only once every process   *)
(* has entered the same call.  Everything else a process does is local.   *)
(*                                                                         *)
(* The validation metric is the number of errors of a pass: each process  *)
(* contributes its local count of a mini-batch, evaluate_metrics sums      *)
(* them, and the early-stopping callback of every process reads the sum.  *)
(***************************************************************************)
EXTENDS Naturals, Sequences, SequencesExt, FiniteSets

CONSTANTS
  Ranks,         \* the processes of the trainer
  TermConfigs,   \* SGD.stopping_criteria messages the configuration may hold
  TrainBatches,  \* training mini-batches per epoch, the same on every process
  ValBatches,    \* validation mini-batches per epoch
  HasValidation, \* dc.is_execution_mode_valid(validation)
  LocalErrs,     \* error counts a process may find in one mini-batch
  Patience,      \* lbann_callback_early_stopping::patience
  LowerIsBetter, \* the metric's lower_score_is_better()
  MaxSteps       \* mini-batches after which max_seconds has elapsed everywhere

ASSUME /\ TermConfigs \subseteq [criterion : {"max_batches", "max_epochs", "max_seconds"},
                                 value : Nat]
       /\ TrainBatches \in Nat \ {0} /\ ValBatches \in Nat \ {0}
       /\ HasValidation \in BOOLEAN /\ LocalErrs \subseteq Nat
       /\ Patience \in Nat /\ LowerIsBetter \in BOOLEAN /\ MaxSteps \in Nat

(* The collectives, named by call site: training or validation mini-batch. *)
Collectives == {"t_finish_evaluation", "t_evaluate_metrics", "reconcile_weight_values",
                "v_finish_evaluation", "v_evaluate_metrics"}
(* Local control points: train()'s and evaluate()'s termination checks.   *)
Points == {"train", "val", "done"} \cup Collectives

VARIABLES
  stopping,     \* m_stopping_criteria (built from the same configuration)
  pc,           \* [Ranks -> control point]
  tctx,         \* [Ranks -> training context: step, epoch, early_stop]
  vctx,         \* [Ranks -> m_validation_context]
  numValEpochs, \* [Ranks -> m_validation_epochs]
  dcPos,        \* [Ranks -> [mode -> cursor of the data coordinator]]
  finished,     \* [Ranks -> epoch_complete() of the running mini-batch]
  localErr,     \* [Ranks -> errors of the running mini-batch on the process]
  valErrs,      \* [Ranks -> reduced errors of the validation epoch]
  localValErrs, \* [Ranks -> the process's own errors of the validation epoch]
  es            \* [Ranks -> early-stopping callback: last_score, wait]

vars == <<stopping, pc, tctx, vctx, numValEpochs, dcPos, finished, localErr,
          valErrs, localValErrs, es>>

-----------------------------------------------------------------------------
(* make<SGDTrainingAlgorithm>: the factory builds m_stopping_criteria from  *)
(* the case of the stopping_criteria message.                              *)
StoppingCriteria(msg) ==
  [kind |-> CASE msg.criterion = "max_batches" -> "batches"
              [] msg.criterion = "max_epochs"  -> "epochs"
              [] OTHER                         -> "seconds",
   bound |-> msg.value]

(* SecondsTerminationCriteria reads the process's own timer (started by    *)
(* c.start_timer()), so each process decides at each check whether the    *)
(* time is up; after MaxSteps mini-batches it is up on every process.      *)
TimeOuts(term, c) ==
  IF term.kind # "seconds" THEN {FALSE}
  ELSE IF c.step >= MaxSteps THEN {TRUE} ELSE BOOLEAN

(* SGDTerminationCriteria::operator(): the bound, or the early-stop flag.  *)
Terminated(term, c, timedOut) ==
  \/ c.early_stop
  \/ term.kind = "batches" /\ c.step >= term.bound
  \/ term.kind = "epochs" /\ c.epoch >= term.bound
  \/ term.kind = "seconds" /\ timedOut

(* dc.fetch_data(mode) then dc.epoch_complete(mode).                       *)
Fetch(r, m, n) ==
  /\ dcPos' = [dcPos EXCEPT ![r][m] = (@ + 1) % n]
  /\ finished' = [finished EXCEPT ![r] = (dcPos[r][m] + 1 = n)]

(* Mutant: the early-stopping callback reads the process's own errors.     *)
ReportedScoreLocal(r) == localValErrs[r]
(* metric->report_metric(validation): the reduced statistics.             *)
ReportedScore(r) == valErrs[r]

(* lbann_callback_early_stopping::on_validation_end.                       *)
Improves(score, last) == IF LowerIsBetter THEN score < last ELSE score > last
RequestsStop(e, score) == ~Improves(score, e.last) /\ e.wait >= Patience
(* Mutant: ++wait also once patience is exhausted.                         *)
OnValidationEndAlwaysWait(e, score) ==
  IF Improves(score, e.last) THEN [last |-> score, wait |-> 0]
  ELSE [e EXCEPT !.wait = @ + 1]
OnValidationEnd(e, score) ==
  IF Improves(score, e.last) THEN [last |-> score, wait |-> 0]
  ELSE IF e.wait >= Patience THEN e
  ELSE [e EXCEPT !.wait = @ + 1]

(* Every process waits at collective p.                                    *)
AllAt(p) == \A r \in Ranks : pc[r] = p

Init ==
  /\ stopping \in {StoppingCriteria(msg) : msg \in TermConfigs}
  /\ pc = [r \in Ranks |-> "train"]
  /\ tctx = [r \in Ranks |-> [step |-> 0, epoch |-> 0, early_stop |-> FALSE]]
  /\ vctx = [r \in Ranks |-> [step |-> 0, epoch |-> 0, early_stop |-> FALSE]]
  /\ numValEpochs = [r \in Ranks |-> 1]
  /\ dcPos = [r \in Ranks |-> [training |-> 0, validation |-> 0]]
  /\ finished = [r \in Ranks |-> FALSE]
  /\ localErr = [r \in Ranks |-> 0]
  /\ valErrs = [r \in Ranks |-> 0]
  /\ localValErrs = [r \in Ranks |-> 0]
  /\ es = [r \in Ranks |-> [last |-> 0, wait |-> 0]]

(* The loop head of train() (lines 115-127, 162-169): leave the loop and   *)
(* run on_train_end when the criterion holds; otherwise start              *)
(* train_mini_batch: fetch_data, forward_prop, epoch_complete, then enter  *)
(* the objective function's finish_evaluation.                             *)
TrainCheck(r) ==
  /\ pc[r] = "train"
  /\ \E out \in TimeOuts(stopping, tctx[r]) :
       IF Terminated(stopping, tctx[r], out)
       THEN /\ pc' = [pc EXCEPT ![r] = "done"]
            /\ UNCHANGED <<dcPos, finished>>
       ELSE /\ Fetch(r, "training", TrainBatches)
            /\ pc' = [pc EXCEPT ![r] = "t_finish_evaluation"]
  /\ UNCHANGED <<stopping, tctx, vctx, numValEpochs, localErr, valErrs, localValErrs, es>>

(* finish_evaluation returns on every process once all have entered it;   *)
(* each goes on to evaluate_metrics.                                       *)
FinishEvaluation(p, q) ==
  /\ AllAt(p)
  /\ pc' = [r \in Ranks |-> q]
  /\ UNCHANGED <<stopping, tctx, vctx, numValEpochs, dcPos, finished, localErr,
                 valErrs, localValErrs, es>>

(* evaluate_metrics of a training mini-batch, then the rest of             *)
(* train_mini_batch (inc_step) and, at the end of an epoch, inc_epoch and  *)
(* the entry into reconcile_weight_values (lines 230-242, 131-133).        *)
TrainMetrics ==
  /\ AllAt("t_evaluate_metrics")
  /\ tctx' = [r \in Ranks |-> [tctx[r] EXCEPT !.step = @ + 1,
                                              !.epoch = IF finished[r] THEN @ + 1 ELSE @]]
  /\ pc' = [r \in Ranks |-> IF finished[r] THEN "reconcile_weight_values" ELSE "train"]
  /\ UNCHANGED <<stopping, vctx, numValEpochs, dcPos, finished, localErr,
                 valErrs, localValErrs, es>>

(* reconcile_weight_values, on_epoch_end, then evaluate() on the          *)
(* validation context when the dc has validation data: its                 *)
(* reset_epoch_statistics clears the metric (lines 133-150, 257).          *)
ReconcileWeightValues ==
  /\ AllAt("reconcile_weight_values")
  /\ IF HasValidation
     THEN /\ pc' = [r \in Ranks |-> "val"]
          /\ valErrs' = [r \in Ranks |-> 0]
          /\ localValErrs' = [r \in Ranks |-> 0]
     ELSE /\ pc' = [r \in Ranks |-> "train"]
          /\ UNCHANGED <<valErrs, localValErrs>>
  /\ UNCHANGED <<stopping, tctx, vctx, numValEpochs, dcPos, finished, localErr, es>>

(* EpochTerminationCriteria(num_validation_epochs) (line 148).             *)
ValidationTerm(n) == [kind |-> "epochs", bound |-> n]

(* The loop head of evaluate() (lines 273-285): start evaluate_mini_batch  *)
(* (fetch_data, forward_prop, epoch_complete, finish_evaluation), or end   *)
(* the pass: on_validation_end runs early stopping on the reported score,  *)
(* then train() bumps m_validation_epochs and copies the flag (151-156).   *)
ValCheck(r) ==
  /\ pc[r] = "val"
  /\ IF Terminated(ValidationTerm(numValEpochs[r]), vctx[r], FALSE)
     THEN LET score == ReportedScore(r)
              stop == vctx[r].early_stop \/ RequestsStop(es[r], score)
          IN  /\ es' = [es EXCEPT ![r] = OnValidationEnd(@, score)]
              /\ vctx' = [vctx EXCEPT ![r].early_stop = stop]
              /\ tctx' = [tctx EXCEPT ![r].early_stop = stop]
              /\ numValEpochs' = [numValEpochs EXCEPT ![r] = @ + 1]
              /\ pc' = [pc EXCEPT ![r] = "train"]
              /\ UNCHANGED <<dcPos, finished, localErr>>
     ELSE /\ Fetch(r, "validation", ValBatches)
          /\ \E e \in LocalErrs : localErr' = [localErr EXCEPT ![r] = e]
          /\ pc' = [pc EXCEPT ![r] = "v_finish_evaluation"]
          /\ UNCHANGED <<es, vctx, tctx, numValEpochs>>
  /\ UNCHANGED <<stopping, valErrs, localValErrs>>

(* evaluate_metrics of a validation mini-batch sums the processes' error   *)
(* counts into every process's statistics; inc_step, and inc_epoch when   *)
(* the dc reported the end of the validation epoch (lines 305-309, 277).  *)
ValMetrics ==
  /\ AllAt("v_evaluate_metrics")
  /\ LET reduced == FoldFunction(+, 0, localErr)
     IN  valErrs' = [r \in Ranks |-> valErrs[r] + reduced]
  /\ localValErrs' = [r \in Ranks |-> localValErrs[r] + localErr[r]]
  /\ vctx' = [r \in Ranks |-> [vctx[r] EXCEPT !.step = @ + 1,
                                              !.epoch = IF finished[r] THEN @ + 1 ELSE @]]
  /\ pc' = [r \in Ranks |-> "val"]
  /\ UNCHANGED <<stopping, tctx, numValEpochs, dcPos, finished, localErr, es>>

(* Every process has returned from train().                                *)
Returned ==
  /\ AllAt("done")
  /\ UNCHANGED vars

Rank(r) == TrainCheck(r) \/ ValCheck(r)
Release ==
  \/ FinishEvaluation("t_finish_evaluation", "t_evaluate_metrics")
  \/ FinishEvaluation("v_finish_evaluation", "v_evaluate_metrics")
  \/ TrainMetrics \/ ReconcileWeightValues \/ ValMetrics

Next == (\E r \in Ranks : Rank(r)) \/ Release \/ Returned

Spec == Init /\ [][Next]_vars

(* Each process runs on its own thread of its own OS process, and a        *)
(* collective completes once every process has entered it.                *)
FairSpec == Spec /\ (\A r \in Ranks : WF_vars(Rank(r))) /\ WF_vars(Release)

-----------------------------------------------------------------------------
(***************************************************************************)
(* Properties                                                              *)
(***************************************************************************)
TypeOK ==
  /\ pc \in [Ranks -> Points]
  /\ tctx \in [Ranks -> [step : Nat, epoch : Nat, early_stop : BOOLEAN]]
  /\ vctx \in [Ranks -> [step : Nat, epoch : Nat, early_stop : BOOLEAN]]
  /\ es \in [Ranks -> [last : Nat, wait : 0 .. Patience]]

(* The processes call the collectives in lock-step (spec: "all processes   *)
(* must call them in lock-step or the run deadlocks"): no process waits in *)
(* a collective while another waits in a different one or has already     *)
(* returned from train().  Termination checks and early stopping decide   *)
(* per process.                                                            *)
CollectivesMatch ==
  \A r, q \in Ranks :
    pc[r] \in Collectives =>
      /\ pc[q] # "done"
      /\ pc[q] \in Collectives => pc[q] = pc[r]

(* Every process returns from train().                                     *)
AllRanksReturn == <>(\A r \in Ranks : pc[r] = "done")

=============================================================================
