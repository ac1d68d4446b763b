------------------------- MODULE TrainingRunAbstract -------------------------
(***************************************************************************)
(* What the SGD training algorithm promises its caller, with mini-batches, *)
(* callbacks and the data coordinator hidden: apply() runs a training run, *)
(* an evaluation or aborts; a training run advances the training epoch    *)
(* one at a time, and when there is validation data each epoch end is     *)
(* followed by a validation pass that completes at most one validation    *)
(* epoch, so the validation epochs never run ahead of the training        *)
(* epochs.  A validation pass ends early only after a stop was requested  *)
(* on the validation context, and such a request is never withdrawn.      *)
(***************************************************************************)
EXTENDS Naturals

CONSTANT HasValidation   \* the data coordinator has validation data

VARIABLES
  phase,      \* "Idle", "Training", "Validating", "Evaluating" or "Aborted"
  epoch,      \* completed training epochs
  valEpoch,   \* completed validation epochs
  valStop     \* a stop was requested on the validation context

avars == <<phase, epoch, valEpoch, valStop>>

Phases == {"Idle", "Training", "Validating", "Evaluating", "Aborted"}

AbsInit ==
  /\ phase = "Idle"
  /\ epoch = 0
  /\ valEpoch = 0
  /\ valStop = FALSE

(* A callback may request a stop on the validation context during any    *)
(* step of a validation pass.                                              *)
MayStopValidation == valStop' \in {valStop, TRUE}

StartTraining ==
  /\ phase = "Idle"
  /\ phase' = "Training"
  /\ UNCHANGED <<epoch, valEpoch, valStop>>

StartEvaluation ==
  /\ phase = "Idle"
  /\ phase' = "Evaluating"
  /\ UNCHANGED <<epoch, valEpoch, valStop>>

Abort ==
  /\ phase = "Idle"
  /\ phase' = "Aborted"
  /\ UNCHANGED <<epoch, valEpoch, valStop>>

(* The last mini-batch of a training epoch; the validation pass starts at *)
(* once when there is validation data.                                     *)
EndEpoch ==
  /\ phase = "Training"
  /\ epoch' = epoch + 1
  /\ IF HasValidation
     THEN phase' = "Validating" /\ MayStopValidation
     ELSE phase' = "Training" /\ UNCHANGED valStop
  /\ UNCHANGED valEpoch

(* A stop requested on the validation context in the middle of a pass.    *)
RequestValidationStop ==
  /\ phase = "Validating"
  /\ ~valStop
  /\ valStop' = TRUE
  /\ UNCHANGED <<phase, epoch, valEpoch>>

(* The last mini-batch of a validation epoch, while no stop is pending.   *)
ValidateEpoch ==
  /\ phase = "Validating"
  /\ ~valStop
  /\ valEpoch < epoch
  /\ valEpoch' = valEpoch + 1
  /\ MayStopValidation
  /\ UNCHANGED <<phase, epoch>>

(* A validation pass returns to training once it has caught up with the  *)
(* training epochs, or once a stop was requested.                          *)
EndValidation ==
  /\ phase = "Validating"
  /\ valEpoch = epoch \/ valStop
  /\ phase' = "Training"
  /\ MayStopValidation
  /\ UNCHANGED <<epoch, valEpoch>>

(* The training loop ends: its bound is reached or a stop was requested.   *)
EndTraining ==
  /\ phase = "Training"
  /\ phase' = "Idle"
  /\ UNCHANGED <<epoch, valEpoch, valStop>>

EndEvaluation ==
  /\ phase = "Evaluating"
  /\ phase' = "Idle"
  /\ UNCHANGED <<epoch, valEpoch, valStop>>

AbsNext ==
  \/ StartTraining \/ StartEvaluation \/ Abort
  \/ EndEpoch \/ RequestValidationStop \/ ValidateEpoch \/ EndValidation \/ EndTraining \/ EndEvaluation

AbsSpec == AbsInit /\ [][AbsNext]_avars
=============================================================================
