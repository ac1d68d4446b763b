----------------------------- MODULE SGDTraining -----------------------------
(***************************************************************************)
(* The SGD training algorithm of LBANN                                     *)
(* (src/src/execution_algorithms/sgd_training_algorithm.cpp) driving one  *)
(* model and one data coordinator on the coordinating thread of a         *)
(* process.  One action is one whole handler or one whole loop iteration  *)
(* of apply / train / evaluate; the tensor work of the model is abstract, *)
(* the control flow, the execution contexts, the data coordinator's       *)
(* epoch signal and the callbacks fired at every hook are kept.           *)
(*                                                                         *)
(* Callbacks registered on the model, in registration order:              *)
(*   - profiler_caliper (src/src/callbacks/profiler_caliper.cpp): opens    *)
(*     and closes a Caliper region per begin/end hook, batch interval 1;  *)
(*   - lbann_callback_early_stopping                                       *)
(*     (src/src/callbacks/lbann_callback_early_stopping.cpp);             *)
(*   - a callback with batch interval BatchInterval that may set the      *)
(*     early-stop flag of the model's current context at StopHooks.       *)
(***************************************************************************)
EXTENDS Naturals, Sequences, SequencesExt, FiniteSets

CONSTANTS
  ApplyModes,       \* execution modes the caller passes to apply()
  ValidModes,       \* modes for which dc.is_execution_mode_valid() holds
  BatchesPerEpoch,  \* [mode -> fetch_data calls per epoch of that mode]
  TermConfigs,      \* SGD.stopping_criteria messages the configuration may hold
  BatchInterval,    \* get_batch_interval() of the gated callback
  StopHooks,        \* hooks at which the gated callback may request a stop
  SkipInit,         \* profiler_caliper::m_skip_init
  Patience,         \* lbann_callback_early_stopping::patience
  Scores,           \* metric values a validation pass may report
  LowerIsBetter,    \* the early-stopping metric's lower_score_is_better()
  MaxApplies,       \* number of apply() calls the caller makes
  MaxSteps,         \* cap on every context's step and epoch counters
  Layers,           \* the model's layer names, in execution order
  WeightsList       \* the model's weights names

Modes == {"training", "validation", "testing", "prediction", "tournament"}
Train == "training"
\* m_validation_context; the caller's context for mode m is named m.
AlgoVal == "m_validation_context"
CtxIds == ApplyModes \cup {Train, AlgoVal}

ASSUME /\ ApplyModes \subseteq Modes /\ Train \in ApplyModes
       /\ Train \in ValidModes /\ ValidModes \subseteq Modes
       /\ BatchesPerEpoch \in [Modes -> Nat \ {0}]
       /\ TermConfigs \subseteq [criterion : {"max_batches", "max_epochs"}, value : Nat]
       /\ BatchInterval \in Nat \ {0} /\ SkipInit \in BOOLEAN
       /\ Patience \in Nat /\ Scores \subseteq Nat /\ LowerIsBetter \in BOOLEAN
       /\ Layers \in Seq(STRING) /\ WeightsList \in Seq(STRING)

Hooks == {"train_begin", "train_end", "epoch_begin", "epoch_end",
          "batch_begin", "batch_end", "batch_evaluate_begin",
          "batch_evaluate_end", "validation_begin", "validation_end",
          "test_begin", "test_end",
          "forward_prop_begin", "forward_prop_end",
          "evaluate_forward_prop_begin", "evaluate_forward_prop_end",
          "backward_prop_begin", "backward_prop_end",
          "optimize_begin", "optimize_end",
          "layer_forward_prop_begin", "layer_forward_prop_end",
          "layer_evaluate_forward_prop_begin", "layer_evaluate_forward_prop_end",
          "layer_backward_prop_begin", "layer_backward_prop_end",
          "weights_optimize_begin", "weights_optimize_end"}

VARIABLES
  pc,                   \* where the coordinating thread is
  stopping,             \* m_stopping_criteria
  ctx,                  \* [CtxIds -> [epoch, step, early_stop]]
  modelCtx,             \* model.m_execution_context (set by reset_mode)
  dc,                   \* data coordinator: per-mode cursor and epoch latch
  isStartOfEpoch,       \* local of train()
  numValidationEpochs,  \* m_validation_epochs
  eval,                 \* the running evaluate(): context, mode, caller, term
  applies,              \* apply() calls made so far
  caliper,              \* Caliper's open-region stack and mismatch error
  caliperStarted,       \* profiler_caliper::m_manager.started
  es,                   \* early-stopping callback: last_score, wait, reports
  terminateTraining,    \* flag set by m->set_terminate_training(true)
  fired                 \* callback invocations made by the last step

vars == <<pc, stopping, ctx, modelCtx, dc, isStartOfEpoch, numValidationEpochs, eval,
          applies, caliper, caliperStarted, es, terminateTraining, fired>>

-----------------------------------------------------------------------------
(* Termination criteria (SGDTerminationCriteria, declared outside src/):   *)
(* the explicit bound OR'ed with the context's early-stop flag.            *)
Terminated(term, c) ==
  \/ c.early_stop
  \/ term.kind = "batches" /\ c.step >= term.bound
  \/ term.kind = "epochs" /\ c.epoch >= term.bound

(* make<SGDTrainingAlgorithm>: the factory builds m_stopping_criteria from  *)
(* the case of the stopping_criteria message.                              *)
StoppingCriteria(msg) ==
  [kind |-> IF msg.criterion = "max_batches" THEN "batches" ELSE "epochs",
   bound |-> msg.value]

(* data_coordinator::fetch_data(mode) advances the mode's cursor and       *)
(* latches whether this fetch exhausted the epoch; epoch_complete(mode)   *)
(* returns the latch.                                                      *)
FetchData(d, m) ==
  [d EXCEPT !.pos[m] = (@ + 1) % BatchesPerEpoch[m],
            !.done[m] = (d.pos[m] + 1 = BatchesPerEpoch[m])]
EpochComplete(d, m) == d.done[m]

(* Mutant: epoch_complete read before fetch_data.                          *)
BatchFinishedBeforeFetch(d, m) == EpochComplete(d, m)

(* The epoch-complete flag a mini-batch returns: read after fetch_data.    *)
BatchFinished(d, m) == EpochComplete(FetchData(d, m), m)

(* Mutants: inc_epoch or inc_step left out.                               *)
AfterBatchNoEpoch(c, finished) == [c EXCEPT !.step = @ + 1]
AfterBatchNoStep(c, finished) == [c EXCEPT !.epoch = IF finished THEN @ + 1 ELSE @]

(* The counters after one mini-batch: inc_step, and inc_epoch when the   *)
(* mini-batch returned "epoch complete".                                   *)
AfterBatch(c, finished) ==
  [c EXCEPT !.step = @ + 1, !.epoch = IF finished THEN @ + 1 ELSE @]

(* Loops only run below the counter cap (never reached by the checked     *)
(* configurations: ApplyReturns would fail if it were).                    *)
BelowCap(c) == c.step < MaxSteps /\ c.epoch < MaxSteps

(* A callback invocation: the hook, the context the model points at when   *)
(* it runs, the context the algorithm is driving, and whether the gated   *)
(* callback receives it.                                                   *)
Ev(h, seen, drive, gated) ==
  [hook |-> h, obj |-> "", seen |-> seen, drive |-> drive, gated |-> gated]

(* A per-layer or per-weights hook on object o.                            *)
ObjEv(h, o, c) == [hook |-> h, obj |-> o, seen |-> c, drive |-> c, gated |-> TRUE]

(* A begin/end pair around each object of the sequence os, in order.       *)
PerObject(b, e, os, c) ==
  [k \in 1 .. 2 * Len(os) |->
     ObjEv(IF k % 2 = 1 THEN b ELSE e, os[(k + 1) \div 2], c)]

(* The hooks model.forward_prop(mode) fires: the model-level begin, the    *)
(* begin/end of every layer in execution order, the model-level end; the   *)
(* evaluate variants outside training.                                     *)
ForwardPropHooks(m, c) ==
  IF m = Train
  THEN <<Ev("forward_prop_begin", c, c, TRUE)>>
       \o PerObject("layer_forward_prop_begin", "layer_forward_prop_end", Layers, c)
       \o <<Ev("forward_prop_end", c, c, TRUE)>>
  ELSE <<Ev("evaluate_forward_prop_begin", c, c, TRUE)>>
       \o PerObject("layer_evaluate_forward_prop_begin",
                    "layer_evaluate_forward_prop_end", Layers, c)
       \o <<Ev("evaluate_forward_prop_end", c, c, TRUE)>>

(* model.backward_prop(): the layers in reverse order.                     *)
BackwardPropHooks(c) ==
  <<Ev("backward_prop_begin", c, c, TRUE)>>
  \o PerObject("layer_backward_prop_begin", "layer_backward_prop_end", Reverse(Layers), c)
  \o <<Ev("backward_prop_end", c, c, TRUE)>>

(* model.update_weights(): one optimizer step per weights object.          *)
OptimizeHooks(c) ==
  <<Ev("optimize_begin", c, c, TRUE)>>
  \o PerObject("weights_optimize_begin", "weights_optimize_end", WeightsList, c)
  \o <<Ev("optimize_end", c, c, TRUE)>>

(* do_batch_begin_cbs / do_batch_end_cbs in training mode call a callback  *)
(* only when the model context's step is a multiple of its interval.       *)
BatchGate(step) == step % BatchInterval = 0

(* do_evaluate_begin_cbs / do_evaluate_end_cbs dispatch on the mode.       *)
(* Mutant: the end hooks of the validation and testing cases swapped.    *)
EvaluateEndHookSwapped(m) == IF m = "testing" THEN "validation_end" ELSE "test_end"
EvaluateBeginHook(m) == IF m = "testing" THEN "test_begin" ELSE "validation_begin"
EvaluateEndHook(m) == IF m = "testing" THEN "test_end" ELSE "validation_end"

(* The criterion train() hands to evaluate() for the validation pass:     *)
(* EpochTerminationCriteria(num_validation_epochs) on a context whose      *)
(* epoch counter carries over from pass to pass.                           *)
ValidationTermFirstOnly(n) == [kind |-> "epochs", bound |-> 1]
ValidationTerm(n) == [kind |-> "epochs", bound |-> n]

(* Caliper regions opened and closed by profiler_caliper's hooks.          *)
(* The region of a per-layer or per-weights hook is the prefix followed by  *)
(* the object's name ("fw:" + l->get_name()).                              *)
CaliperBegin == [epoch_begin |-> "epoch", validation_begin |-> "validation",
                 test_begin |-> "test", batch_begin |-> "batch",
                 batch_evaluate_begin |-> "batch_evaluate",
                 forward_prop_begin |-> "forward_prop",
                 evaluate_forward_prop_begin |-> "evaluate_forward_prop",
                 backward_prop_begin |-> "backward_prop",
                 optimize_begin |-> "optimize",
                 layer_forward_prop_begin |-> "fw:",
                 layer_evaluate_forward_prop_begin |-> "eval_fw:",
                 layer_backward_prop_begin |-> "bw:",
                 weights_optimize_begin |-> "opt:"]
CaliperEnd == [epoch_end |-> "epoch", validation_end |-> "validation",
               test_end |-> "test", batch_end |-> "batch",
               batch_evaluate_end |-> "batch_evaluate",
               forward_prop_end |-> "forward_prop",
               evaluate_forward_prop_end |-> "evaluate_forward_prop",
               backward_prop_end |-> "backward_prop",
               optimize_end |-> "optimize",
               layer_forward_prop_end |-> "fw:",
               layer_evaluate_forward_prop_end |-> "eval_fw:",
               layer_backward_prop_end |-> "bw:",
               weights_optimize_end |-> "opt:"]

CaliperMark(cal, e) ==
  IF e.hook \in DOMAIN CaliperBegin
  THEN [cal EXCEPT !.open = Append(@, CaliperBegin[e.hook] \o e.obj)]
  ELSE IF e.hook \in DOMAIN CaliperEnd
  THEN IF cal.open # <<>> /\ Last(cal.open) = CaliperEnd[e.hook] \o e.obj
       THEN [cal EXCEPT !.open = Front(@)]
       ELSE [cal EXCEPT !.err = TRUE]
  ELSE cal

(* The model hooks of one train_mini_batch() (forward_prop, backward_prop, *)
(* update_weights) and of one evaluate_mini_batch() on context c.          *)
TrainStepHooks == ForwardPropHooks(Train, Train) \o BackwardPropHooks(Train) \o OptimizeHooks(Train)
EvalStepHooks == [c \in CtxIds |-> ForwardPropHooks("validation", c)]

(* Mutant: the reset_mode before on_epoch_begin dropped; the model keeps  *)
(* pointing at the context it last served.                                 *)
EpochStartResetDropped(m0) == m0
(* Line 119: model.reset_mode(c, training) before on_epoch_begin; m0 is   *)
(* the context the model pointed at until then.                           *)
EpochStartReset(m0) == Train

(* train_mini_batch(): reset_mode(c, training) (line 182), on_batch_begin, *)
(* the model's step, inc_step, then on_batch_end; s0 and s1 are the       *)
(* training step before and after.                                         *)
TrainMiniBatchHooks(s0, s1) ==
  <<Ev("batch_begin", Train, Train, BatchGate(s0))>>
  \o TrainStepHooks
  \o <<Ev("batch_end", Train, Train, BatchGate(s1))>>

(* profiler_caliper's constructor starts the Caliper manager unless        *)
(* skip_init is set.                                                       *)
StartedAtConstruction == ~SkipInit

(* manager_wrapper::start(): started = true, once.                         *)
ManagerStart(started) == TRUE

(* Mutant: the skip_init start tested against epoch 2.                    *)
OnEpochBeginStartLate(started, epoch) ==
  IF SkipInit /\ epoch = 2 THEN ManagerStart(started) ELSE started
(* on_epoch_begin: with skip_init, start() when the model context's epoch *)
(* is 1, before the "epoch" region opens.                                  *)
OnEpochBeginStart(started, epoch) ==
  IF SkipInit /\ epoch = 1 THEN ManagerStart(started) ELSE started

(* Contexts on which the gated callback may set early_stop during evs.     *)
StopTargets(evs) ==
  {evs[i].seen : i \in {j \in DOMAIN evs : evs[j].hook \in StopHooks /\ evs[j].gated}}

WithStops(cs, targets) ==
  [c \in DOMAIN cs |-> [cs[c] EXCEPT !.early_stop = @ \/ c \in targets]]

(* Every step delivers its hooks to the profiler and records them.         *)
Observe(evs) ==
  /\ fired' = evs
  /\ caliper' = FoldLeft(CaliperMark, caliper, evs)

(* lbann_callback_early_stopping::on_validation_end for one score.        *)
Improves(score, last) ==
  IF LowerIsBetter THEN score < last ELSE score > last
RequestsStop(e, score) == ~Improves(score, e.last) /\ e.wait >= Patience
(* Mutant: ++wait also once patience is exhausted.                         *)
OnValidationEndAlwaysWait(e, score) ==
  LET e1 == [e EXCEPT !.reports = Append(@, score)]
  IN  IF Improves(score, e.last) THEN [e1 EXCEPT !.last = score, !.wait = 0]
      ELSE [e1 EXCEPT !.wait = @ + 1]
OnValidationEnd(e, score) ==
  LET e1 == [e EXCEPT !.reports = Append(@, score)]
  IN  IF Improves(score, e.last) THEN [e1 EXCEPT !.last = score, !.wait = 0]
      ELSE IF e.wait >= Patience THEN e1
      ELSE [e1 EXCEPT !.wait = @ + 1]

NoEval == [ctx |-> "none", mode |-> "none", caller |-> "none",
           term |-> [kind |-> "epochs", bound |-> 0]]

-----------------------------------------------------------------------------
Init ==
  /\ pc = "Idle"
  /\ stopping \in {StoppingCriteria(msg) : msg \in TermConfigs}
  /\ ctx = [c \in CtxIds |-> [epoch |-> 0, step |-> 0, early_stop |-> FALSE]]
  /\ modelCtx = "none"
  /\ dc = [pos |-> [m \in Modes |-> 0], done |-> [m \in Modes |-> FALSE]]
  /\ isStartOfEpoch = FALSE
  /\ numValidationEpochs = 1
  /\ eval = NoEval
  /\ applies = 0
  /\ caliper = [open |-> <<>>, err |-> FALSE]
  /\ caliperStarted = StartedAtConstruction
  /\ es = [last |-> 0, wait |-> 0, reports |-> <<>>]
  /\ terminateTraining = FALSE
  /\ fired = <<>>


-----------------------------------------------------------------------------
(* apply(context, model, dc, training) -> train() up to its loop: set the  *)
(* training mode, reset model and dc, fire on_train_begin.                 *)
ApplyTrain ==
  /\ pc = "Idle" /\ applies < MaxApplies
  /\ LET evs == <<Ev("train_begin", Train, Train, TRUE)>>
     IN  /\ Observe(evs)
         /\ \E t \in SUBSET StopTargets(evs) : ctx' = WithStops(ctx, t)
  /\ modelCtx' = Train
  /\ isStartOfEpoch' = TRUE
  /\ applies' = applies + 1
  /\ pc' = "TrainLoop"
  /\ UNCHANGED <<stopping, dc, numValidationEpochs, eval, caliperStarted, es, terminateTraining>>

(* apply(context, model, dc, m) for m in {validation, testing, prediction} *)
(* -> evaluate() up to its loop: reset model and dc to the caller's        *)
(* context, return early when the dc has no data for m, fail on a mode     *)
(* evaluate() does not accept, otherwise fire the evaluate-begin hook.     *)
ApplyEvaluate(m) ==
  /\ pc = "Idle" /\ applies < MaxApplies
  /\ m \in ApplyModes \cap {"validation", "testing", "prediction"}
  /\ modelCtx' = m
  /\ applies' = applies + 1
  /\ \/ /\ m \notin ValidModes
        /\ pc' = "Idle"
        /\ fired' = <<>>
        /\ UNCHANGED <<ctx, caliper, eval>>
     \/ /\ m \in ValidModes
        /\ m \notin {"validation", "tournament", "testing"}
        /\ pc' = "Aborted"
        /\ fired' = <<>>
        /\ UNCHANGED <<ctx, caliper, eval>>
     \/ /\ m \in ValidModes \cap {"validation", "tournament", "testing"}
        /\ LET evs == <<Ev(EvaluateBeginHook(m), m, m, TRUE)>>
           IN  /\ Observe(evs)
               /\ \E t \in SUBSET StopTargets(evs) : ctx' = WithStops(ctx, t)
        /\ eval' = [ctx |-> m, mode |-> m, caller |-> "apply",
                    term |-> stopping]
        /\ pc' = "EvalLoop"
  /\ UNCHANGED <<stopping, dc, isStartOfEpoch, numValidationEpochs, caliperStarted, es,
                 terminateTraining>>

(* apply() with any other mode: LBANN_ERROR("Illegal mode").               *)
ApplyIllegal(m) ==
  /\ pc = "Idle" /\ applies < MaxApplies
  /\ m \in ApplyModes \ {"training", "validation", "testing", "prediction"}
  /\ applies' = applies + 1
  /\ pc' = "Aborted"
  /\ fired' = <<>>
  /\ UNCHANGED <<stopping, ctx, modelCtx, dc, isStartOfEpoch, numValidationEpochs, eval,
                 caliper, caliperStarted, es, terminateTraining>>

(* One iteration of train()'s loop body: epoch start when flagged, one     *)
(* train_mini_batch(), and when the dc reports the end of the epoch:       *)
(* inc_epoch, reconcile_weight_values, on_epoch_end, then (when the dc has *)
(* validation data) evaluate() on m_validation_context up to its loop.     *)
TrainIteration ==
  /\ pc = "TrainLoop"
  /\ ~Terminated(stopping, ctx[Train])
  /\ BelowCap(ctx[Train])
  /\ LET t0 == ctx[Train]
         mEpoch == IF isStartOfEpoch THEN EpochStartReset(modelCtx) ELSE modelCtx
         finished == BatchFinished(dc, Train)
         t1 == AfterBatch(t0, finished)
         toVal == finished /\ "validation" \in ValidModes
         evs == (IF isStartOfEpoch THEN <<Ev("epoch_begin", mEpoch, Train, TRUE)>>
                 ELSE <<>>)
                \o TrainMiniBatchHooks(t0.step, t1.step)
                \o (IF finished THEN <<Ev("epoch_end", Train, Train, TRUE)>>
                    ELSE <<>>)
                \o (IF toVal THEN <<Ev("validation_begin", AlgoVal, AlgoVal, TRUE)>>
                    ELSE <<>>)
     IN  /\ dc' = FetchData(dc, Train)
         /\ Observe(evs)
         /\ \E t \in SUBSET StopTargets(evs) :
              ctx' = WithStops([ctx EXCEPT ![Train] = t1], t)
         /\ caliperStarted' = IF isStartOfEpoch
                              THEN OnEpochBeginStart(caliperStarted, ctx[mEpoch].epoch)
                              ELSE caliperStarted
         /\ isStartOfEpoch' = finished
         /\ IF toVal
            THEN /\ modelCtx' = AlgoVal
                 /\ eval' = [ctx |-> AlgoVal, mode |-> "validation", caller |-> "train",
                             term |-> ValidationTerm(numValidationEpochs)]
                 /\ pc' = "EvalLoop"
            ELSE /\ modelCtx' = Train
                 /\ UNCHANGED eval
                 /\ pc' = "TrainLoop"
  /\ UNCHANGED <<stopping, numValidationEpochs, applies, es, terminateTraining>>

(* train() after its loop: reset the model to the training context and     *)
(* fire on_train_end; apply() returns.                                     *)
TrainFinish ==
  /\ pc = "TrainLoop"
  /\ Terminated(stopping, ctx[Train])
  /\ LET evs == <<Ev("train_end", Train, Train, TRUE)>>
     IN  /\ Observe(evs)
         /\ \E t \in SUBSET StopTargets(evs) : ctx' = WithStops(ctx, t)
  /\ modelCtx' = Train
  /\ pc' = "Idle"
  /\ UNCHANGED <<stopping, dc, isStartOfEpoch, numValidationEpochs, eval, applies,
                 caliperStarted, es, terminateTraining>>

(* One iteration of evaluate()'s loop: evaluate_mini_batch(), inc_epoch    *)
(* when the dc reports the end of the epoch.                               *)
EvalIteration ==
  /\ pc = "EvalLoop"
  /\ ~Terminated(eval.term, ctx[eval.ctx])
  /\ BelowCap(ctx[eval.ctx])
  /\ LET c == eval.ctx
         m == eval.mode
         finished == BatchFinished(dc, m)
         evs == <<Ev("batch_evaluate_begin", c, c, TRUE)>>
                \o EvalStepHooks[c]
                \o <<Ev("batch_evaluate_end", c, c, TRUE)>>
     IN  /\ dc' = FetchData(dc, m)
         /\ Observe(evs)
         /\ \E t \in SUBSET StopTargets(evs) :
              ctx' = WithStops([ctx EXCEPT ![c] = AfterBatch(@, finished)], t)
  /\ UNCHANGED <<stopping, pc, modelCtx, isStartOfEpoch, numValidationEpochs, eval, applies,
                 caliperStarted, es, terminateTraining>>

(* evaluate() after its loop: fire the evaluate-end hook (the early        *)
(* stopping callback runs on on_validation_end), then return: to apply(),  *)
(* or to train(), which bumps m_validation_epochs and copies the           *)
(* validation context's early-stop flag into the training context.         *)
EvalFinish ==
  /\ pc = "EvalLoop"
  /\ Terminated(eval.term, ctx[eval.ctx])
  /\ LET c == eval.ctx
         h == EvaluateEndHook(eval.mode)
         evs == <<Ev(h, modelCtx, c, TRUE)>>
     IN  /\ Observe(evs)
         /\ \E score \in Scores, t \in SUBSET StopTargets(evs) :
              LET esStop == h = "validation_end" /\ RequestsStop(es, score)
                  ctx1 == WithStops(ctx, t \cup (IF esStop THEN {c} ELSE {}))
              IN  /\ es' = IF h = "validation_end" THEN OnValidationEnd(es, score) ELSE es
                  /\ terminateTraining' = (terminateTraining \/ esStop)
                  /\ IF eval.caller = "train"
                     THEN /\ ctx' = [ctx1 EXCEPT ![Train].early_stop = ctx1[AlgoVal].early_stop]
                          /\ numValidationEpochs' = numValidationEpochs + 1
                          /\ pc' = "TrainLoop"
                     ELSE /\ ctx' = ctx1
                          /\ UNCHANGED numValidationEpochs
                          /\ pc' = "Idle"
  /\ eval' = NoEval
  /\ UNCHANGED <<stopping, modelCtx, dc, isStartOfEpoch, applies, caliperStarted>>

(* The caller stops calling apply(), or the process aborted.               *)
Done ==
  /\ \/ pc = "Idle" /\ applies = MaxApplies
     \/ pc = "Aborted"
  /\ UNCHANGED vars

Caller == ApplyTrain \/ \E m \in Modes : ApplyEvaluate(m) \/ ApplyIllegal(m)
Algorithm == TrainIteration \/ TrainFinish \/ EvalIteration \/ EvalFinish

Next == Caller \/ Algorithm \/ Done

Spec == Init /\ [][Next]_vars

(* ENABLED <<Algorithm>>_vars written out: the loops' guards (every step   *)
(* of Algorithm changes pc or a step counter, so none is a stutter, and   *)
(* the choices of scores and stop targets are never empty).                *)
AlgorithmEnabled ==
  \/ pc = "TrainLoop" /\ (Terminated(stopping, ctx[Train]) \/ BelowCap(ctx[Train]))
  \/ pc = "EvalLoop" /\ (Terminated(eval.term, ctx[eval.ctx]) \/ BelowCap(ctx[eval.ctx]))

(* The coordinating thread never stalls inside a run: every collaborator   *)
(* call returns (section 5 of the spec), so the algorithm's own steps are  *)
(* weakly fair; the caller's apply() calls are not.  This is              *)
(* WF_vars(Algorithm) by its definition, with AlgorithmEnabled for the     *)
(* ENABLED term.                                                           *)
FairSpec == Spec /\ (<>[]AlgorithmEnabled => []<><<Algorithm>>_vars)

-----------------------------------------------------------------------------
(***************************************************************************)
(* Properties                                                              *)
(***************************************************************************)
Ctx == [epoch : Nat, step : Nat, early_stop : BOOLEAN]
Event == [hook : Hooks, obj : STRING, seen : CtxIds, drive : CtxIds, gated : BOOLEAN]

TypeOK ==
  /\ pc \in {"Idle", "TrainLoop", "EvalLoop", "Aborted"}
  /\ ctx \in [CtxIds -> Ctx]
  /\ modelCtx \in CtxIds \cup {"none"}
  /\ dc \in [pos : [Modes -> Nat], done : [Modes -> BOOLEAN]]
  /\ \A m \in Modes : dc.pos[m] < BatchesPerEpoch[m]
  /\ isStartOfEpoch \in BOOLEAN
  /\ numValidationEpochs \in Nat \ {0}
  /\ eval \in {NoEval} \cup [ctx : CtxIds, mode : Modes, caller : {"apply", "train"},
                             term : [kind : {"batches", "epochs"}, bound : Nat]]
  /\ applies \in 0..MaxApplies
  /\ caliper \in [open : Seq(STRING), err : BOOLEAN]
  /\ caliperStarted \in BOOLEAN
  /\ es \in [last : Nat, wait : 0..Patience, reports : Seq(Scores)]
  /\ terminateTraining \in BOOLEAN
  /\ fired \in Seq(Event)

(* Every callback runs while the model points at the execution context of  *)
(* the phase that fires it.  A callback reads m->get_execution_context(),  *)
(* the pointer the last reset_mode set, which persists across steps: after *)
(* a validation pass inside train() it still names m_validation_context    *)
(* until train() resets it (lines 119, 167, 182), so the next epoch's      *)
(* hooks, and any early-stop flag they set, would otherwise land on the    *)
(* validation context.                                                     *)
CallbacksSeeOwnContext ==
  \A i \in DOMAIN fired : fired[i].seen = fired[i].drive

(* The training context's counters stay in step with the data coordinator: *)
(* step = epoch * batches-per-epoch + the training cursor, across          *)
(* validation passes, evaluations of other modes and repeated apply()      *)
(* calls.  This is the spec's "the epoch counter advances exactly once per *)
(* N/B mini-batch calls", which rests on reading epoch_complete after      *)
(* fetch_data in train_mini_batch().                                       *)
EpochAccounting ==
  ctx[Train].step = ctx[Train].epoch * BatchesPerEpoch[Train] + dc.pos[Train]

(* When the dc has validation data, train() runs exactly one validation    *)
(* epoch per completed training epoch: outside a validation pass,          *)
(* m_validation_context has completed m_validation_epochs - 1 epochs, as   *)
(* many as the training context, unless a callback stopped it.             *)
ValidationLockstep ==
  ( /\ "validation" \in ValidModes
    /\ ~(pc = "EvalLoop" /\ eval.caller = "train")
    /\ ~ctx[AlgoVal].early_stop )
  => /\ ctx[AlgoVal].epoch = numValidationEpochs - 1
     /\ ctx[AlgoVal].epoch = ctx[Train].epoch

(* The profiler's Caliper regions nest: every end hook closes the          *)
(* innermost open region (epoch, validation, test, batch, batch_evaluate). *)
CaliperRegionsNested == ~caliper.err

(* With skip_init the profile leaves out exactly the first training epoch: *)
(* the manager is not started while epoch 0 runs, and it has been started *)
(* by the time epoch 1 has completed, across validation passes and        *)
(* repeated apply() calls (on_epoch_begin must see epoch 1 once).          *)
ProfilerSkipsOnlyFirstEpoch ==
  SkipInit =>
    /\ caliperStarted => ctx[Train].epoch >= 1
    /\ ctx[Train].epoch >= 2 => caliperStarted

(* Every training or evaluation run that apply() starts returns to the     *)
(* caller (or aborts): the loops of train() and evaluate() terminate.      *)
ApplyReturns ==
  (pc \in {"TrainLoop", "EvalLoop"}) ~> (pc \in {"Idle", "Aborted"})

(* Refinement: the phase of TrainingRunAbstract that each place of the     *)
(* coordinating thread stands for; a validation pass is an evaluate() run  *)
(* called from train().                                                    *)
AbsPhase ==
  CASE pc = "EvalLoop" /\ eval.caller = "train" -> "Validating"
    [] pc = "EvalLoop"                          -> "Evaluating"
    [] pc = "TrainLoop"                         -> "Training"
    [] OTHER                                    -> pc

Abs == INSTANCE TrainingRunAbstract
         WITH HasValidation <- "validation" \in ValidModes,
              phase <- AbsPhase,
              epoch <- ctx[Train].epoch,
              valEpoch <- ctx[AlgoVal].epoch,
              valStop <- ctx[AlgoVal].early_stop

(* The algorithm implements the abstract training run: with mini-batches,  *)
(* callbacks and the data coordinator hidden, train() advances the         *)
(* training epoch one at a time, follows each epoch end with a validation  *)
(* pass that completes at most one validation epoch, and ends that pass    *)
(* early only after a stop was requested on m_validation_context; the      *)
(* caller's evaluate() runs leave both counters alone.                     *)
RefinesTrainingRun == Abs!AbsSpec

(* Violated by the code: see PROJECT.json findings.                        *)

(* Once the training context's early-stop flag is set, it stays set: a     *)
(* stop requested during training ends the loop at the next check.         *)
EarlyStopNotLost ==
  [][ctx[Train].early_stop => ctx'[Train].early_stop]_vars

(* Begin and end hooks come in pairs (spec: "each with begin/end           *)
(* pairing: train, epoch, batch, ..."): once apply() has returned, every   *)
(* Caliper region a begin hook opened during it has been closed again.     *)
(* train() leaves its loop at the next termination check, which may fall   *)
(* in the middle of an epoch, after on_epoch_begin and before              *)
(* on_epoch_end.                                                           *)
CaliperClosedWhenIdle == pc = "Idle" => caliper.open = <<>>

(* The early-stopping callback never stops training while every validation *)
(* score reported so far improved on the one before it.                    *)
Stalled(rs) == \E i \in 2..Len(rs) : ~Improves(rs[i], rs[i - 1])
EarlyStopOnlyOnStall == terminateTraining => Stalled(es.reports)

=============================================================================
