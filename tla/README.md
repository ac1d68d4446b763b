# TLA+ models of LBANN's execution core

This directory holds TLA+ models of the control core of LBANN's training
toolkit. The models are checked with TLC.

The core is the SGD training algorithm
(`src/src/execution_algorithms/sgd_training_algorithm.cpp`). It drives one
model and one data coordinator through epochs, mini-batches and validation
passes, and it notifies the model's callbacks at every hook. Two callbacks are
modelled with it: the Caliper profiler and early stopping.

The other modules model:
- the LTFB partner-model exchange;
- the rank-split loading of the npz conduit reader;
- the `compute_min_max_images` MPI tool;
- the distributed categorical-accuracy metric;
- the processes of one trainer running `train()` in lock-step through its
  collectives;
- the construction of a layer from its prototext message (`construct_layer`).

An abstract specification of a training run is refined by the SGD model.

## 1. The system and its parts

| Part | Source | Role | Module |
|------|--------|------|--------|
| SGD training algorithm | `sgd_training_algorithm.cpp` | `apply` routes by mode. `train` loops over mini-batches, closes epochs and runs a validation pass after each epoch. `evaluate` loops under a criterion. `do_*_cbs` fire callbacks. | `SGDTraining` |
| Termination criteria | factory at `sgd_training_algorithm.cpp:461-509`; `operator()` outside `src/` | The configuration's `stopping_criteria` message picks batches ≥ N, epochs ≥ N or seconds ≥ N, each OR'ed with the context's early-stop flag | `SGDTraining` (`stopping`, `StoppingCriteria`), `SGDCollective` (adds seconds) |
| Execution context | outside `src/` | Holds epoch, step and early_stop. It is one per caller's mode, plus `m_validation_context`. | `SGDTraining` (`ctx`) |
| Model | `model.hpp` | `reset_mode` sets `m_execution_context`, which is the context callbacks read. `forward_prop`, `backward_prop` and `update_weights` fire the model, layer and weights hooks. | `SGDTraining` (`modelCtx`, hook tables) |
| Data coordinator | outside `src/` | `fetch_data(mode)` advances the cursor. `epoch_complete(mode)` reports the epoch end. | `SGDTraining` (`dc`, spec-modelled) |
| Early-stopping callback | `lbann_callback_early_stopping.cpp` | Tracks last_score, wait and patience in `on_validation_end`, then calls `set_terminate_training` | `SGDTraining` (`es`) |
| Caliper profiler | `profiler_caliper.cpp/.hpp` | Begin and end hooks open and close named regions. `skip_init` starts profiling at epoch 1. | `SGDTraining` (`caliper`, `caliperStarted`) |
| What a training run promises | spec | Epochs advance one at a time. Each may be followed by a validation pass. The run ends at its bound or at a stop. | `TrainingRunAbstract` |
| LTFB partner exchange | `ltfb/checkpoint_binary.cpp` | `get_partner_model` copies the model, keeps the weights not exchanged, swaps with the partner and restores the kept weights | `LTFBExchange` |
| npz conduit reader | `data_reader_numpy_npz_conduit.cpp` | `load` splits samples round-robin over ranks and collects label classes. `fetch_*` read a stored sample. | `NpzLoad` |
| compute_min_max_images | `model_zoo/jag_utils/compute_min_max_images.cpp` | The master checks its setup and broadcasts the file list. Each rank folds min and max over its files, then `MPI_Reduce`. | `MinMaxImages` |
| Categorical accuracy | `lbann_metric_categorical_accuracy.cpp` | Column arg-max on a process grid, a MAX all-reduce of the indices, and a sum of per-owner errors | `CategoricalAccuracy` |
| Collectives across ranks of a trainer | `sgd_training_algorithm.cpp` (train loop, `train_mini_batch`, `evaluate_mini_batch`), `model.hpp` | `finish_evaluation`, `evaluate_metrics` and `reconcile_weight_values` return only when every process of the trainer has entered them | `SGDCollective` |
| Layer factory | `src/proto/factories/layer_factory.cpp` | `construct_layer<T, L, D>` asks the per-(T, L, D) builder factory, falls back to `construct_layer_legacy` for the default `DataType` only, and sets the grid tag | `LayerFactory` |
| mini_batch_index, data_type_optimizer, LTFB mutation strategies, unit tests | — | Tensor kernels, declarations and tests | not modelled |

How the SGD parts interact:
- The caller (the trainer) calls `apply(mode)`. `train` first resets the model
  and dc to the training context.
- Each loop iteration is one `train_mini_batch`:
  - it fetches a mini-batch and fires the batch hooks;
  - in between, it fires the hooks of `forward_prop`, `backward_prop` and
    `update_weights`: model-level, then per layer (reversed for backward),
    then per weights object.
- At an epoch end, `train` fires `on_epoch_end`. If the dc has validation data,
  it then runs `evaluate` on its own `m_validation_context` with
  `EpochTerminationCriteria(m_validation_epochs)`.
- After the validation pass, it copies the validation context's early-stop flag
  into the training context.
- Callbacks read the model's current execution context. A callback that wants
  training to stop sets that context's early-stop flag.

## 2. Modules

### `SGDTraining`

Its state follows the code:
- `pc` is where the coordinating thread is: Idle, TrainLoop, EvalLoop or Aborted.
- `stopping` is `m_stopping_criteria`, built by the factory from one of the
  `TermConfigs` messages in `Init`, so a run can check both criteria.
- `ctx` holds one context record per caller's mode, plus `m_validation_context`.
- `modelCtx` is `model.m_execution_context`.
- `dc` holds a cursor and an epoch latch per mode.
- `isStartOfEpoch` is the local of `train`.
- `numValidationEpochs` is `m_validation_epochs`.
- `eval` is the running `evaluate`: its context, mode, caller and criterion.
- `caliper` is the stack of open regions plus a mismatch flag.
- `caliperStarted` is whether the Caliper manager has started.
- `es` is the early-stopping callback's state.
- `fired` is the callbacks fired by the last step. Each one records the hook,
  the object (layer or weights) for per-object hooks, the context the model
  pointed at and the context being driven.

One action is one whole handler, or one whole loop iteration:

| Action | Code |
|--------|------|
| `ApplyTrain` | `apply` → `train` up to its loop (resets, `on_train_begin`) |
| `ApplyEvaluate(m)` | `apply` → `evaluate`: the early return for a mode without data, the `LBANN_ERROR` for a rejected mode, or the begin hook |
| `ApplyIllegal(m)` | `apply`'s default case |
| `TrainIteration` | One body of `train`'s `while`: `epoch_begin` (which starts Caliper under `skip_init`), `train_mini_batch` with all its model hooks, `inc_epoch`/`on_epoch_end`, and entry into the validation pass |
| `TrainFinish` | `reset_mode` and `on_train_end` after the loop |
| `EvalIteration` | `evaluate_mini_batch` (with the forward-prop hooks) and `inc_epoch` |
| `EvalFinish` | The end hook (with early stopping), and the return to `apply` or to `train` (`++m_validation_epochs` and the copy of the flag at line 156) |
| `Done` | The caller stops calling, or the process aborted |

The Caliper marks are a table from hook to region name. A per-object region
is the hook's prefix (`fw:`, `bw:`, `opt:`, `eval_fw:`) followed by the object's
name. Each event records the context the model pointed at when the hook ran
(`seen`) and the context of the phase that fired it (`drive`). `seen` is
what the preceding `reset_mode` set: `EpochStartReset` (line 119) before
`on_epoch_begin`; the reset in `train_mini_batch` or `evaluate_mini_batch`
before batch and model hooks; and `modelCtx` as left by the last
iteration before the `evaluate` end hooks, which no reset precedes.

The hook sequence of one mini-batch is a constant
(`TrainStepHooks`, `EvalStepHooks`) over the `Layers` and `WeightsList`
constants.

Abstractions:
- Tensor work is left out.
- The metric value is chosen from `Scores`.
- A third callback, with batch interval `BatchInterval`, may set the early-stop
  flag of the context it sees at any hook in `StopHooks`. This stands for any
  user callback.
- `MaxSteps` caps every context's counters. The checked configurations never
  reach it: `ApplyReturns` would fail if they did. It exists so that a mutant
  with a non-terminating loop reaches a finite counterexample.

### `SGDCollective`

It models every process of one trainer running `train()` at once, with the
tensor work abstracted away and the collectives kept. State is per process
(`[Ranks -> ...]`): the control point `pc`, the training context `tctx`,
`m_validation_context` (`vctx`), `m_validation_epochs`, the dc cursors, the
running mini-batch's `epoch_complete` flag and local error count, the
validation pass's reduced and local error sums, and the early-stopping
callback's `last_score` and `wait`.

A control point is either a local termination check (`train`, `val`) or the
call site of a collective. Actions:
- `TrainCheck(r)`: `train`'s criterion check, then the fetch and
  `forward_prop`/`backward_prop` up to the objective's `finish_evaluation`;
- `ValCheck(r)`: `evaluate`'s criterion check; at the end of the pass the
  early-stopping callback, `++m_validation_epochs` and the copy of the flag
  at line 156; otherwise a validation fetch with a local error count chosen
  from `LocalErrs`;
- `FinishEvaluation`, `TrainMetrics`, `ReconcileWeightValues`, `ValMetrics`:
  a collective is one joint step, enabled only when every process is at the
  same call site (`AllAt`). `ValMetrics` is the all-reduce of the error count;
- `Returned`: the run has ended on every process.

The seconds criterion reads each process's own clock: `TimeOuts` lets each
process's check time out or not, independently, and forces it after
`MaxSteps` mini-batches.

### `LayerFactory`

It models one call of `construct_layer<T, L, D>` (`layer_factory.cpp:582-611`).
`Init` chooses the call: a layer message, the template arguments and the
training reader's data size (-1 without a training reader). `Construct` is
the whole call:
- `CreateObject` looks the message's type name up in `DefaultBuilders`, the
  names `register_default_builders` registers. An unregistered name gives
  nullptr. A registered builder is outside this file: it returns a layer of
  (T, L, D) or throws, chosen nondeterministically.
- Without a builder, `ConstructLayerLegacy` runs, and only for the default
  `DataType`; any other type throws. It is split as the code is: the input
  layer, `TransformLayer`, `RegularizerLayer` and `OtherLayer`, the last one
  ending in "could not construct layer". `OnDataParallel` and
  `OnDataParallelCPU` are the legacy layers whose instantiation is fixed to
  `DATA_PARALLEL`, or to `DATA_PARALLEL` on CPU.
- The parameter errors are kept: reshape from the reader without a training
  reader, slice with fewer than two points, and an unknown batch-norm
  `stats_aggregation`.
- `set_grid_tag` is applied to the returned layer.

`Returned` stutters once the layer or the exception is handed back.
Hyper-parameters and their defaults (mean and stdev, decay, alpha, ...) are
data and left out. A layer is its type name, tensor type, layout, device and
grid tag.

### `TrainingRunAbstract` and the refinement

`TrainingRunAbstract` has four variables:
- `phase`: Idle, Training, Validating, Evaluating or Aborted;
- the training epoch;
- the validation epoch;
- the validation stop flag.

Its actions:
- a training epoch ends and may enter validation;
- validation advances one epoch at a time until it catches up with training,
  or is stopped;
- a run ends, or the process aborts.

`SGDTraining` defines `Abs == INSTANCE TrainingRunAbstract WITH ...`. The
mapping:
- sends `EvalLoop` to Validating when `train` called it, and to Evaluating
  otherwise;
- takes the epochs and the stop flag from `ctx[Train]` and
  `ctx[AlgoVal]`.

Mini-batches, callbacks and the dc are hidden. `RefinesTrainingRun ==
Abs!AbsSpec` is checked as a PROPERTY in `sgd_epochs`.

### `LTFBExchange`

It models two trainers of an LTFB pair, each running `get_partner_model`
(`checkpoint_binary.cpp:52-74`) while the other may still be training.

State per trainer:
- `local`, the trained model;
- `steps`;
- `pc`;
- `partner`, the model being built;
- `restore`, the kept weights;
- `copied`, the model at copy time.

Actions:
- `TrainStep`;
- `CopyModel`, which is `copy_model`;
- `KeepWeights`: when `weights_names` is empty nothing is kept, otherwise
  every other weight is kept;
- `Exchange`, a joint step of both partners, since `exchange_models` is a
  send/receive pair;
- `Restore`: the kept weights are written back.

The exchange itself is outside `src/` and is modelled from the spec.

### `NpzLoad`

It models the ranks of a trainer running `load()` over one list file.

A line of the list is abstracted to:
- whether it is a usable name;
- the label and the first data word of its npz file;
- the word sizes of its data and labels.

Actions:
- `LoadLine`: one iteration of the getline loop (ownership, first-sample
  checks, label classes, store, count);
- `FinishLoad`: the label-class sanity checks;
- `FetchLabel`, `FetchDatum` and `FetchResponse`:
  - a label fetch fails without labels;
  - a datum fetch with 4- or 8-byte words dereferences NULL;
  - a response fetch fails without responses, and otherwise writes nothing.

### `MinMaxImages`

Every rank of the MPI job runs `main`:
- `Setup` is the master's argument, mkdir and file-list checks;
- `Broadcast` is `world_broadcast`;
- `OpenFile` is the strided file loop and the open or list failures;
- `ReadSample` is one sample: its success flag, then views folded until the
  first unreadable image;
- `Reduce` is the MAX/MIN `MPI_Reduce` to the master.

Pixel values are a small set of integers, and `FltMin` stands for FLT_MIN.

### `CategoricalAccuracy`

It models `compute_metric` on a `GridH x GridW` process grid:
- `ColumnMax`: the column maxima;
- `ScanMax(p)`: the local arg-max scan, where the last local hit wins and
  missing entries stay 0;
- `AllreduceIndex`: the MAX all-reduce of the indices;
- `CountErrors(p)`: the per-owner error count;
- `AllreduceErrors`: the sum.

The reference is a RECURSIVE sequential arg-max with the highest index winning
ties.

## 3. Runs

`MC_SGDTraining.tla` fixes the data sets:
- 2 training mini-batches per epoch;
- 2 validation mini-batches per epoch;
- 1 mini-batch per epoch for the other modes;
- scores {1, 2};
- layers `<<"input", "fc">>`;
- one weights object.

| Run | cfg | Expect | What it shows |
|-----|-----|--------|---------------|
| sgd_epochs | `MC_SGDTraining_epochs.cfg` | pass | `max_epochs 2` or `max_batches 3` (which stops mid-epoch), validation and testing data present, 3 calls to `apply` of any mode, and stops possible at 5 hooks. See the list below the table. |
| early_stop_lost | `..._early_stop_lost.cfg` | violation | `EarlyStopNotLost`: a stop requested in `on_epoch_end` is overwritten at line 156. |
| epoch_pairing | `..._epoch_pairing.cfg` | violation | `CaliperClosedWhenIdle`: under `max_batches 3`, `train()` returns mid-epoch after `on_epoch_begin` and without `on_epoch_end`, so the profiler's `epoch` region stays open. |
| early_stop_score | `..._early_stop_score.cfg` | violation | `EarlyStopOnlyOnStall`: for a lower-is-better metric, `last_score = 0` makes early stopping fire on improving scores. |
| minmax_ranks | `MC_MinMaxImages_ranks.cfg` | pass | 2 ranks, every list of 3 files of 5 kinds. The reduced range and count equal one sequential scan (`ScanCoversEveryFileOnce`), and every rank returns (`AllRanksReturn`). |
| minmax_usage_hang | `MC_MinMaxImages_usage_hang.cfg` | violation | `AllRanksReturn`: without `--filelist` only the master throws, and the other rank waits in the broadcast forever. |
| npz_ranks | `MC_NpzLoad_ranks.cfg` | pass | 2 ranks, every 3-line list: the stores partition the samples by index, and every rank counts them all (`StoresPartitionSamples`). |
| catacc_grid | `MC_CategoricalAccuracy_grid.cfg` | pass | A 2x2 grid, every 3x2 prediction over {0,1,2} (ties included) and every one-hot truth. The distributed count equals the sequential reference (`ErrorsMatchReference`). |
| ltfb_pair | `MC_LTFBExchange_pair.cfg` | pass | 2 trainers, up to 2 training steps each, any interleaving, every choice of exchanged names. The partner model is the partner's exchanged weights plus one's own copy-time weights, and the trained model is untouched (`PartnerModelComposition`). |
| collective_lockstep | `MC_SGDCollective_lockstep.cfg` | pass | 2 processes, `max_epochs 2` or `max_batches 3`, validation with early stopping on per-process error counts: every collective is entered by all processes at the same call site (`CollectivesMatch`) and every process returns (`AllRanksReturn`). |
| layer_factory | `MC_LayerFactory_requests.cfg` | pass | Every message of all 26 legacy layer types, two registered types and one unknown type, for tensor types {float, double}, both layouts and both devices, with and without a training reader. Whatever `construct_layer` returns is a layer of exactly the requested tensor type, layout and device, with the message's grid tag (`ConstructedAsRequested`). |
| collective_seconds | `MC_SGDCollective_seconds.cfg` | violation | `CollectivesMatch`: under `max_seconds` one process leaves `train()` while the other waits in `finish_evaluation`. |

In `sgd_epochs` all of the following hold:
- callbacks see their phase's context (`CallbacksSeeOwnContext`). Each
  event records `modelCtx`, the model's context pointer as the last
  `reset_mode` left it, and the context of the phase that fires it. The
  pointer persists across actions: a validation pass leaves it at
  `m_validation_context`, and only the resets at lines 119, 167 and 182
  bring it back before the next training hook;
- counters match the dc cursor (`EpochAccounting`);
- one validation epoch follows each training epoch (`ValidationLockstep`);
- all Caliper regions nest, per-layer and per-weights ones included
  (`CaliperRegionsNested`);
- `skip_init` skips exactly the first epoch (`ProfilerSkipsOnlyFirstEpoch`);
- every run returns (`ApplyReturns`);
- the algorithm refines `TrainingRunAbstract` (`RefinesTrainingRun`).

Why the bounds are enough:
- **SGD.** Two batches per epoch and two epochs give:
  - an epoch that ends mid-run;
  - a validation pass after each epoch;
  - a second validation pass whose bound depends on the first one.

  Three calls to `apply` cover train-after-evaluate and train-after-train, so
  the state carried across calls is exercised: `m_validation_context`,
  `m_validation_epochs` and the dc cursors. A batch interval of 2 makes the
  gate both open and closed. Two layers are enough to distinguish forward from
  reversed backward order.
- **SGDCollective.** Two processes are the least that can disagree. Two
  training batches and one validation batch with two epochs give every
  collective site and a second validation pass; error counts {0,1} per
  process make the local and the reduced score differ, and patience 0 makes
  early stopping fire on the first non-improving pass, so a stop mid-run is
  reached. `MaxSteps 4` bounds the seconds criterion only.
- **LayerFactory.** The run covers all 26 legacy layer types, registered and
  unknown names, and every (T, L, D) with T both the default and another
  type, so every branch of `construct_layer` and `construct_layer_legacy` is
  taken, every parameter error included. The run has 44,544 states.
- **MinMaxImages.** Two ranks with three files give each rank a stride of two
  and one rank two files. The file kinds cover open failure, list failure,
  an unreadable flag, a failed simulation, a partial image read, and dark and
  bright views.
- **NpzLoad.** Two ranks and three lines of every kind (short names,
  different labels and word sizes) give both owners, skipped lines between
  owned ones, and a failing first sample on either rank.
- **CategoricalAccuracy.** A 2x2 grid over a 3x2 matrix puts a column's rows
  on two grid rows and makes one grid row hold two rows. Values {0,1,2} give
  ties within and across processes.
- **LTFBExchange.** Two training steps let a trainer train before its copy,
  between copy and exchange, and after the exchange.

**Fairness.**
- `SGDTraining`'s `FairSpec` adds weak fairness on the algorithm's own steps
  (`Algorithm`). The coordinating thread runs `train` and `evaluate`
  sequentially, and every collaborator call returns (spec §5), so an enabled
  loop step is eventually taken. The caller's `apply` calls get no fairness.
  - The fairness is written out as `<>[]AlgorithmEnabled => []<><<Algorithm>>_vars`.
  - `AlgorithmEnabled` is the enabling condition spelled out. This avoids
    TLC's evaluation of `ENABLED` over long hook sequences.
  - It was checked equal to `ENABLED <<Algorithm>>_vars` on configurations
    without layers.
- `MinMaxImages` has weak fairness per rank: each rank is its own OS process.
- `SGDCollective` has weak fairness on each process's local steps
  (`Rank(r)`) and on the collectives (`Release`): each process is its own
  OS process, and an MPI collective completes once every process of the
  communicator has entered it.
- The other modules check safety only.

Every property of a passing run has a mutant in `PROJECT.json`. A mutant is a
plausible bug in the mapped code, and TLC finds the property violated once the
bug is in. Among them:
- the early-stopping `wait` counter growing past patience;
- early stopping reading the process's own error count instead of the
  all-reduced one (`ReportedScoreLocal`), which lets the processes disagree
  on stopping;
- `reset_mode` before `on_epoch_begin` (line 119) dropped, so that after a
  validation pass the next epoch's hooks see `m_validation_context`;
- `epoch_complete` read before `fetch_data`;
- a fixed validation bound;
- swapped end hooks;
- a missing `inc_epoch`;
- Caliper started one epoch late;
- the first file index shifted;
- `MPI_Reduce` on the wrong buffer;
- the sample counted only when owned;
- the first arg-max hit kept;
- the empty-names test in `get_partner_model` dropped;
- the legacy fallback of `construct_layer` taken for every tensor type, so a
  `DataType` layer stands in for a `double` one.

## 4. Findings

See `PROJECT.json` → findings:
1. `sgd_training_algorithm.cpp:156` clears a training stop requested by a
   callback.
2. `train()` leaves its loop mid-epoch (line 115) without `on_epoch_end`,
   so the begin/end pairing the spec promises breaks and a profiler region
   stays open.
3. The early-stopping callback's initial `last_score` of 0.0 stops training on
   improving losses.
4. `compute_min_max_images` hangs on a usage error: only the master throws,
   and the other ranks block in the broadcast.
5. `SecondsTerminationCriteria` (factory line 478) is decided per process, so
   processes of one trainer can diverge and deadlock in a collective.

Observations not made runs (each is listed as a hazard in `PROJECT.json`):
- The gating of batch callbacks (lines 405 and 430) never pairs begin with
  end when the interval is greater than 1.
- `compute_min_max_images` initialises the maximum to FLT_MIN, not -FLT_MAX,
  so all-dark views report FLT_MIN.
- The npz reader's `m_num_labels` is per-rank: `label_classes` is never
  all-reduced, which the TODO at line 147 acknowledges. `NpzLoad` models it
  (`numLabels`), but no run is kept for it.
- `selu_dropout` (layer factory, line 463) keeps alpha and scale only when
  both are non-zero, so an alpha set on its own is silently replaced by the
  default.
- `apply(prediction)` is routed to `evaluate`, which rejects it with
  `LBANN_ERROR`. `ApplyEvaluate` models this.
- `data_reader_numpy_npz_conduit.cpp` does not compile as written (e.g. lines
  108, 123, 203), so its fetch bugs are latent. They are modelled but kept out
  of the runs, and listed as hazards:
  - `fetch_label` reads the data array;
  - `fetch_datum` dereferences NULL for 4- and 8-byte words;
  - `fetch_response` copies nothing.

## 5. Plan

1. `apply(validation)` under `max_batches` leaves the validation cursor
   mid-epoch for the next call (line 81).
2. A resumed run under `skip_init`: the start epoch would come from a
   checkpoint.
3. `SGDCollective` with the callbacks of `SGDTraining` composed in.

The project keeps at most twelve TLC runs. Each hazard in `PROJECT.json` that
has no property yet is a disagreement that a violation run of its own would
show: SGD lines 81 and 430, `compute_min_max_images` lines 134 and 205, and
the npz label count. The runs kept are the ones whose findings are not
acknowledged in the code.

## 6. Not modelled

- Tensor math, layer kernels and optimizers: the algorithm only sequences them.
- Timers and printing: output only.
- Protobuf parsing, the bodies of the registered layer builders, and the
  hyper-parameter values the layer factory passes on.
- `mini_batch_index` and `data_type_optimizer`: declarations of kernels.
- `ltfb/mutation_strategy.hpp`: `NullMutation::mutate` is empty and the
  other strategies are declared without bodies.
- Checkpoint I/O and restore.
- The Caliper destructor and manager flush.
- Unit tests, and the Catch2 helpers of `data_reader_common_catch2.hpp`:
  temporary directories, prototext parsing and file writing are I/O.
- The npz parsing and conduit cache. Only what a line's sample carries is kept.
