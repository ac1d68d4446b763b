-------------------------- MODULE MC_SGDCollective --------------------------
(* Model-checking instance of SGDCollective: two processes, two training   *)
(* and one validation mini-batch per epoch.                                *)
EXTENDS SGDCollective

\* max_epochs 2, or max_batches 3 (ending training in its second epoch).
MC_EpochsOrBatches == {[criterion |-> "max_epochs", value |-> 2],
                       [criterion |-> "max_batches", value |-> 3]}

\* max_seconds: the value is not read by the model, only each process's
\* own clock decides.
MC_Seconds == {[criterion |-> "max_seconds", value |-> 60]}
=============================================================================
