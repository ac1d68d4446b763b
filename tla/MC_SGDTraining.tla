--------------------------- MODULE MC_SGDTraining ---------------------------
(* Model-checking instance of SGDTraining: small data sets per mode.       *)
EXTENDS SGDTraining

\* Two training mini-batches per epoch, so that epochs end mid-run; one or
\* two for the other modes.
MC_BatchesPerEpoch ==
  [m \in Modes |-> CASE m = "training"   -> 2
                     [] m = "validation" -> 2
                     [] OTHER            -> 1]

\* Validation passes per run are few; the early-stopping callback sees at
\* most this many reports.
MC_Scores == {1, 2}

\* stopping_criteria messages: max_epochs 2, max_batches 3 (which ends
\* training in the middle of the second epoch), or either.
MC_Epochs2 == {[criterion |-> "max_epochs", value |-> 2]}
MC_Batches3 == {[criterion |-> "max_batches", value |-> 3]}
MC_EpochsOrBatches == MC_Epochs2 \cup MC_Batches3

\* A two-layer model with one weights object.
MC_Layers == <<"input", "fc">>
MC_WeightsList == <<"fc_weights">>
=============================================================================
