------------------------------ MODULE LTFBExchange ----------------------------
(***************************************************************************)
(* CheckpointBinary::get_partner_model                                     *)
(* (src/src/execution_algorithms/ltfb/checkpoint_binary.cpp) on the two    *)
(* trainers of an LTFB pair.  Each trainer trains its own model for a     *)
(* while, then copies it, keeps a copy of every weights object whose name *)
(* is not in the strategy's weights_names (only when that set is not      *)
(* empty), exchanges the copy with its partner trainer and restores the   *)
(* kept weights into what it received.                                     *)
(*                                                                         *)
(* A weights value is abstracted to the trainer that produced it and that *)
(* trainer's training step.                                                *)
(***************************************************************************)
EXTENDS Naturals, FiniteSets

CONSTANTS
  Trainers,      \* the two trainers of the pair
  WeightNames,   \* names of the model's weights objects
  NameChoices,   \* possible weights_names of the strategy
  MaxTrain       \* training steps a trainer takes before the exchange

ASSUME /\ Cardinality(Trainers) = 2
       /\ NameChoices \subseteq SUBSET WeightNames
       /\ MaxTrain \in Nat

Partner(t) == CHOOSE p \in Trainers : p # t

Value == [origin : Trainers, step : 0 .. MaxTrain]

VARIABLES
  names,      \* this->weights_names()
  local,      \* [Trainers -> the model m being trained: name -> value]
  steps,      \* [Trainers -> training steps taken]
  pc,         \* [Trainers -> "train" | "copied" | "kept" | "exchanged" | "done"]
  partner,    \* [Trainers -> partner_model: name -> value]
  restore,    \* [Trainers -> restore_weights: the kept name -> value map]
  copied      \* [Trainers -> m as it was when copied] (history)

vars == <<names, local, steps, pc, partner, restore, copied>>

-----------------------------------------------------------------------------
(* Mutant: the !weights_names.empty() test dropped.                        *)
KeptNamesNoEmptyTest(ns) == WeightNames \ ns
(* Lines 58-70: the weights not to be exchanged, kept only when the        *)
(* strategy names some weights.                                            *)
KeptNames(ns) == IF ns = {} THEN {} ELSE WeightNames \ ns

(* Mutant: the model's weights replaced by the kept map instead of merged. *)
RestoreWeightsReplace(mdl, kept) == kept
(* restore_model_weights: every kept weights object overwrites the one of  *)
(* the same name in the model.                                             *)
RestoreWeights(mdl, kept) ==
  [n \in DOMAIN mdl |-> IF n \in DOMAIN kept THEN kept[n] ELSE mdl[n]]

Init ==
  /\ names \in NameChoices
  /\ local = [t \in Trainers |-> [n \in WeightNames |-> [origin |-> t, step |-> 0]]]
  /\ steps = [t \in Trainers |-> 0]
  /\ pc = [t \in Trainers |-> "train"]
  /\ partner = [t \in Trainers |-> local[t]]
  /\ restore = [t \in Trainers |-> [n \in {} |-> local[t][n]]]
  /\ copied = local

(* A training step of trainer t updates every weights object of its model. *)
TrainStep(t) ==
  /\ pc[t] = "train"
  /\ steps[t] < MaxTrain
  /\ steps' = [steps EXCEPT ![t] = @ + 1]
  /\ local' = [local EXCEPT ![t] = [n \in WeightNames |-> [origin |-> t, step |-> steps[t] + 1]]]
  /\ UNCHANGED <<names, pc, partner, restore, copied>>

(* Lines 52-56: partner_model = m.copy_model().                            *)
CopyModel(t) ==
  /\ pc[t] = "train"
  /\ partner' = [partner EXCEPT ![t] = local[t]]
  /\ copied' = [copied EXCEPT ![t] = local[t]]
  /\ pc' = [pc EXCEPT ![t] = "copied"]
  /\ UNCHANGED <<names, local, steps, restore>>

(* Lines 58-70: copy the weights that are not exchanged out of the copy.   *)
KeepWeights(t) ==
  /\ pc[t] = "copied"
  /\ restore' = [restore EXCEPT ![t] =
                   [n \in KeptNames(names) |-> partner[t][n]]]
  /\ pc' = [pc EXCEPT ![t] = "kept"]
  /\ UNCHANGED <<names, local, steps, partner, copied>>

(* Line 71: exchange(comm, partner_model, partner_trainer), a send-receive *)
(* of the whole model copy with the partner trainer, which must be at the  *)
(* same call.                                                              *)
Exchange(t) ==
  LET p == Partner(t) IN
  /\ pc[t] = "kept" /\ pc[p] = "kept"
  /\ partner' = [partner EXCEPT ![t] = partner[p], ![p] = partner[t]]
  /\ pc' = [pc EXCEPT ![t] = "exchanged", ![p] = "exchanged"]
  /\ UNCHANGED <<names, local, steps, restore, copied>>

(* Lines 72-74: restore_model_weights, then return partner_model.          *)
Restore(t) ==
  /\ pc[t] = "exchanged"
  /\ partner' = [partner EXCEPT ![t] = RestoreWeights(@, restore[t])]
  /\ pc' = [pc EXCEPT ![t] = "done"]
  /\ UNCHANGED <<names, local, steps, restore, copied>>

(* Both trainers have their partner model.                                 *)
Returned ==
  /\ \A t \in Trainers : pc[t] = "done"
  /\ UNCHANGED vars

Trainer(t) == TrainStep(t) \/ CopyModel(t) \/ KeepWeights(t) \/ Exchange(t) \/ Restore(t)

Next == (\E t \in Trainers : Trainer(t)) \/ Returned

Spec == Init /\ [][Next]_vars

-----------------------------------------------------------------------------
(***************************************************************************)
(* Properties                                                              *)
(***************************************************************************)
TypeOK ==
  /\ names \in NameChoices
  /\ local \in [Trainers -> [WeightNames -> Value]]
  /\ steps \in [Trainers -> 0 .. MaxTrain]
  /\ pc \in [Trainers -> {"train", "copied", "kept", "exchanged", "done"}]
  /\ partner \in [Trainers -> [WeightNames -> Value]]
  /\ \A t \in Trainers : DOMAIN restore[t] \subseteq WeightNames

(* The model get_partner_model returns holds the partner trainer's weights *)
(* for every name the strategy exchanges (every name, when it names none)  *)
(* and this trainer's own weights, as they were when it copied its model,  *)
(* for every other name; the model being trained is left as it was, and    *)
(* the partner's training after or before the copy makes no difference.   *)
PartnerModelComposition ==
  \A t \in Trainers : pc[t] = "done" =>
    /\ local[t] = copied[t]
    /\ \A n \in WeightNames :
         partner[t][n] = IF names # {} /\ n \notin names
                         THEN copied[t][n]
                         ELSE copied[Partner(t)][n]
=============================================================================
