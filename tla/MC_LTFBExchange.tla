--------------------------- MODULE MC_LTFBExchange ---------------------------
(* Model-checking instance of LTFBExchange: two trainers, a model of two   *)
(* weights objects, every choice of the exchanged names.                   *)
EXTENDS LTFBExchange

MC_Trainers == {"trainer0", "trainer1"}
MC_WeightNames == {"conv_kernel", "fc_bias"}
MC_NameChoices == SUBSET MC_WeightNames
=============================================================================
