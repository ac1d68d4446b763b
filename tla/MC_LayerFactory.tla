--------------------------- MODULE MC_LayerFactory ---------------------------
EXTENDS LayerFactory

(* Every layer type construct_layer_legacy handles, two registered ones   *)
(* and one that neither path knows.                                       *)
MC_Kinds ==
  {"Input", "Reshape", "Slice", "Gaussian", "Uniform", "Unpooling",
   "DiscreteRandom", "InTopK", "Sort", "Tessellate", "BatchNormalization",
   "SeluDropout", "EntrywiseBatchNormalization", "LayerNorm", "Elu",
   "LeakyRelu", "CrossEntropy", "TopKCategoricalAccuracy", "BilinearResize",
   "CompositeImageTransformation", "Rotation", "Covariance", "Variance",
   "ChannelwiseMean", "Argmax", "Argmin",
   "FullyConnected", "Relu", "Unlisted"}
MC_TrainSizes == {-1, 8}
=============================================================================
