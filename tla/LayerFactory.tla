---------------------------- MODULE LayerFactory ----------------------------
(***************************************************************************)
(* lbann::proto::construct_layer<TensorDataType, Layout, Device>           *)
(* (src/src/proto/factories/layer_factory.cpp) builds one layer from its   *)
(* prototext message.  It first asks the per-(T, L, D) singleton factory   *)
(* for a builder registered under the message's type name; the factory's  *)
(* nullptr_key_error_policy answers nullptr for an unregistered name.  It *)
(* then falls back to construct_layer_legacy, which only the default      *)
(* DataType may use, and which hard-codes a data-parallel or CPU          *)
(* instantiation for the layers that support nothing else.  Finally it    *)
(* sets the grid tag of the parallel strategy.                            *)
(*                                                                         *)
(* A message is abstracted to its layer type and the fields that decide   *)
(* whether the layer can be built; hyper-parameters and their defaults    *)
(* (mean/stdev, decay, alpha, ...) are data and left out.  A layer is     *)
(* abstracted to its type name, tensor type, layout, device and grid tag. *)
(***************************************************************************)
EXTENDS Integers

CONSTANTS
  DataType,     \* LBANN's default tensor type
  TensorTypes,  \* tensor types construct_layer is instantiated for
  Kinds,        \* layer message types a prototext may hold
  TrainSizes    \* training_dr_linearized_data_size; -1: no training reader

ASSUME DataType \in TensorTypes /\ TrainSizes \subseteq Int

DP == "DATA_PARALLEL"
MP == "MODEL_PARALLEL"
Layouts == {DP, MP}
Devices == {"CPU", "GPU"}

(* The fields of a Layer message that the construction looks at.          *)
Messages == [kind : Kinds, fromReader : BOOLEAN, slicePoints : {1, 2},
             aggr : {"", "global", "bogus"}, gridTag : BOOLEAN]

VARIABLES
  request,  \* the call: message, template arguments, training data size
  result    \* what construct_layer returned, or that it threw

vars == <<request, result>>

Built(msg, t, l, d) == [status |-> "ok", kind |-> msg.kind, type |-> t,
                        layout |-> l, device |-> d, gridTag |-> FALSE]
Failed == [status |-> "error", kind |-> "none", type |-> "none",
           layout |-> "none", device |-> "none", gridTag |-> FALSE]
NoResult == [Failed EXCEPT !.status = "none"]

-----------------------------------------------------------------------------
(* factory_manager::register_default_builders and get_layer_factory: the   *)
(* names registered in every (T, L, D) factory.                            *)
DefaultBuilders ==
  {"OperatorLayer", "Convolution", "ChannelwiseFullyConnected",
   "ChannelwiseScaleBias", "Deconvolution", "Embedding", "EntrywiseScaleBias",
   "FullyConnected", "GRU", "MatMul", "BatchwiseReduceSum", "Bernoulli",
   "CategoricalRandom", "Concatenation", "Constant", "Crop",
   "Cross_Grid_Sum_Slice", "Cross_Grid_Sum", "Dummy", "Evaluation", "Gather",
   "Hadamard", "Pooling", "Reduction", "Scatter", "Split", "StopGradient",
   "Sum", "WeightedSum", "WeightsLayer", "Identity", "LogSoftmax", "Relu",
   "Softmax", "CategoricalAccuracy", "L1Norm", "L2Norm2", "MeanAbsoluteError",
   "MeanSquaredError", "Dropout", "InstanceNorm",
   "LocalResponseNormalization", "ChannelwiseSoftmax", "DFTAbs",
   "DistEmbedding", "MiniBatchIndex", "MiniBatchSize", "OneHot",
   "RowwiseWeightsNorms", "UniformHash"}

(* generic_factory::create_object under nullptr_key_error_policy: a        *)
(* registered builder runs (and may itself throw for a combination it     *)
(* does not support); an unregistered name gives nullptr.                 *)
CreateObject(msg, t, l, d, builderOk) ==
  IF msg.kind \notin DefaultBuilders THEN NoResult
  ELSE IF builderOk THEN Built(msg, t, l, d) ELSE Failed

(* The legacy layers whose instantiation is fixed to a data-parallel       *)
(* layout, or to a data-parallel layout on CPU: LBANN_ERROR otherwise.     *)
OnDataParallel(msg, l, d) == IF l = DP THEN Built(msg, DataType, DP, d) ELSE Failed
OnDataParallelCPU(msg, l, d) ==
  IF l = DP /\ d = "CPU" THEN Built(msg, DataType, DP, "CPU") ELSE Failed

(* Lines 299-415: transform layers.  Reshape needs the training reader's  *)
(* size when num_neurons_from_data_reader is set; slice needs two slice   *)
(* points unless they come from the reader.                               *)
TransformKinds == {"Reshape", "Slice", "Gaussian", "Uniform", "Unpooling",
                   "DiscreteRandom", "InTopK", "Sort", "Tessellate"}
TransformLayer(msg, l, d, trainSize) ==
  CASE msg.kind = "Reshape" ->
         IF msg.fromReader /\ trainSize = -1 THEN Failed ELSE Built(msg, DataType, l, d)
    [] msg.kind = "Slice" ->
         IF ~msg.fromReader /\ msg.slicePoints < 2 THEN Failed ELSE Built(msg, DataType, l, d)
    [] msg.kind \in {"Unpooling", "DiscreteRandom"} -> OnDataParallelCPU(msg, l, d)
    [] msg.kind = "Sort" -> OnDataParallel(msg, l, d)
    [] OTHER -> Built(msg, DataType, l, d)

(* Lines 415-480: regularizers.  Batch normalization is data-parallel     *)
(* only and rejects an unknown stats_aggregation.                         *)
RegularizerKinds == {"BatchNormalization", "SeluDropout",
                     "EntrywiseBatchNormalization", "LayerNorm"}
RegularizerLayer(msg, l, d) ==
  IF msg.kind = "BatchNormalization"
  THEN IF l # DP \/ msg.aggr = "bogus" THEN Failed ELSE Built(msg, DataType, DP, d)
  ELSE Built(msg, DataType, l, d)

(* Lines 482-577: activation, loss, image and miscellaneous layers, and   *)
(* the final "could not construct layer" error for any other type.        *)
OtherLayer(msg, l, d) ==
  CASE msg.kind \in {"Elu", "LeakyRelu", "CrossEntropy", "TopKCategoricalAccuracy",
                     "Covariance", "Variance"} -> Built(msg, DataType, l, d)
    [] msg.kind \in {"BilinearResize", "ChannelwiseMean"} -> OnDataParallel(msg, l, d)
    [] msg.kind \in {"CompositeImageTransformation", "Rotation", "Argmax",
                     "Argmin"} -> OnDataParallelCPU(msg, l, d)
    [] OTHER -> Failed

(* construct_layer_legacy<DataType, L, D>; lines 278-302 are the input     *)
(* layer, data-parallel only.                                             *)
ConstructLayerLegacy(msg, l, d, trainSize) ==
  CASE msg.kind = "Input" -> OnDataParallel(msg, l, d)
    [] msg.kind \in TransformKinds -> TransformLayer(msg, l, d, trainSize)
    [] msg.kind \in RegularizerKinds -> RegularizerLayer(msg, l, d)
    [] OTHER -> OtherLayer(msg, l, d)

(* Mutant: the legacy fallback taken for every tensor type.               *)
ConstructLayerAnyType(msg, t, l, d, trainSize, builderOk) ==
  LET fromFactory == CreateObject(msg, t, l, d, builderOk)
      layer == IF fromFactory # NoResult THEN fromFactory
               ELSE ConstructLayerLegacy(msg, l, d, trainSize)
  IN  IF layer.status = "ok" /\ msg.gridTag THEN [layer EXCEPT !.gridTag = TRUE]
      ELSE layer

(* construct_layer<T, L, D>: the factory, the legacy fallback for the     *)
(* default DataType only, then set_grid_tag.                              *)
ConstructLayer(msg, t, l, d, trainSize, builderOk) ==
  LET fromFactory == CreateObject(msg, t, l, d, builderOk)
      layer == IF fromFactory # NoResult THEN fromFactory
               ELSE IF t = DataType THEN ConstructLayerLegacy(msg, l, d, trainSize)
               ELSE Failed
  IN  IF layer.status = "ok" /\ msg.gridTag THEN [layer EXCEPT !.gridTag = TRUE]
      ELSE layer

-----------------------------------------------------------------------------
Init ==
  /\ request \in [msg : Messages, type : TensorTypes, layout : Layouts,
                  device : Devices, trainSize : TrainSizes, builderOk : BOOLEAN]
  /\ result = NoResult

Construct ==
  /\ result = NoResult
  /\ result' = ConstructLayer(request.msg, request.type, request.layout,
                              request.device, request.trainSize, request.builderOk)
  /\ UNCHANGED request

(* The layer is handed to the model, or the exception propagates.          *)
Returned ==
  /\ result # NoResult
  /\ UNCHANGED vars

Next == Construct \/ Returned

Spec == Init /\ [][Next]_vars

-----------------------------------------------------------------------------
(* The layer construct_layer<T, L, D> returns is a layer of exactly T, L   *)
(* and D, with the message's grid tag.  The legacy path is instantiated   *)
(* for DataType and hard-codes DATA_PARALLEL and CPU for several layers;  *)
(* the typeid test in construct_layer and the layout and device tests in  *)
(* construct_layer_legacy must keep any of these from standing in for    *)
(* the instantiation the model asked for.                                 *)
ConstructedAsRequested ==
  result.status = "ok" =>
    /\ result.kind = request.msg.kind
    /\ result.type = request.type
    /\ result.layout = request.layout
    /\ result.device = request.device
    /\ result.gridTag = request.msg.gridTag
=============================================================================
