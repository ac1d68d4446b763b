\* Every message of every modelled layer type, for both tensor types,
\* both layouts and both devices, with and without a training reader.
CONSTANTS
  DataType = "float"
  TensorTypes = {"float", "double"}
  Kinds <- MC_Kinds
  TrainSizes <- MC_TrainSizes

SPECIFICATION Spec
INVARIANT ConstructedAsRequested
