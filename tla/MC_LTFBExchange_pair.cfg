\* Two trainers taking up to two training steps each, exchanging none, one
\* or both of two weights objects by name.
CONSTANTS
  Trainers <- MC_Trainers
  WeightNames <- MC_WeightNames
  NameChoices <- MC_NameChoices
  MaxTrain = 2

SPECIFICATION Spec
INVARIANT TypeOK
INVARIANT PartnerModelComposition
