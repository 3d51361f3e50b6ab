SPECIFICATION Spec
CONSTANTS
  Sku <- MCSku
  Cases <- MCCases
  MaxAdjustments = 4
INVARIANTS
  TypeOK
  BoxesAccountedFor
  CarriedOutAsFound
  PackagesStayTogether
  OneLinePerBatch
  WavesDoNotOverlap
  ChoiceFindsWhatLeaves
PROPERTY
  RoundsProgress
