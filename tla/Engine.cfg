\* Two instances, three models and a pretrained one, two calls.
CONSTANTS
  i = i
  j = j
  Pooled = all
  KeysSurvive = TRUE
  RecipeSet <- Everyone
  Catalog <- Models
  Installations <- Environments
  DataSets <- Datas
  Plans <- Context
  Horizons = {0, 1, 2}
  Outputs <- Asked
  Imputed = {"impute"}
  MaxCalls = 2
  MaxDepartures = 1
CHECK_DEADLOCK FALSE
SPECIFICATION Spec
INVARIANTS RefusedBeforeAnythingRuns PublishedIsWhole AskedAsTrained OnTheCallersScale SharesFollowTheWeights EveryCellIsAnswered ScreenedAsFitted
