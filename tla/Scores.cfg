\* Two candidates, two folds of two cells or one, and one value left out.
CONSTANTS
  None = None
  a = a
  b = b
  KeyName = "zone"
  Cells <- Two
  Truths <- SomeTruths
  Answers <- Forecasts
  Calls <- Asked
  Draws = 2
  MaxNulls = 1
CHECK_DEADLOCK FALSE
SPECIFICATION Spec
INVARIANTS DerivableFromPredictions AskedIsMeasured WinnerIsReproducible
