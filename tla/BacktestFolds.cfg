\* Two instances, one of them late, and a feed that departs once; a forecast leaves one value out.
CONSTANTS
  Instance = {a, b}
  LateStarters = {b}
  Period = 2
  LastMoment = 8
  Horizon = 2
  MaxIrregular = 1
  MaxUnanswered = 1
  Validations <- EveryValidation
  ModelLists <- Lists
CHECK_DEADLOCK FALSE
SPECIFICATION Spec
INVARIANTS FoldsAreAsKnown LearnedBeforeTheOrigin ForecastFromItsOrigin RowsAreComparable DoneIsComplete
