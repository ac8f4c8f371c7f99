\* Two instances, five worlds of six moments, the models of six catalogs.
CONSTANTS
  i = i
  j = j
  Instance = {i, j}
  Period = 1
  Worlds <- AllWorlds
  Moments = {4, 6}
  Selections <- AnySelection
  Contexts = {2}
  Horizons = {1, 2}
  RoleSets <- AnyRoles
  Outputs <- AnyOutput
  Libraries <- Installed
  Bags <- AnyBag
  MaxAsks = 1
SPECIFICATION Spec
INVARIANTS AnsweredForItsCell AnsweredInFull NothingFromAfterTheOrigin LearnsItsSamples LevelsDoNotCross AnswersWhatItDeclares
