\* One process, no failure: a rollback, and then the deletion of a newer revision.
CONSTANTS
  MaxRevisions = 3
  Names = {n1}
  Transformed = {}
  Procs = {p}
  Fitters = {p}
  Selectors = {p}
  Deleters = {p}
  Forecasters = {}
  Mortals = {}
  NoRevision = NoRevision
  Torn = Torn
  NoName = NoName
SPECIFICATION Spec
PROPERTIES DeleteMovesOnlyItsAlias
