\* Two processes that may each do anything, and die at any step of it.
CONSTANTS
  MaxRevisions = 2
  Names = {n1}
  Transformed = {1}
  Procs = {p, q}
  Fitters = {p, q}
  Selectors = {p}
  Deleters = {p, q}
  Forecasters = {q}
  Mortals = {p}
  NoRevision = NoRevision
  Torn = Torn
  NoName = NoName
SPECIFICATION Spec
INVARIANTS TypeOK PublishedIsComplete AliasInLineage AnsweredFromOneRevision
PROPERTIES Immutable ImplementsLineage
