\* One process, which may die at any step, with upgrades both ways.
CONSTANTS
  Procs = {p}
  Mortals = {p}
  Versions = {v1, v2}
  NoVersion = NoVersion
  MaxBuilds = 3
SPECIFICATION Spec
INVARIANTS RecordsAreTrue InstallRepairs
PROPERTIES UpgradeLeavesNoGap
