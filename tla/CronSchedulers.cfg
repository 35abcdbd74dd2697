\* Two schedulers and an editor.
SPECIFICATION Spec
CONSTANTS
  Jobs = {j1, j2}
  Schedulers = {s1, s2}
  Editors = {e1}
  Limit = 2
  MaxTime = 3
  MaxRuns = 2
  None = None
  Deleted = Deleted
SYMMETRY Symmetry
INVARIANTS
  CronInv
  ClaimHolds
  FiresOnce
CHECK_DEADLOCK FALSE
