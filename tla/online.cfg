CONSTANTS
  a = a
  b = b
  c = c
  Trees <- MCTrees
  Interval = 1
  CacheSize = 2
  QueueLimit = 3
  Passes = 2
  Outcomes = {"ok", "unsynced", "fail"}
  MaxSeq = 4
  MaxCrash = 1
SPECIFICATION Spec
INVARIANTS LiveComplete TipComplete RotationAdmissible
PROPERTIES TipSurvives RowsAboveFloor
CHECK_DEADLOCK FALSE
SYMMETRY Symmetry
