SPECIFICATION Spec
CONSTANTS
  Attempts = {a1, a2, a3}
  Questions = {q1, q2, q3}
  MixSize = 1
  MaxAttempts = 1
  Starters = {s1, s2}
  Submitters = {t1}
  Editors = {w1}
  Redis = TRUE
  MaxJobs = 0
  Faults = {}
SYMMETRY Symmetry
INVARIANTS
  OneOpenSession
  AttemptsBounded
