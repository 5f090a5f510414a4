SPECIFICATION Spec
CONSTANTS
  Attempts = {a1, a2}
  Submitters = {s1, s2}
  Editors = {w1}
  Redis = TRUE
  Faults = {"crash", "queue", "undo"}
SYMMETRY Symmetry
INVARIANTS
  TypeOK
  OneActiveSession
