SPECIFICATION Spec
CONSTANTS
  Talents = {t1, t2}
  Roles = {r1, r2}
  Marks = {m1, m2}
  Edits = {e1}
  WeeklyLimit = 1
  Caps = {1}
  Weeks = 2
  MaxInterests = 2
SYMMETRY Symmetry
INVARIANTS
  TypeOK
  WeeklyLimitKept
  CountNeverInvented
PROPERTIES
  CapKept
