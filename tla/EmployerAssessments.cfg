SPECIFICATION Spec
CONSTANTS
  Employers = {e1}
  Assessments = {a1, a2}
  Talents = {t1}
  Emails = {x1}
  Requests = {r1, r2}
  Limit = 1
  Busy = {a1}
SYMMETRY Symmetry
INVARIANTS
  TypeOK
  ActiveLimitKept
  ReachedAtMostOnce
  NoticesTrue
PROPERTIES
  ResultsSpec
