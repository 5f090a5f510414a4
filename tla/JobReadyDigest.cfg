SPECIFICATION Spec
CONSTANTS
  Employers = {e1}
  Candidates = {c1, c2}
  Day = 2
  Week = 4
  Horizon = 9
  MaxStarts = 2
SYMMETRY Symmetry
CHECK_DEADLOCK FALSE
INVARIANTS
  TypeOK
  OneDigestADay
  OncePerProcess
  NobodyMissed
