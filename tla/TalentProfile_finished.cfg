SPECIFICATION Spec
CONSTANTS
  Requests = {r1, r2}
  Tracks = {k1}
  NoTrack = NoTrack
  Sections = {1, 2}
  MaxSessions = 1
SYMMETRY Symmetry
PROPERTIES
  FinishedStaysFinished
