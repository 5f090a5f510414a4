SPECIFICATION FairSpec
CONSTANTS
  Attempts = {a1}
  Submitters = {s1, s2}
  Editors = {}
  Redis = TRUE
  Faults = {"crash", "ai", "db", "queue", "reply", "undo"}
INVARIANTS
  SubmissionsTracked
PROPERTIES
  SubmissionSettles
  PassIsDelivered
  ScoredOnce
