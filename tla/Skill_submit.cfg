SPECIFICATION FairSpec
CONSTANTS
  Attempts = {a1, a2}
  Questions = {q1}
  MixSize = 1
  MaxAttempts = 2
  Starters = {s1}
  Submitters = {t1, t2}
  Editors = {w1}
  Redis = TRUE
  MaxJobs = 1
  Faults = {"crash", "ai", "queue"}
INVARIANTS
  TypeOK
  NoQuestionTwice
  ResultsReachProfile
PROPERTIES
  ScoredOnce
  FailureGuidedOrStuck
