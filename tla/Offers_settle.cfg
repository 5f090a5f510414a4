SPECIFICATION FairSpec
CONSTANTS
  e1 = e1
  r1 = r1
  Employers = {e1}
  Candidates = {c1}
  Roles = {r1}
  RoleOwner <- OneOwner
  MonthlyCap = 2
  Senders = {s1}
  Handlers = {h1, h2}
  Editors = {}
  Kinds = {"respond", "withdraw", "link", "view", "list", "hire", "verify"}
  MaxResends = 1
  MaxMonth = 1
  MaxHires = 1
INVARIANTS
  TypeOK
  ToldTruth
PROPERTIES
  LifecycleSpec
  OverdueExpires
