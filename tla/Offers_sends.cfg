SPECIFICATION Spec
CONSTANTS
  e1 = e1
  r1 = r1
  Employers = {e1}
  Candidates = {c1}
  Roles = {r1}
  RoleOwner <- OneOwner
  MonthlyCap = 1
  Senders = {s1, s2}
  Handlers = {h1}
  Editors = {w1}
  Kinds = {"link", "view"}
  MaxResends = 2
  MaxMonth = 2
  MaxHires = 0
SYMMETRY Symmetry
INVARIANTS
  OneActiveOffer
  CapPerCountedMonth
  SentNeverOverstated
