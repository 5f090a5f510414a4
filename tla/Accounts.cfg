SPECIFICATION Spec
CONSTANTS
  Users = {u1, u2}
  Emails = {m1, m2, m3}
  NoEmail = NoEmail
  Requests = {r1, r2}
  ResendLimit = 1
  ResetLimit = 1
  MaxStarts = 4
  MaxCodes = 3
  MaxJobs = 1
SYMMETRY Symmetry
INVARIANTS
  TypeOK
  AddressProven
  ExchangedOnce
PROPERTIES
  CodesSpec
CHECK_DEADLOCK FALSE
