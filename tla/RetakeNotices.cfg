SPECIFICATION Spec
CONSTANTS
  Talents = {t1, t2}
  Polls = {p1}
  Dashboards = {d1}
  Wait = 1
  Horizon = 2
  MaxFaults = 1
INVARIANTS
  TypeOK
  MailedOnce
PROPERTIES
  NoticeArrives
