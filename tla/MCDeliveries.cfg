\* Two reports at once on one order, of every kind.
SPECIFICATION FairSpec
CONSTANTS
  Request = {r1, r2}
  Order = {o1}
  Report = {"IN_ROUTE", "DELIVERED", "UNDELIVERED_RETRY", "CANCELLED"}
  Idle = Idle
  Nobody = Nobody
CHECK_DEADLOCK FALSE
INVARIANTS
  ReportAgrees
  AssignmentsBounded
  ConfirmedOnce
PROPERTIES
  Answered
