\* Two requests at once, one order, the code's three retries.
SPECIFICATION Spec
CONSTANTS
  Send = {r1, r2}
  MaxRetries = 3
  Environments <- Servers
  Order = {o1}
  Idle = Idle
  NoOrder = NoOrder
INVARIANTS
  NeverWithoutTransport
  AnsweredTruly
  NoticeHonest
PROPERTIES
  Answered
