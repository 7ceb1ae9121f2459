\* Three checkouts for one or two recipients, two attempts each, a new year.
\* Stops when every checkout is answered and every order deleted.
SPECIFICATION FairCodesSpec
CHECK_DEADLOCK FALSE
CONSTANTS
  Checkout = {c1, c2, c3}
  Sizes = {1, 2}
  MaxAttempts = 2
  LastYear = 2
INVARIANTS
  CollisionsAreRaces
  RejectedAfterRaces
PROPERTIES
  Answered
