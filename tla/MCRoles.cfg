\* The seeded administrator and another account, two requests at once.
SPECIFICATION Spec
CONSTANTS
  User = {u1, u2}
  Root = u1
  Buyer = u1
  Request = {r1, r2}
  Idle = Idle
  MaxTime = 2
SYMMETRY Slots
INVARIANTS
  AssignmentKept
  
PROPERTIES
  AdminRemains
