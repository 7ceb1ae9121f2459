\* One account, two requests at once, three codes or links, two passwords.
SPECIFICATION Spec
CONSTANTS
  Request = {r1, r2}
  Idle = Idle
  Email = {e1}
  NoUser = NoUser
  Password = {p1, p2}
  NoPassword = NoPassword
  MicrosoftId = {m1, m2}
  NoMicrosoft = NoMicrosoft
  Secret = {s1, s2, s3}
  NoSecret = NoSecret
SYMMETRY Symmetric
INVARIANTS
  TokenOnce
  SessionsVerified
  LastMailWorks
PROPERTIES
  CredentialsKept
