CONSTANTS
  Clients = {c1, c2}
  Users = {u1}
  SIDs = {s1, s2}
  Requests = {r1, r2}
  Anon = Anon
  None = None
  Keep = Keep
  Pipelined = FALSE
  Faults = TRUE
SPECIFICATION FairSpec
INVARIANTS LogoutEndsSession LoginSticks
PROPERTIES ExtendKeepsUser RequestsTerminate
