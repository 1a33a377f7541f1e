CONSTANTS
  Clients = {c1}
  Users = {u1}
  SIDs = {s1, s2, s3}
  Requests = {r1, r2}
  Anon = Anon
  None = None
  Keep = Keep
  Pipelined = TRUE
  Faults = FALSE
SPECIFICATION Spec
INVARIANTS LogoutEndsSession
