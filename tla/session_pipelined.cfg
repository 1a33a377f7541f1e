CONSTANTS
  Clients = {c1, c2}
  Users = {u1}
  SIDs = {s1, s2, s3}
  Requests = {r1, r2}
  Anon = Anon
  None = None
  Keep = Keep
  Pipelined = TRUE
  Faults = TRUE
SPECIFICATION Spec
SYMMETRY Symmetry
INVARIANTS TypeOK MutualExclusion NoForeignUser
PROPERTIES GoneForGood
VIEW WithoutLogins
