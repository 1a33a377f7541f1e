CONSTANTS
  e1 = e1
  x1 = x1
  Events = {e1}
  Names = {e1, x1}
  Denotes <- MCDenotes
  Twins = {e1}
  tA = tA
  tB = tB
  Titles <- MCTitles
  TitleOf <- MCTitleOf
  Users = {u1, u2}
  Ids = {i1, i2}
  Ratings = {1, 300}
  Comments = {c1, c2}
  Requests = {r1, r2}
  None = None
  Pipelined = FALSE
  Faults = FALSE
SPECIFICATION Spec
SYMMETRY Symmetry
INVARIANTS TypeOK OneReviewPerUser
PROPERTIES PartialUpdate UpdateHitsNamedReview
