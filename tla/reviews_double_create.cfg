CONSTANTS
  e1 = e1
  x1 = x1
  Events = {e1}
  Names = {e1}
  Denotes <- MCDenotes
  Twins = {e1}
  tA = tA
  tB = tB
  Titles <- MCTitles
  TitleOf <- MCTitleOf
  Users = {u1}
  Ids = {i1, i2}
  Ratings = {1}
  Comments = {c1}
  Requests = {r1, r2}
  None = None
  Pipelined = TRUE
  Faults = FALSE
SPECIFICATION Spec
INVARIANTS OneReviewPerUser
