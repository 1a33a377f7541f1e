CONSTANTS
  e1 = e1
  x1 = x1
  Events = {e1}
  Names = {e1}
  Denotes <- MCDenotes
  Twins = {e1}
  tA = tA
  tB = tB
  Titles <- MCTitles
  TitleOf <- MCTitleOf
  Users = {u1}
  Ids = {i1}
  Ratings = {1, 6}
  Comments = {c1}
  Requests = {r1}
  None = None
  Pipelined = FALSE
  Faults = FALSE
SPECIFICATION Spec
INVARIANTS RatingsInRange
