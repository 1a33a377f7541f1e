CONSTANTS
  e1 = e1
  x1 = x1
  Events = {e1}
  Names = {e1, x1}
  Denotes <- MCDenotes
  Twins = {e1}
  tA = tA
  tB = tB
  Titles <- MCTitles
  TitleOf <- MCTitleOf
  Users = {u1}
  Requests = {r1, r2}
  None = None
  Faults = TRUE
SPECIFICATION FairSpec
VIEW Condensed
INVARIANTS TypeOK GraphBacked
PROPERTIES EventuallyFresh
