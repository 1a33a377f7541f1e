CONSTANTS
  e1 = e1
  x1 = x1
  Events = {e1, e2}
  Names = {e1, e2, x1}
  Denotes <- MCDenotes
  Twins = {e1, e2}
  tA = tA
  tB = tB
  Titles <- MCTitles
  TitleOf <- MCTitleOf
  Users = {u1}
  Ids = {i1, i2}
  Ratings = {1, 2}
  Comments = {c1}
  Requests = {r1, r2}
  None = None
  Pipelined = TRUE
  Faults = TRUE
SPECIFICATION Spec
SYMMETRY Symmetry
INVARIANTS NeverOvercounts StaleHasCause
PROPERTIES ImplementsTotals
VIEW Condensed
