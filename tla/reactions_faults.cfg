CONSTANTS
  e1 = e1
  x1 = x1
  Events = {e1, e2}
  Names = {e1, e2, x1}
  Denotes <- MCDenotes
  Twins = {e1, e2}
  tA = tA
  tB = tB
  Titles <- MCTitles
  TitleOf <- MCTitleOf
  Users = {u1}
  Requests = {r1, r2}
  None = None
  Faults = TRUE
SPECIFICATION Spec
SYMMETRY Symmetry
VIEW WithoutGraph
INVARIANTS NeverOvercounts StaleHasCause EmptyEntryHasCause
PROPERTIES ImplementsTotals
