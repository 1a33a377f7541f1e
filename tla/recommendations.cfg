CONSTANTS
  e1 = e1
  e2 = e2
  e3 = e3
  e4 = e4
  x1 = x1
  Users = {u1, u2}
  Names = {e1, e2, e3, e4, x1}
  Denotes <- MCDenotes
  TitleOf <- MCTitleOf
  StartOf <- MCStartOf
  OldUsers = {u1}
  OldEvents = {e1, e2, e3}
  OldNames = {e1, e2, e3, x1}
  Requests = {r1, r2}
  MaxWrites = 3
  MaxReaders = 1
  None = None
  Faults = TRUE
SPECIFICATION Spec
SYMMETRY Symmetry
VIEW Condensed
INVARIANTS TypeOK LikesReachGraph RecommendsFromLikes OwnLikeHasCause ListIsRanking
