CONSTANTS
  Blank = Blank
  Bad = Bad
  None = None
  Accounts <- MCAccounts
  Spelled <- MCSpelled
  Categories <- MCCategories
  Events <- MCEvents
  Requests <- MCRequests
  Day = 3
  Me = "ann"
  Attempts = 2
SPECIFICATION Spec
INVARIANTS TypeOK RoutesAgree ActsForHolder AnswerTellsTheWrite CookieFollowsSession RetryHasCause PageOfMatches
PROPERTIES OrphanHasCause PatchesOwnEvent
