SPECIFICATION FairSpec
CONSTANTS
  Requests = {r1, r2}
INVARIANTS TypeOK EndHasCause OvertakenServes
PROPERTIES Stops
CHECK_DEADLOCK FALSE
