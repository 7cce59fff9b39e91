SPECIFICATION FairSpec
CONSTANTS
  Members = {m1, m2}
  Moderator = mod
  Handlers = {h1, h2}
  Window = 1
  MaxTurn = 1
  MaxPolls = 2
  MaxTime = 3
  MaxRequests = 3
  MaxCrashes = 1
CHECK_DEADLOCK FALSE
PROPERTIES RespondersAreNotDropped CurrentWindowSettles
