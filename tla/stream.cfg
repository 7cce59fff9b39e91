SPECIFICATION FairSpec
CONSTANTS
  Members = {"a"}
  Moderator = "mod"
  Runtimes = {r1, r2}
  Owner <- MCOwner
  MaxWork = 1
  MaxEvents = 5
  MaxFaults = 1
CHECK_DEADLOCK FALSE
INVARIANTS SavedIsHandled FramesInOrder
PROPERTIES SavedIsKnown RunsEnd
