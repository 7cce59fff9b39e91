SPECIFICATION Spec
CONSTANTS
  Ids = {"s1", "s2"}
  Principals = {"p", "q"}
  Wrappers = {"p", "q"}
  Requests <- MCRequests
  MaxRequests = 3
  MaxFaults = 2
  MaxEdits = 2
CHECK_DEADLOCK FALSE
INVARIANTS SecondActiveWasReopened AnsweredIsComplete SnapshotKnowsRoster
PROPERTY EditsSurvive
