SPECIFICATION Spec
CONSTANTS
  Handlers = {h1, h2}
  c1 = c1 c2 = c2 c3 = c3 c4 = c4 c5 = c5 c6 = c6
  Keep = Keep
  NoCmd = NoCmd
  Phases <- MCPhases
  Terminal <- MCTerminal
  Kinds <- MCKinds
  From <- MCFrom
  To <- MCTo
  GateFirst <- MCGateFirst
  Replayed <- MCReplayed
  Stamped <- MCStamped
  Requests <- RaceRequests
  InitPhase = "working"
  MaxRequests = 2
  MaxCrashes = 0
  MaxFaults = 0
  ShortWrites = FALSE
CHECK_DEADLOCK FALSE
INVARIANT RetryLeavesLogReadable
