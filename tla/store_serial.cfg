SPECIFICATION Spec
CONSTANTS
  Handlers = {h1}
  c1 = c1 c2 = c2 c3 = c3 c4 = c4 c5 = c5 c6 = c6
  Keep = Keep
  NoCmd = NoCmd
  Phases <- MCPhases
  Terminal <- MCTerminal
  Kinds <- MCKinds
  From <- MCFrom
  To <- MCTo
  GateFirst <- MCGateFirst
  Replayed <- MCReplayed
  Stamped <- MCStamped
  Requests <- MCRequests
  InitPhase = "working"
  MaxRequests = 5
  MaxCrashes = 2
  MaxFaults = 1
  ShortWrites = TRUE
CHECK_DEADLOCK FALSE
INVARIANT TypeOK
PROPERTIES ImplementsLifecycle RetryFirstReturnsRecorded
