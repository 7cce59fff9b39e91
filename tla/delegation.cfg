SPECIFICATION Spec
CONSTANTS
  ResumeOverrides = {"working", "submitted", "accepted", "blocked", "waiting_user", "done"}
  MaxEscalations = 2
  MaxBlocks = 2
CONSTRAINT Bounded
INVARIANTS TypeOK AcceptedWorkWasSubmitted NobodyStranded
PROPERTY OnlyDeliveryReopens
