SPECIFICATION Spec
CONSTANTS
  Members = {m1, m2}
  Votes = {"approve", "abstain", "block"}
  MaxDiscussionTurns = 0
  MaxRetries = 1
  MaxTurn = 1
  MaxGrants = 1
  MaxDrafts = 2
  MaxRounds = 2
  MaxResponses = 1
  MaxBlocks = 2
  MaxDispatches = 1
SYMMETRY MemberSymmetry
CONSTRAINT Bounded
INVARIANT FinalizedIsUnanimous
PROPERTY OnlyDispatchReopens
