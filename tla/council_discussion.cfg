SPECIFICATION Spec
CONSTANTS
  Members = {m1, m2}
  Votes = {"approve", "block"}
  MaxDiscussionTurns = 1
  MaxRetries = 0
  MaxTurn = 2
  MaxGrants = 3
  MaxDrafts = 1
  MaxRounds = 0
  MaxResponses = 4
  MaxBlocks = 0
  MaxDispatches = 1
SYMMETRY MemberSymmetry
CONSTRAINT Bounded
INVARIANT DraftFollowsDiscussion
