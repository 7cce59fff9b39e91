SPECIFICATION Spec
CONSTANTS
    Councils = {"c1"}
    Delegations = {"d1", "d2"}
    Order <- MCOrder
    Members = {"a"}
    Invocations = {"i1"}
    Speaker <- MCSpeaker
    Batches = {b1, b2}
    Statuses = {"present", "unavailable"}
    MaxEvents = 3
SYMMETRY MCSymmetry
INVARIANTS PaidOnce BatchViewsAgree AttendanceViewsAgree
PROPERTIES RebuildIsComplete ValidIsCurrent
