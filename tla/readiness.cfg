SPECIFICATION Spec
CONSTANTS
    Members = {a, b}
    Moderator = m
    Handlers = {h1, h2}
    MaxEvents = 8
SYMMETRY Symmetry
INVARIANTS DiscussionHasConsent PreparationIsPollable
