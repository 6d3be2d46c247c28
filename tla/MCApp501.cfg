\* A ring of two slots, the publisher wraps it once and a half, the
\* subscribers ask for more than it delivers, and the command runs twice.
CONSTANTS
    BUFFER_SIZE = 2
    PubIters = 3
    SubIters = 2
    Pub = pub
    Subs = {s1, s2}
    NoThread = none
    MaxRuns = 2
SPECIFICATION Spec
INVARIANTS BoundedDrift IndicesFollowHistory
PROPERTIES Returns ImplementsQueue
CHECK_DEADLOCK FALSE
