\* Two connections on a heap that five blocks fill.
CONSTANTS
    Conns = {c1, c2}
    HeapBlocks = 5
SPECIFICATION Spec
INVARIANTS LossAccounted DownHasCause
PROPERTIES EveryoneServed HeartbeatGoesOn
CHECK_DEADLOCK FALSE
