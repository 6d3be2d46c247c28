SPECIFICATION Spec
CONSTANTS
    Workers = {w1, w2}
    MaxRequests = 3
    HeapBlocks = 5
    Null = Null
SYMMETRY Symmetry
INVARIANTS
    AloneIsAnsweredRight
    
    HeapAccounted
CHECK_DEADLOCK FALSE
