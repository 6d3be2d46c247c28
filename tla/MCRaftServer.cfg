SPECIFICATION Spec
CONSTANTS
    Workers = {w1, w2, w3}
    Others = {console}
    NoThread = NoThread
    MaxCommands = 6
SYMMETRY Symmetry
INVARIANTS
    CountAccounted
    ContainedUntilIntruded
    ForeignReleasesWiden
CHECK_DEADLOCK FALSE
