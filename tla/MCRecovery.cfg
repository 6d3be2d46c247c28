\* Two crashes; a QMP command may fail.
CONSTANTS
    Nodes = {n1}
    HbWait = 1
    HbWaitSaved = 2
    LoadWait = 3
    LoadWaitSaved = 4
    Backoff = 2
    Pause = 2
    ResetWait = 5
    MaxAge = 6
    MaxCrashes = 2
    Kinds = {"heartbeat", "savevm"}
    QmpMayFail = TRUE
    None = none
SPECIFICATION Spec
INVARIANTS LoadOnlyAfterSilence ThresholdMissingOnlyAtFirst
PROPERTIES PoisonedOnlyWhenFresh Recovers
CHECK_DEADLOCK FALSE
