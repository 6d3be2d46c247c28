\* What the comment at controller.py:91 says of the snapshot that is loaded, of a
\* node whose application never asks for a snapshot: only hb_checker saves.
CONSTANTS
    Nodes = {n1}
    HbWait = 1
    HbWaitSaved = 2
    LoadWait = 3
    LoadWaitSaved = 4
    Backoff = 2
    Pause = 2
    ResetWait = 5
    MaxAge = 6
    MaxCrashes = 1
    Kinds = {"heartbeat"}
    QmpMayFail = FALSE
    None = none
SPECIFICATION Spec
INVARIANT LoadsSuccessfulSnapshot
CHECK_DEADLOCK FALSE
