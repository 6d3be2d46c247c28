SPECIFICATION ServerSpec
CONSTANTS
    MAXOPT = 16
    Clients = {c1, c2}
    BufLen = 64
    MaxSends = 3
    MaxSockets = 3
    PathHello <- MCPathHello
    Hello <- MCHello
    Requests <- MCRequests
    Leftovers <- MCLeftovers
SYMMETRY MCSymmetry
INVARIANTS
    AnswersMatchRequests
    AnswersAreLimited
CHECK_DEADLOCK FALSE
