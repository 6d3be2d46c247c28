\* The console, one remote command, the network thread, two hellox, and three of
\* them begun: enough for one to hold the lock, one to wait and one to
\* initialise it.
CONSTANTS
    Cmds = {console, remote}
    Net = net
    Hxs = {x1, x2}
    NoThread = none
    MaxUses = 3
SPECIFICATION Spec
INVARIANTS ExclusiveUntilTorn DownHasCause SeenUnlessCrowded
PROPERTIES NetworkComesBack HelloxComesBack
CHECK_DEADLOCK FALSE
