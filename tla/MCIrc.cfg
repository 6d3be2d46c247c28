\* Lines of three characters and a server that sends twelve: whole lines of two, or
\* one that is too long.
CONSTANTS
    LineSize = 3
    ConsoleSize = 3
    MaxChars = 12
SPECIFICATION Spec
INVARIANTS QuitIsLast SockIsLive DeletedLast
PROPERTIES Ends
CHECK_DEADLOCK FALSE
