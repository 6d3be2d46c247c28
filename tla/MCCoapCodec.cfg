SPECIFICATION CodecSpec
CONSTANTS
    MAXOPT = 2
    BufLen = 1280
    None = None
    Packets <- MCPackets
    Datagrams <- MCDatagrams
INVARIANTS
    CodecTypeOK
    RoundTrip
    StableWhenSorted
CHECK_DEADLOCK FALSE
