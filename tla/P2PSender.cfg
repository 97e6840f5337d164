SPECIFICATION SenderSpec
CONSTANTS
    Peers = {p1, p2, p3}
    MaxPeer = 2
    FileCount = 4
SYMMETRY Symmetry
\* The receivers may stop answering at any point.
CHECK_DEADLOCK FALSE
INVARIANTS
    FramesWhole
    StartsWhenAllJoined
    RoundRobin
