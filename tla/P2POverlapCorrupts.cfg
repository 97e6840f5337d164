\* More segments than receivers: the threads that push the two segments of
\* one receiver to the same peer write to the same connection.
SPECIFICATION Spec
CONSTANTS
    p1 = p1
    p2 = p2
    Peers = {p1, p2}
    MaxPeer = 2
    FileCount = 3
    PortChoices <- OwnPorts
    busy = busy
    Taken = {busy}
    Foreign = Foreign
    BindFails = {}
    Unset = Unset
    Garbage = Garbage
SYMMETRY Symmetry
INVARIANTS
    SlotsIntact
