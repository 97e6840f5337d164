\* One more receiver than the sender waits for; the bind() of p2 may fail,
\* though nothing listens on its port.
SPECIFICATION FairSpec
CONSTANTS
    p1 = p1
    p2 = p2
    p3 = p3
    Peers = {p1, p2, p3}
    MaxPeer = 2
    FileCount = 2
    PortChoices <- OwnPorts
    busy = busy
    Taken = {busy}
    Foreign = Foreign
    BindFails = {p2}
    Unset = Unset
    Garbage = Garbage
\* The receivers that wait to connect to one whose bind failed never end.
CHECK_DEADLOCK FALSE
INVARIANTS
    TypeOK
    SlotsIntact
    NobodyDragged
PROPERTIES
    Distributes
    Completes
