\* Fewer segments than receivers: two of them get nothing from the sender.
\* Their ports are their own, or the same one, or one is another program's.
SPECIFICATION Spec
CONSTANTS
    p1 = p1
    p2 = p2
    p3 = p3
    Peers = {p1, p2, p3}
    MaxPeer = 3
    FileCount = 1
    PortChoices <- AnyPorts
    busy = busy
    Taken = {busy}
    Foreign = Foreign
    BindFails = {}
    Unset = Unset
    Garbage = Garbage
\* With a shared or a taken port receivers may wait for ever.
CHECK_DEADLOCK FALSE
SYMMETRY Symmetry
INVARIANTS
    NothingUnread
    NoReadAtEnd
    SaveNeedsEveryPeer
