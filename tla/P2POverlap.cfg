\* More segments than receivers: one of them gets two from the sender.
\* Their ports are their own, or one of them is another program's.
SPECIFICATION Spec
CONSTANTS
    p1 = p1
    p2 = p2
    Peers = {p1, p2}
    MaxPeer = 2
    FileCount = 3
    PortChoices <- OwnOrTaken
    busy = busy
    Taken = {busy}
    Foreign = Foreign
    BindFails = {}
    Unset = Unset
    Garbage = Garbage
\* A receiver whose connect() nobody answers waits for ever.
CHECK_DEADLOCK FALSE
SYMMETRY Symmetry
INVARIANTS
    SenderStreamParsed
    NoUseAfterFree
