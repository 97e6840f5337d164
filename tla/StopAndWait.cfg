\* Every kind of datagram may be lost; three clients send at the same time.
SPECIFICATION FairSpec
CONSTANTS
    c1 = c1
    c2 = c2
    c3 = c3
    Clients = {c1, c2, c3}
    Frames <- ThreeFiles
    MayLose = {"SEQ", "FIN", "ACK", "REPLY"}
\* A client whose FIN or reply is lost never ends.
CHECK_DEADLOCK FALSE
INVARIANTS
    AckedIsWritten
    TransferInv
PROPERTIES
    TransfersInOrder
    LossIsFinal
    Completes
