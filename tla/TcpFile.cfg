SPECIFICATION FairSpec
CONSTANTS
    Files <- MCFiles
    Size <- MCSize
    Listings <- MCListings
    Removed <- MCRemoved
    InfoLen = 2
    BufSize = 4
    MaxDownloads = 3
INVARIANTS
    TcpFileTypeOK
    NoTwoExact
    BacklogGrows
    QuitEndsServer
PROPERTIES
    DownloadsFinish
CHECK_DEADLOCK FALSE
