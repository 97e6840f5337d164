SPECIFICATION FairSpec
CONSTANTS
    a = a
    b = b
    Clients = {c1, c2}
    MayVanish = {c1}
    Names = {hello, other}
    Hello = hello
    None = None
    Contents <- MCContents
    Layouts <- MCLayouts
    Sizes = {0, 9}
    MaxCmds = 3
    MaxOutside = 1
INVARIANTS
    FileServerTypeOK
    OneServed
    EndsForAReason
    MenuDrained
PROPERTIES
    DownloadExact
    UploadExact
    CommandsFinish
CHECK_DEADLOCK FALSE
