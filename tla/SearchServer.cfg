\* Two clients: the user of one types letters and commands, and it may be
\* killed; the user of the other types bytes that are neither.
SPECIFICATION FairSpec
CONSTANTS
    c1 = c1
    c2 = c2
    Alpha = 3
    Texts <- FewLines
    Clients = {c1, c2}
    MayVanish = {c1}
    Keys <- TypedKeys
    Limit = 1
    Garbage = Garbage
    MaxWord = 2
    MaxUnread = 2
\* A client whose user typed a backslash waits for ever.
CHECK_DEADLOCK FALSE
INVARIANTS
    SearchTypeOK
    AnswersWord
    SurvivesQuit
PROPERTIES
    Answered
