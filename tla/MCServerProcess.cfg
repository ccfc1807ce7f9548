SPECIFICATION Spec
CONSTANTS
    MaxTime = 14
    DayLen = 4
    Scenes <- MCScenes
    Requests = {1, 2}
    LimitMax = 2
    LimitWindow = 1
    Clients = {"a", "b"}
    Key <- MCKey
    Trusted = {"b"}
    MaxFails = 2
    Window = 2
    BanDurs <- MCDurs
    Forever = 99
    NoticeInterval = 1
    NoticeWindow = 2
    NoticeLimit = 2
    NoticeMaxIPs = 3
    MaxRestarts = 1
    MaxSkipped = 1
    Loops = {"nas", "alerts"}
    Dests = {"n1", "n2"}
    Times = {1}
    Keep = 2
    MaxManual = 1
    SavedRows <- MCRows
    Poll = 2
    SendLimit = 2
    BackoffMin = 1
    BackoffMax = 4
    Batches = {0, 2}
INVARIANTS
    TypeOK
    GuessesBounded
    NoticesKept
    PasswordChecksBounded
    IdleWhenClosed
    OnceADay
    DailyCopy
    ResultIsTrue
    PasswordStaysHome
    MailEachDay
    RetriesSpaced
    BatchOnTime
PROPERTY ImplementsBanBook
CHECK_DEADLOCK FALSE
