SPECIFICATION ServiceSpec
CONSTANTS
    q1 = q1
    nothing = nothing
    NoAnswer = NoAnswer
    NoPlace = NoPlace
    NoClaim = NoClaim
    NoRequest = NoRequest
    Missing = Missing
    Unread = Unread
    Other = Other
    Null = nothing
    Unknown = "unknown"
    Types <- MCTypes
    Facts <- MCFacts
    Values <- MCValues
    Material <- MCMaterial
    Places <- MCPlaces
    Words = {1, 2, 3, 4, 5, 6, 8, 9}
    MinQuote = 2
    MinFragment = 1
    PerRule = 2
    MaxPassages = 2
    ForQuestion = 1
    Contexts <- MCContexts
    Questions <- MCQuestions
    Descriptions <- MCDescriptions
    Quotes <- MCQuotes
    Claims <- MCClaims
    WrittenPlaces <- MCWrittenPlaces
    AnswerClaims = 2
    MaxQuestions = 2
    MaxRead = 2
    MinSupport = 1
    t1 = t1
    t2 = t2
    c1 = c1
    c2 = c2
    i1 = i1
    Threads = {t1, t2}
    Clients = {c1, c2}
    Instances = {i1}
    InstanceOf <- TwoThreads
    Backend = "memory"
    Cap = 1
    PerClient = 1
    Window = 1
    DayOf <- OneDay
    NoClient = NoClient
    MaxTime = 2
    MaxWindows = 1
    MaxRestarts = 0
INVARIANTS ShownIsGrounded EveryRuleHeard DraftFitsForm PlaceAsWritten
           NoPhantomReservation DailyCapHard
 
