SPECIFICATION AnswersSpec
CONSTANTS
    MsgRecords <- MCRecords
    MsgQuestions <- MCQuestions
    MsgPrefix = 2
    MsgOps = 3
    MaxCount = 2
    MaxLen = 5
    MaxPtr = 12
    MaxHops = 2
    Cuts = {0, 2}
    Ageings <- MCAgeings
    Jobs = {"q1", "q2"}
    Asked <- MCAsked
    Sizes = {100, 1300, 4095}
    BogusPriv = TRUE
    MaxBadReads = 2
    MaxQueries = 2
    Seekers = {"k1", "k2"}
    Refreshes = {"g1", "g2"}
    Throttle = 2
    Delay = 1
    ReadTime = 1
    TableClock = 9
    MaxArgs = 2
    MaxStored = 2
    HintSets <- MCHints
    HostAddr = "name"
    Priorities = {1, 2}
    MaxAnswers = 3
INVARIANTS
    AnswersTypeOK
    RoundTrip
    TTLRight
    EDNSFound
    AnswerOwn
    KnownServed
    CutMarked
    TableKept
    SelectionMeant
    OneConnection
\* Every part is bounded: it may stop.
CHECK_DEADLOCK FALSE
