SPECIFICATION MCSpec
CONSTANTS
    Person = {p, q}
    Request = {r, s}
    None = None
    Phone = {t1, t2}
    PushLimit = 4
    FaultLimit = 1
    Mail = {m1, m2, m3}
    Worker = {w1, w2}
    Buffer = 1
    MintFaults = 1
    Email <- MCEmail
    Lower <- MCLower
    Uid = {u}
    Name = {n}
    Tries = 2
    AccLimit = 3
    Group = {g}
    Line = {l}
    Chat = {k}
    GroupLimit = 2
    PerHour = 1
    Window = 2
    RawReply <- MCRawReply
    RawFacts <- MCRawFacts
    RawRefs <- MCRawRefs
    RawName <- MCRawName
    Host = {h}
    RawPage <- MCRawPage
    Route <- MCRoute
    Day = 3
    SignedTTL = 1
    Life = 2
    LinkLimit = 2
    Reader = p
    Room = {k}
    ClockLimit = 2
INVARIANTS
    BackendTypes
    GoneIsSilent
    LinksOverlap
    ScrubStays
    StaleHasCause
    DissolvedIsForgotten
    AnswersKeepShape
    PictureAlive
    DotMatchesPreview
PROPERTIES
    RegistrationEndsFairly
    ImplementsOutbox
    ServerStops
    ChangedByMembers
    AllowanceReturns
CHECK_DEADLOCK FALSE
