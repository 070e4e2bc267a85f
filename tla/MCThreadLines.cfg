SPECIFICATION MCSpec
CONSTANTS
    User = {u1, u2}
    Founders = {u1, u2}
    Call = {c1, c2}
    Topic = {t1}
    Ops = {"send", "ask", "choose", "open", "seen"}
    Direct = FALSE
    Named = FALSE
    ChaosOn = TRUE
    StartLimit = 5
    LossLimit = 1
    None = None
SYMMETRY Symmetry
ACTION_CONSTRAINT MCScenario
INVARIANTS
    TypeOK
    SendContract
    SilenceBounded
PROPERTY
    ListedIsRead
CHECK_DEADLOCK FALSE
