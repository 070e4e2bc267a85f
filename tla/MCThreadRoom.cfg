SPECIFICATION Spec
CONSTANTS
    User = {u1, u2, u3}
    Founders = {u1}
    Call = {c1, c2}
    Topic = {}
    Ops = {"send", "add", "join", "leave", "update"}
    Direct = FALSE
    Named = FALSE
    ChaosOn = FALSE
    StartLimit = 1
    LossLimit = 1
    None = None
SYMMETRY Symmetry
INVARIANTS
    NobodyLeftBehind
    ArrivalsAnnounced
    TitleAgrees
CHECK_DEADLOCK FALSE
