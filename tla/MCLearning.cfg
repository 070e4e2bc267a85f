SPECIFICATION Spec
CONSTANTS
    Label = {food}
    Value = {v1}
    Call = {c1, c2}
    Ops = {"turn", "add", "learn", "refresh", "edit", "forget", "profile"}
    PerHour = 1
    Transcript = 2
    SpendLimit = 1
    SaidLimit = 3
    RowLimit = 2
    None = None
SYMMETRY Symmetry
INVARIANTS
    TypeOK
    ConfirmedIsCertain
    WatermarkIsMined
    BudgetHolds
    NoteFollowsFacts
PROPERTY
    ForgottenStaysForgotten
