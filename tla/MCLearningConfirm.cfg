SPECIFICATION Spec
CONSTANTS
    Label = {food}
    Value = {v1, v2}
    Call = {c1, c2}
    Ops = {"learn", "edit"}
    PerHour = 2
    Transcript = 1
    SpendLimit = 2
    SaidLimit = 0
    RowLimit = 1
    None = None
SYMMETRY Symmetry
PROPERTY ConfirmedNotOverwritten
