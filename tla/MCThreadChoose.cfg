SPECIFICATION Spec
CONSTANTS
    User = {u1, u2}
    Founders = {u1, u2}
    Call = {c1, c2}
    Topic = {t1, t2}
    Ops = {"ask", "choose"}
    Direct = FALSE
    Named = FALSE
    ChaosOn = TRUE
    StartLimit = 3
    LossLimit = 0
    None = None
SYMMETRY Symmetry
CHECK_DEADLOCK FALSE
PROPERTY ChoiceOnlyAdds
