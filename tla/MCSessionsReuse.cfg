SPECIFICATION Spec
CONSTANTS
    Call = {c1, c2}
    Password = {old}
    FirstPassword = old
    Ops = {"login", "refresh"}
    TokenLimit = 2
    ActionLimit = 0
    None = None
SYMMETRY Symmetry
INVARIANT ReuseRevokesFamily
CHECK_DEADLOCK FALSE
