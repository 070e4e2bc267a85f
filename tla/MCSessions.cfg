SPECIFICATION Spec
CONSTANTS
    Call = {c1, c2}
    Password = {old, new}
    FirstPassword = old
    Ops = {"login", "social", "refresh", "logout", "forgot", "reset", "change", "profile", "delete"}
    TokenLimit = 2
    ActionLimit = 1
    None = None
SYMMETRY Symmetry
INVARIANTS
    TypeOK
    OneEndPerFamily
    BurnIsFinal
    SpentIsUsed
