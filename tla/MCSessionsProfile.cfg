SPECIFICATION Spec
CONSTANTS
    Call = {c1, c2}
    Password = {old, new}
    FirstPassword = old
    Ops = {"change", "profile"}
    TokenLimit = 0
    ActionLimit = 0
    None = None
SYMMETRY Symmetry
PROPERTY ProfileLeavesPassword
