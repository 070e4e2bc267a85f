SPECIFICATION Spec
CONSTANTS
    User = {u1, u2, u3, u4}
    Call = {c1, c2}
    d1 = d1
    sushi = sushi
    tacos = tacos
    stray = stray
    None = None
    Decision <- MCDecision
    Option <- MCOption
    Slate <- MCSlate
SYMMETRY Symmetry
INVARIANTS
    OneVotePerDecision
    WinnerMatchesTally
    Inv
PROPERTY
    ImplementsVoting
