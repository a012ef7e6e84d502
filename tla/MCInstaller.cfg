SPECIFICATION Spec
CONSTANTS
    Process = {p1, p2, p3}
    None = None
    Found <- MCFound
INVARIANTS
    ReturnedIsComplete
    LosersAreServed
SYMMETRY MCSymmetry
CHECK_DEADLOCK FALSE
