SPECIFICATION MCSpec
CONSTANTS
    Messages = {m1, m2}
    Requests = {r1, r2}
    PageSize = 1
    Wary = {"seller"}
SYMMETRY MessageSymmetry
INVARIANTS NoneHidden CountsUnlessRaced SilentUnlessLate
PROPERTY ReopensUnlessDismissed
CHECK_DEADLOCK FALSE
