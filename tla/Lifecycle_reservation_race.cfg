SPECIFICATION MCSpec
CONSTANTS
    Listings = {l1}
    Requests = {r1, r2}
    Worker = w
    ReviewMode = "manual"
    Lifetime = 0
    Retention = 0
    MaxTime = 0
    NULL = NULL
SYMMETRY RequestSymmetry
INVARIANT ReservationCleared
CHECK_DEADLOCK FALSE
