SPECIFICATION MCSpec
CONSTANTS
    Exports = {e1, e2}
    Requests = {r1, r2}
    Cooldown = 2
    Lifetime = 1
    MaxAttempts = 3
    LocalStorage = TRUE
    Faults = TRUE
SYMMETRY ExportSymmetry
INVARIANTS ReadyHasArchive OneJobOneDownloadUnlessRaced
CHECK_DEADLOCK FALSE
