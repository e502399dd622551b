SPECIFICATION MCFairSpec
CONSTANTS
    Listings = {l1}
    Requests = {r1}
    Worker = w
    ReviewMode = "manual"
    Lifetime = 1
    Retention = 1
    MaxTime = 3
    NULL = NULL
INVARIANTS ClearedUnlessRaced
PROPERTIES HistoryKeptUnlessRaced ExpiredIsArchived
CHECK_DEADLOCK FALSE
