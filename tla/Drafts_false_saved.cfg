SPECIFICATION MCSpec
CONSTANTS
    Tabs = {t1}
    Ids = {i1, i2}
    Unreliable = {"create"}
    TypeAhead = FALSE
    MaxActs = 4
    NoTab = NoTab
    NoId = NoId
    NoCall = NoCall
    NoReply = NoReply
INVARIANT SavedIsStored
CHECK_DEADLOCK FALSE
