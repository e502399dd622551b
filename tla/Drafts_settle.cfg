SPECIFICATION MCFairSpec
CONSTANTS
    Tabs = {t1}
    Ids = {i1, i2}
    Unreliable = {"create", "update", "publish", "load"}
    TypeAhead = TRUE
    MaxActs = 4
    NoTab = NoTab
    NoId = NoId
    NoCall = NoCall
    NoReply = NoReply
INVARIANT OneListingPerClient
INVARIANT NeverStuckUnlessSilenced
PROPERTY EditsSettleUnlessSilenced
CHECK_DEADLOCK FALSE
