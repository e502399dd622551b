SPECIFICATION MCSpec
CONSTANTS
    Tabs = {t1, t2}
    Ids = {i1, i2}
    Unreliable = {"update", "publish", "load"}
    TypeAhead = TRUE
    MaxActs = 3
    NoTab = NoTab
    NoId = NoId
    NoCall = NoCall
    NoReply = NoReply
SYMMETRY TabSymmetry
INVARIANT SavedUnlessBlind
PROPERTIES NoUnseenOverwrite SubmittedUnlessJoined
CHECK_DEADLOCK FALSE
