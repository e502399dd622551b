SPECIFICATION ScreensSpec
CONSTANTS
    Images = {p1, p2, i3}
    Requests = {r1, r2}
    MaxImages = 2
    MaxRepeats = 1
    LocalStorage = FALSE
    Pairs = {p1, p2}
    Tabs = {t1, t2}
    Desks = {t0}
    Texts = {"a", "b", "c"}
    Offers <- Answers
    MaxPage = 2
    MaxSaved = 1
    MaxEvents = 1
    MaxCalls = 2
    Days = 1
    MaxTime = 3
    MaxAttempts = 1
    MaxPhotos = 3
    MaxFiles = 2
    MaxConcurrent = 1
    Budget = 2
CONSTRAINT Explored
SYMMETRY ScreenSymmetry
INVARIANTS
    NoBrokenImage GalleryUnlessStale
    BrowseAccepts SuggestionsFresh NotificationsReachable OneBuyer ButtonsTell
    PeriodsAddUp DecisionsStand VerifiedIsProved EditorsShowTheirs
CHECK_DEADLOCK FALSE
