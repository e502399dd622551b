SPECIFICATION MCSpec
CONSTANTS
    Editors = {e1, e2}
    Articles = {p1}
    Images = {1, 2}
    Slugs = {s1, s2}
    MaxVersions = 1
    NoImage = NoImage
SYMMETRY ArticleSymmetry
INVARIANTS ReferencedImagesExist NoLockCycle
PROPERTY FixedUnlessStale
CHECK_DEADLOCK FALSE
