SPECIFICATION MCSpec
CONSTANTS
    Listings = {l1}
    Sessions = {s1, s2}
    Requests = {r1, r2}
    MaxPasswords = 1
CONSTRAINT NotYetRaced
SYMMETRY AccountSymmetry
INVARIANT PasswordsUnlessRaced
PROPERTIES ErasedUnlessLifted ClosedUnlessLifted VanishedIsRevoked
CHECK_DEADLOCK FALSE
