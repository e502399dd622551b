SPECIFICATION SettlesSpec
CONSTANTS
    Mails = {m1, m2}
    Requests = {r1}
    MaxAttempts = 2
    MaxCopies = 2
    MaxDeaths = 1
    MaxRetries = 1
    Exports = {e1, e2}
    Images = {i1, i2}
    Caller = q
INVARIANT OnceUnlessDoubted
PROPERTIES KeepsPromise FormsLetIn ExportsSettle OrphansGo
CHECK_DEADLOCK FALSE
