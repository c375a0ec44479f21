CONSTANTS
    Caller = {c1, c2}
    Flight = {f1, f2, f3}
    TTL = 2
    MaxAge = 3
    NegTTL = 1
    Timeout = 1
    MaxClock = 5
    None = None
SPECIFICATION Spec
INVARIANTS SingleFlight NeverTooOld OutageIsCovered
PROPERTIES FetchesArePaced WaitersAreAnswered
