CONSTANTS
    Token = {t1, t2, t3}
    Family = {f1, f2}
    User = {u1}
    Service = {s1}
    Request = {r1, r2}
    None = None
    TTL = 2
    MaxAges = {3}
    MaxClock = 0
    MaxFaults = 1
SPECIFICATION FairSpec
INVARIANTS EndedSessionIsDead DeactivatedUserLockedOut
PROPERTY ReplayEventuallyKills
