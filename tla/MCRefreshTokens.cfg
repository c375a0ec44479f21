CONSTANTS
    Token = {t1, t2, t3}
    Family = {f1}
    User = {u1}
    Service = {s1}
    Request = {r1, r2}
    None = None
    TTL = 2
    MaxAges = {None, 3}
    MaxClock = 4
    MaxFaults = 0
SPECIFICATION Spec
SYMMETRY Symmetry
INVARIANTS SingleLiveToken TypeOK ReplayKillsFamily
