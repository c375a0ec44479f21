CONSTANTS
    Token = {t1, t2}
    Family = {f1, f2}
    User = {u1}
    Service = {s1}
    Request = {r1}
    None = None
    TTL = 1
    MaxAges = {None}
    MaxClock = 2
    MaxFaults = 1
    Code = {c1}
    CodeRequest = {k1, k2}
    CodeTTL = 1
SPECIFICATION CodeSpec
SYMMETRY Symmetry
VIEW CodeView
INVARIANTS CodeAndFamilyTogether ReusedCodeKillsFamily CodeRedeemedOnce
PROPERTIES MismatchTouchesNothing ImplementsSessions
