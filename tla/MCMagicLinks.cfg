CONSTANTS
    Link = {l1, l2}
    Email = {a, b}
    User = {u1, u2}
    Request = {r1, r2}
    Quota = 1
    Window = 2
    LinkTTL = 2
    Grace = 0
    Lag = 0
    MaxClock = 3
    None = None
SPECIFICATION Spec
SYMMETRY Symmetry
INVARIANTS OneLoginPerLink UsableLinkKeepsOwner DeactivatedStaysOut QuotaHolds
