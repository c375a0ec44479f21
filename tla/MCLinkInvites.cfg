CONSTANTS
    User = {u1, u2}
    Subject = {o1}
    AdminCapable = {}
    Google = {}
    Email = {a, b}
    Policies = {}
    Request = {}
    None = None
    Invite = {i1, i2}
    InviteRequest = {k1, k2}
    Quota = 1
    Window = 2
    InviteTTL = 2
    Retention = 0
    Lag = 0
    MaxClock = 3
SPECIFICATION InviteSpec
SYMMETRY Symmetry
INVARIANTS InviteLinksOnce InviteQuotaHolds
PROPERTY InviteLinksInvitee
