CONSTANTS
    a = a
    b = b
    ua = ua
    ub = ub
    p1 = p1
    i1 = i1
    Service = {a, b}
    URI = {ua, ub}
    CallbackUrl <- MCCallbackUrl
    OwnHost = {a}
    OtherHost = {}
    DefaultService = a
    MaxChanges = 1
    None = None
    Attempt = {n1, n2}
    Slug = {p1}
    Invite = {i1}
    InviteFor <- MCInviteFor
    Handler = {h1, h2}
    Revisable <- MCRevisable
    MaxCodes = 1
SPECIFICATION FlowSpec
SYMMETRY Symmetry
INVARIANTS EndedAsStarted SpentStateGone ForeignDeliveryTraced CodeForItsLogin
