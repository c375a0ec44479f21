CONSTANTS
    User = {u1, u2}
    Subject = {g1, g2}
    AdminCapable = {g1, g2}
    Google = {g1, g2}
    Email = {a, b}
    Policies <- MCPolicies
    Request = {r1, r2}
    None = None
SPECIFICATION Spec
SYMMETRY Symmetry
VIEW WithoutSessions
INVARIANTS OneTransitionLink ResolvedAsOwner AdminThroughApproved OneApprovedAccount
PROPERTIES NoOrphanRegistration
