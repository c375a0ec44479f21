CONSTANTS
    User = {u1, u2}
    Subject = {g1, m1}
    AdminCapable = {g1, m1}
    Google = {g1}
    Email = {a, b}
    Policies <- MCPolicies
    Request = {r1, r2}
    None = None
SPECIFICATION Spec
INVARIANT UnlinkEndsSessions
