CONSTANTS
    Service = {s1}
    Provider = {p1, p2}
    Forms <- MCForms
    Request = {r1, r2}
    MaxFaults = 1
    None = None
SPECIFICATION RegistrySpec
SYMMETRY Symmetry
INVARIANTS CacheFollowsSaves OfferedAsAssigned
PROPERTY UnloadedAssignmentsKept
