SPECIFICATION Spec
CONSTANTS
    a1 = a1 a2 = a2 NoGrant = NoGrant NoReplica = NoReplica
    p1 = p1 p2 = p2 p3 = p3 p4 = p4 g1 = g1
    Requests = {p1, p2, p3, p4}
    Replicas = {a1, a2}
    Grants = {g1}
    Skew <- MCSkew
    TTLs = {1}
    MaxTime = 1
    MaxBinding = 2
    MaxGeneration = 2
SYMMETRY Symmetry
INVARIANTS TypeOK RevocationHolds BindingHeldAtOnce AcknowledgedIsAudited
CHECK_DEADLOCK FALSE
