SPECIFICATION Spec
CONSTANTS
    r1 = r1 r2 = r2 r3 = r3 r4 = r4
    a1 = a1 a2 = a2 k1 = k1 k2 = k2 k3 = k3 b1 = b1 NoOne = NoOne
    Requests = {r1, r2, r3, r4}
    Replicas = {a1, a2}
    Keys = {k1, k2, k3}
    Home <- MCHome
    KeyOf <- MCKeyOf
    Ask <- MCAsk
    Policy <- MCPolicy
    MaxConcurrent = 1
    Duration = 2
    Late = {"release"}
INVARIANT QuotaRespected
CHECK_DEADLOCK FALSE
