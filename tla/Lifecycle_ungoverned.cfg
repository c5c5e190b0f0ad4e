SPECIFICATION Spec
CONSTANTS
    Clients = {c1}
    Controllers = {k1}
    Workloads = {w1}
    Pods = {p1}
    None = None
    MaxUid = 1
    MaxRequests = 2
    Faults = {}
INVARIANT NoUngovernedWorkload
CHECK_DEADLOCK FALSE
