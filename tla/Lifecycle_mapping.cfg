SPECIFICATION Spec
CONSTANTS
    Clients = {c1, c2}
    Controllers = {k1}
    Workloads = {w1, w2}
    Pods = {p1}
    None = None
    MaxUid = 2
    MaxRequests = 3
    Faults = {}
SYMMETRY Symmetry
INVARIANT MappingIsOwn
CHECK_DEADLOCK FALSE
