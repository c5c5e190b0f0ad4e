SPECIFICATION Spec
CONSTANTS
    Clients = {c1, c2}
    Controllers = {k1}
    Workloads = {w1}
    Pods = {p1}
    None = None
    MaxUid = 1
    MaxRequests = 3
    Faults = {"requestCrash", "passCrash", "cacheLag", "boundaryError",
              "transitionTimeout", "ageing", "lateCreate"}
SYMMETRY Symmetry
INVARIANTS TypeOK PauseRevokesFirst
PROPERTY BindsOnlyUnfencedPod
CHECK_DEADLOCK FALSE
