SPECIFICATION FairSpec
CONSTANTS
    Clients = {c1}
    Controllers = {k1}
    Workloads = {w1}
    Pods = {p1, p2}
    None = None
    MaxUid = 1
    MaxRequests = 3
    Faults = {}
INVARIANT RetiredPodNeverReady
PROPERTIES FinalizerOutlivesWorkload DeletionCompletes MappingRecovered
           ReadyFollowsPod
CHECK_DEADLOCK FALSE
