SPECIFICATION Spec
CONSTANTS
    r1 = r1 r2 = r2 d1 = d1 d2 = d2 e1 = e1 e2 = e2 v1 = v1 v2 = v2 t1 = t1
    None = None
    Requests = {r1, r2}
    Deciders = {d1}
    Expirers = {e1}
    Revisions = {v1, v2}
    Targets = {t1}
    Durations = {1}
    Limits = {0, 1}
    MaxTime = 1
    MaxUid = 2
INVARIANTS TypeOK DuplicatesOnlyFromOverlap DecisionStands StaleNeverApproved
PROPERTY ImplementsLifecycle
CHECK_DEADLOCK FALSE
