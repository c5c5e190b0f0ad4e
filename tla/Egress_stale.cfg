SPECIFICATION Spec
CONSTANTS
    c1 = c1 c2 = c2 t1 = t1 t2 = t2 r1 = r1 r2 = r2 open = open closed = closed
    None = None
    Checks = {c1}
    Tokens = {t1, t2}
    TokenPod <- MCTokenPod
    TokenExp <- MCTokenExp
    Requests = {r1}
    GrantPod <- MCGrantPod
    GrantRevision <- MCGrantRevision
    GrantDuration = 1
    Policies = {open, closed}
    Allows = {open}
    FreshnessLimit = 1
    TokenCacheTTL = 2
    MaxTokenCacheEntries = 1
    Retention = 1
    MaxTime = 3
    MaxPod = 2
    MaxChanges = 3
INVARIANT AllowNotStale
CHECK_DEADLOCK FALSE
