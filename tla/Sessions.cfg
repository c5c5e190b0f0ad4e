SPECIFICATION Spec
CONSTANTS
    b1 = b1 c1 = c1 c2 = c2 q1 = q1 q2 = q2 t1 = t1 t2 = t2 p1 = p1 a1 = a1 a2 = a2
    Tabs = {b1}
    Cookies = {c1, c2}
    LoginLimit = 0
    SessionLifetime = 1
    MaxSessions = 1
    MaxTime = 1
    MaxStarts = 2
    Requests = {q1, q2}
    MayAsk <- MCMayAsk
    Tenants = {t1, t2}
    Bindings = {p1}
    Assignments = {a1, a2}
    Label = a1
    Empty = Empty
    Absent = Absent
    MaxChanges = 1
SYMMETRY Symmetry
INVARIANTS TypeOK SessionHonoured OperationAuthorized OneSessionPerSignIn
PROPERTIES CapacityOnlyByLiveSessions
