SPECIFICATION Spec
CONSTANTS
    Tasks = {t1}
    Clients = {c1, c2, c3}
    Owners = {o1}
    Actions = {a1, a2}
    RequestIds = {r1, r2}
    LeaseMs = 2
    TimeoutMs = 1
    GraceMs = 3
    MaxGeneration = 2
    MaxCalls = 20
    None = None
SYMMETRY Symmetry
INVARIANTS TypeOK AnsweredOnce PendingAsksController AnnouncedController
PROPERTIES GrantedMeansControl BlipKeepsLease
