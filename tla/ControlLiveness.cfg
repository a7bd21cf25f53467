SPECIFICATION FairSpec
CONSTANTS
    Tasks = {t1}
    Clients = {c1, c2}
    Owners = {o1}
    Actions = {a1}
    RequestIds = {r1}
    LeaseMs = 2
    TimeoutMs = 1
    GraceMs = 3
    MaxGeneration = 1
    MaxCalls = 20
    None = None
PROPERTIES EveryRequestAnswered DepartedLosesLease
