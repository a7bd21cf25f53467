SPECIFICATION Spec
CONSTANTS
    Tasks = {t1}
    Clients = {c1, c2}
    Owners = {o1, o2}
    Actions = {a1, a2}
    LeaseMs = 2
    MaxGeneration = 3
    None = None
SYMMETRY Symmetry
INVARIANTS TypeOK SnapshotsAgree GenerationIdentifiesGrant
PROPERTIES RejectedForEver ImplementsFence
