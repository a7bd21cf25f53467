SPECIFICATION Spec
CONSTANTS
    Tasks = {t1}
    Clients = {c1, c2}
    Owners = {o1}
    Actions = {a1}
    Self = c1
    LeaseMs = 1
    RingSize = 2
    MaxGrants = 1
    MaxSeq = 3
    MaxInstance = 2
    MaxWire = 1
    MaxFetches = 1
    None = None
INVARIANTS TypeOK LiveControllerKnown
SYMMETRY Symmetry
