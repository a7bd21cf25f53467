SPECIFICATION Spec
CONSTANTS
    Tasks = {t1, t2}
    Clients = {c1, c2}
    Owners = {o1}
    Actions = {a1}
    Self = c1
    LeaseMs = 1
    RingSize = 2
    MaxGrants = 2
    MaxSeq = 4
    MaxInstance = 1
    MaxWire = 1
    MaxFetches = 0
    None = None
INVARIANTS NoSequenceGap LiveControllerKnown
SYMMETRY Symmetry
