CONSTANTS
    Projects = {p1, p2}
    LayoutCount = 2
    Clients = {c1, c2, c3}
    Other = other
    MaxQueue = 2
    NULL = NULL
SPECIFICATION Spec
SYMMETRY ClientAddresses
INVARIANTS
    LayoutClientValid FoundIsOwn
