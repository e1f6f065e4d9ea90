SPECIFICATION Spec
CONSTANTS
    s1 = s1
    s2 = s2
    s3 = s3
    s4 = s4
    Sessions = {s1, s2, s3, s4}
    i1 = i1
    i2 = i2
    Ids = {i1, i2}
    n1 = n1
    n2 = n2
    Names = {n1, n2}
    r1 = r1
    r2 = r2
    Rooms = {r1, r2}
    MaxSessions = 3
    RoomSize = 1
    None = None
SYMMETRY Symmetry
INVARIANTS
    LoginExclusive
    RoomConsistent
    MapsConsistent
    CapacityRespected
PROPERTIES
    ImplementsPresence
