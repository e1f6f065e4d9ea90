SPECIFICATION FairSpec
CONSTANTS
    u1 = u1
    u2 = u2
    u3 = u3
    Users = {u1, u2, u3}
    r1 = r1
    r2 = r2
    Rooms = {r1, r2}
    None = None
INVARIANTS
    StateAgrees
    RequestsInPlace
PROPERTIES
    RequestsEnd
