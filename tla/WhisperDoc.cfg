SPECIFICATION Spec
CONSTANTS
    s1 = s1
    s2 = s2
    Sessions = {s1, s2}
    i1 = i1
    i2 = i2
    Ids = {i1, i2}
    n1 = n1
    n2 = n2
    Names = {n1, n2}
    r1 = r1
    Rooms = {r1}
    MaxSessions = 2
    RoomSize = 1
    None = None
PROPERTIES
    WhisperAnswer
