SPECIFICATION Spec
CONSTANTS
    a = a
    b = b
    c = c
    Sessions = {a, b, c}
    Senders = {a}
    r1 = r1
    r2 = r2
    Rooms = {r1, r2}
    None = None
SYMMETRY Symmetry
INVARIANTS
    ReceiversReached
    NoStranger
