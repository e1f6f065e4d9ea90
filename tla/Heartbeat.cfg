SPECIFICATION Spec
VIEW View
CONSTANTS
    a = a
    b = b
    Sessions = {a, b}
    Responsive = {a}
    Period = 2
    PongTimeout = 5
    Loop = 1
    Late = 1
    Delay = 4
INVARIANTS
    NoFalseTimeout
    SilenceBound
