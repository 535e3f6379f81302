SPECIFICATION Spec
CONSTANTS
    Producers = {p1, p2}
    Consumers = {c1, c2}
    Closers = {k1}
    Capacity = 2
    Values = {v1, v2}
    None = None
SYMMETRY ThreadSymmetry
INVARIANTS
    NothingForgotten
PROPERTIES
    ImplementsContract
CHECK_DEADLOCK FALSE
