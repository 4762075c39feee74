CONSTANTS
    Threads = {p1, p2, p3}
    Marks = {k1, k2, k3}
    MaxMinutes = 3
    NULL = NULL
SYMMETRY Symmetry
SPECIFICATION Spec
INVARIANTS
    MarksCountedOnce
