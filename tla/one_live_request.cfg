\* An insert that is stored and reported as failed.
SPECIFICATION Spec
SYMMETRY Symmetry
INVARIANTS OneLiveRequest
CHECK_DEADLOCK FALSE
CONSTANTS
    r1 = r1
    r2 = r2
    c1 = c1
    Request = {r1, r2}
    Closer = {c1}
    None = None
    Events = {"lost-answer"}
