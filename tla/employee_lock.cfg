\* Everything that may go wrong: one live request unless disturbed, no lock left over.
SPECIFICATION Spec
SYMMETRY Symmetry
INVARIANTS TypeOK OneLiveRequestUndisturbed ClosedRequestFreesEmployee
CHECK_DEADLOCK FALSE
CONSTANTS
    r1 = r1
    r2 = r2
    r3 = r3
    c1 = c1
    c2 = c2
    Request = {r1, r2, r3}
    Closer = {c1, c2}
    None = None
    Events = {"crash", "refused-write", "lost-answer", "slow-create", "script"}
