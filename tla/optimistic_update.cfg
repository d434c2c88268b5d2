\* Two claims, one counter and one counter whose write may be repeated.
SPECIFICATION Spec
INVARIANTS TypeOK GivesUpOnlyWhenOvertaken
PROPERTIES ImplementsAtomicUpdate
CHECK_DEADLOCK FALSE
CONSTANTS
    c1 = c1
    c2 = c2
    n1 = n1
    n2 = n2
    Update = {c1, c2, n1, n2}
    Claim = {c1, c2}
    Repeated = {c2, n2}
    MaxAttempts = 3
