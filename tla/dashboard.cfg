\* Sessions, sign-ins and invitations of one browser.
SPECIFICATION Spec
SYMMETRY Symmetry
INVARIANTS TypeOK DestroyedStaysDestroyed OneStandingPerSession AuthorityFromItsSignIn
INVARIANTS SignInAnswerIsTrue AdmittedWithinLimit RefusedOnlyWhenSpent
CHECK_DEADLOCK FALSE
CONSTANTS
    w1 = w1
    w2 = w2
    s1 = s1
    s2 = s2
    t1 = t1
    Worker = {w1, w2}
    Sid = {s1, s2}
    SignIn = {t1}
    None = None
    Limit = 1
    RateAttempts = 2
    MaxCount = 1
    MaxWasted = 1
    Events = {"crash", "storage-fault", "lost-answer", "session-expiry",
              "authority-expiry", "sign-in-expiry"}
