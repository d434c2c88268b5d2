\* A proved request gets on, unless a crash or a failing update leaves its operation behind.
SPECIFICATION FairSpec
PROPERTY TapAttemptResolves
CHECK_DEADLOCK FALSE
CONSTANTS
    w1 = w1
    w2 = w2
    Worker = {w1, w2}
    Approver = {"direct-manager", "skip-manager"}
    Key = {}
    MaxAttempts = 1
    MaxTaps = 2
    MaxIssuanceRetries = 1
    MaxPresentationRetries = 1
    MaxVerificationFailures = 2
    MaxInviteAttempts = 2
    None = None
    Events = {"graph-fault", "request-deadline", "admin", "crash", "storage-fault"}
    GroupCheckDefined = TRUE
