\* A request that lapses while it is completed.
SPECIFICATION Spec
PROPERTY NothingLeavesComplete
CHECK_DEADLOCK FALSE
CONSTANTS
    w1 = w1
    w2 = w2
    Worker = {w1, w2}
    Approver = {"direct-manager", "skip-manager"}
    Key = {k1}
    MaxAttempts = 1
    MaxTaps = 1
    MaxIssuanceRetries = 1
    MaxPresentationRetries = 1
    MaxVerificationFailures = 2
    MaxInviteAttempts = 2
    k1 = k1
    None = None
    Events = {"request-deadline", "new-passkey"}
    GroupCheckDefined = TRUE
