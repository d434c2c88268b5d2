\* The link mailed to the skip manager.
SPECIFICATION Spec
INVARIANT SkipManagerLinkOpens
CHECK_DEADLOCK FALSE
CONSTANTS
    w1 = w1
    w2 = w2
    Worker = {w1, w2}
    Approver = {"direct-manager", "skip-manager"}
    Key = {}
    MaxAttempts = 0
    MaxTaps = 0
    MaxIssuanceRetries = 1
    MaxPresentationRetries = 1
    MaxVerificationFailures = 2
    MaxInviteAttempts = 2
    None = None
    Events = {"escalation"}
    GroupCheckDefined = TRUE
