\* Nothing outside the portal fails, and still no pass is issued.
SPECIFICATION FairSpec
PROPERTY ProofYieldsTap
CHECK_DEADLOCK FALSE
CONSTANTS
    w1 = w1
    w2 = w2
    Worker = {w1, w2}
    Approver = {"direct-manager", "skip-manager"}
    Key = {}
    MaxAttempts = 1
    MaxTaps = 1
    MaxIssuanceRetries = 1
    MaxPresentationRetries = 1
    MaxVerificationFailures = 2
    MaxInviteAttempts = 2
    None = None
    Events = {}
    GroupCheckDefined = FALSE
