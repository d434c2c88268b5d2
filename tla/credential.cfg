\* Issuance and presentation: repeated, late and lost callbacks, retries.
SPECIFICATION Spec
SYMMETRY Symmetry
INVARIANTS ActiveExchangeIsWhole IssuedCredentialExists VerifiedMeansPresented RetryLimitsHold
CHECK_DEADLOCK FALSE
CONSTANTS
    w1 = w1
    w2 = w2
    Worker = {w1, w2}
    Approver = {"direct-manager", "skip-manager"}
    Key = {}
    MaxAttempts = 3
    MaxTaps = 1
    MaxIssuanceRetries = 2
    MaxPresentationRetries = 2
    MaxVerificationFailures = 2
    MaxInviteAttempts = 2
    None = None
    Events = {"service-fault", "exchange-deadline", "crash", "storage-fault"}
    GroupCheckDefined = FALSE
